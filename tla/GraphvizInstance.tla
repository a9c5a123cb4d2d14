-------------------------- MODULE GraphvizInstance --------------------------
(***************************************************************************)
(* One Module() of full.render.js and what a render leaves in it.  The     *)
(* same instance serves every call of a Viz object, or of a worker, so its *)
(* files and settings outlive the call that made them.  Graphviz itself is *)
(* external: for each source the constant Takes says what it makes of it.  *)
(***************************************************************************)
EXTENDS Integers, Sequences

CONSTANTS
    Sources,        \* DOT texts
    Takes,          \* what Graphviz makes of a source
    Paths, Data,    \* names and contents of files
    Nothing         \* no file, no output, no question

Verdicts == {"graph",    \* a drawing
             "blank",    \* no graph at all: the output is ''
             "error",    \* vizLastErrorMessage is set
             "throws"}   \* the call leaves through an exception, before or after that

ASSUME InstanceAssumption ==
    /\ Takes \in [Sources -> Verdicts]
    /\ Nothing \notin Data

File == [path : Paths, data : Data]
Formats == {"svg", "json", "dot"}

\* What render() is given beside the source.
Options == [format : Formats, files : Seq(File), yInvert : BOOLEAN, nop : Nat]

\* What a render's text depends on: its source, and what Graphviz finds in the instance.
Output == [src : Sources, format : Formats, files : [Paths -> Data \cup {Nothing}],
           yInvert : BOOLEAN, nop : Nat]

\* The message pointer is null until the first error.  Nothing resets it: render()
\* frees what it points to, and from then on it dangles; a render that throws leaves a
\* message that nobody has read.  Either is `stale` for the next render.
Instance == [files : [Paths -> Data \cup {Nothing}], yInvert : BOOLEAN, nop : Nat,
             stale : BOOLEAN]

FreshInstance ==
    [files |-> [p \in Paths |-> Nothing], yInvert |-> FALSE, nop |-> 0, stale |-> FALSE]

\* Mutant of CreateFiles: a file that exists is left alone.
FirstFileStays(fs, files) ==
    [p \in Paths |-> IF DOMAIN files = {} \/ fs[p] # Nothing THEN fs[p] ELSE files[1].data]

\* vizCreateFile for each file in turn: a later one of the same path overwrites.
Named(files, p) == {i \in DOMAIN files : files[i].path = p}
LastAt(files, p) == CHOOSE i \in Named(files, p) : \A j \in Named(files, p) : j <= i
CreateFiles(fs, files) ==
    [p \in Paths |-> IF Named(files, p) = {} THEN fs[p] ELSE files[LastAt(files, p)].data]

\* Mutant of Prepared: the orientation is set only when it is asked for.
YInvertSticks(inst, o) ==
    [inst EXCEPT !.files = CreateFiles(inst.files, o.files),
                 !.yInvert = o.yInvert \/ inst.yInvert,
                 !.nop = IF o.nop # 0 THEN o.nop ELSE inst.nop]
\* Mutant of Prepared: vizSetNop is given the other setting.
NopFromYInvert(inst, o) ==
    [inst EXCEPT !.files = CreateFiles(inst.files, o.files), !.yInvert = o.yInvert,
                 !.nop = IF o.yInvert THEN 1 ELSE inst.nop]

\* vizSetNop leaves the setting alone when it is given 0.
Prepared(inst, o) ==
    [inst EXCEPT !.files = CreateFiles(inst.files, o.files), !.yInvert = o.yInvert,
                 !.nop = IF o.nop # 0 THEN o.nop ELSE inst.nop]

OutputOf(inst, src, o) ==
    [src |-> src, format |-> o.format, files |-> inst.files, yInvert |-> inst.yInvert,
     nop |-> inst.nop]

Succeeds(out, inst) == [ok |-> TRUE, output |-> out, instance |-> inst]
Fails(inst) == [ok |-> FALSE, output |-> Nothing, instance |-> inst]

\* Mutant of Renders: no text is taken for a failure.
BlankIsAnError(inst, src, o) ==
    LET p == Prepared(inst, o)
    IN IF Takes[src] # "graph" THEN {Fails([p EXCEPT !.stale = @ \/ Takes[src] = "error"])}
       ELSE {Succeeds(OutputOf(p, src, o), p)} \cup (IF p.stale THEN {Fails(p)} ELSE {})

\* Every way render(instance, src, options) may end.  What a stale pointer reads
\* as is anybody's guess: an empty text lets the render succeed, any other fails it.
Renders(inst, src, o) ==
    LET p == Prepared(inst, o)
        verdict == Takes[src]
    IN IF verdict = "throws" THEN {Fails(p), Fails([p EXCEPT !.stale = TRUE])}
       ELSE IF verdict = "error" THEN {Fails([p EXCEPT !.stale = TRUE])}
       ELSE {Succeeds(OutputOf(p, src, o), p)} \cup (IF p.stale THEN {Fails(p)} ELSE {})
=============================================================================
