----------------------------- MODULE LoaderProofs -----------------------------
(***************************************************************************)
(* Theorems about DictionaryLoader, for all files and whatever they import.*)
(***************************************************************************)
EXTENDS LoadedDictionary, TLAPS

-----------------------------------------------------------------------------
(***************************************************************************)
(* Texts, frames and directives.                                           *)
(***************************************************************************)
\* What stands behind the URIs in a case is files, and a version of one is a file.
LEMMA FilesTyped ==
    ASSUME library \in DOMAIN Libraries
    PROVE  /\ Files \in [Uris -> Seq(File)]
           /\ \A u \in Uris : \A v \in DOMAIN Files[u] : Text(u, v) \in File
  <1>1. Files \in [Uris -> Seq(File)]
    BY LoaderAssumption DEF Files
  <1>2. QED
    BY <1>1 DEF Text

\* The frame a call is at.
LEMMA FrameTyped ==
    ASSUME library \in DOMAIN Libraries,
           NEW c \in Call, CallOK(c), c.place # 0
    PROVE  FrameOf(c) \in Frame
  <1>1. Text(c.uri, c.reading) \in File
    BY FilesTyped DEF CallOK, Call
  <1>2. Text(c.uri, c.reading).frames \in Seq(Frame)
    BY <1>1 DEF File
  <1>3. c.place \in 1..Len(Text(c.uri, c.reading).frames)
    BY <1>2 DEF CallOK, Call
  <1>4. QED
    BY <1>2, <1>3 DEF FrameOf

\* A directive that is still to do is one of its frame.
LEMMA DirectiveTyped ==
    ASSUME library \in DOMAIN Libraries,
           NEW c \in Call, CallOK(c), c.phase # "frames", NEW i \in c.todo
    PROVE  /\ i \in DOMAIN FrameOf(c).imports
           /\ FrameOf(c).imports[i] \in Directive
  <1>1. FrameOf(c).imports \in Seq(Directive)
    BY FrameTyped DEF CallOK, Frame
  <1>2. QED
    BY <1>1 DEF CallOK

\* The frame that directive i names.
LEMMA TargetTyped ==
    ASSUME TypeOK, NEW i, NEW k, Target(i, k)
    PROVE  /\ Top \in Call /\ CallOK(Top) /\ i \in Top.todo
           /\ FrameOf(Top).imports[i] \in Directive
           /\ FrameOf(Top).imports[i].file \in Uris
           /\ Parsed(FrameOf(Top).imports[i].file) \in DOMAIN Files[FrameOf(Top).imports[i].file]
           /\ TargetFrame(i, k) \in Frame
  <1> DEFINE d == FrameOf(Top).imports[i]
             v == Parsed(d.file)
  <1>1. Top \in Call /\ CallOK(Top) /\ i \in Top.todo /\ Top.phase = "directives"
    BY DEF Target, In, IsNext, TypeOK, CallsOK, Top
  <1>2. d \in Directive
    BY <1>1, DirectiveTyped DEF TypeOK
  <1>3. Usable(d) /\ k \in Places(d)
    BY DEF Target, UsablePlaces
  <1>4. d.file \in Uris
    BY <1>2, <1>3 DEF Usable, Directive
  <1>5. v # 0 /\ v \in 0..Len(Files[d.file])
    BY <1>3, <1>4 DEF Places, Parsed, Source, TypeOK
  <1>6. Files[d.file] \in Seq(File)
    BY <1>4, FilesTyped DEF TypeOK
  <1>7. v \in DOMAIN Files[d.file]
    BY <1>5, <1>6
  <1>8. Text(d.file, v) \in File
    BY <1>4, <1>7, FilesTyped DEF TypeOK
  <1>9. k \in DOMAIN Text(d.file, v).frames
    BY <1>3, <1>5 DEF Places
  <1>10. TargetFrame(i, k) \in Frame
    BY <1>8, <1>9 DEF TargetFrame, File
  <1>11. QED
    BY <1>1, <1>2, <1>4, <1>7, <1>10

-----------------------------------------------------------------------------
(***************************************************************************)
(* Calls that become others at the same frame.                             *)
(***************************************************************************)
\* A call stays well-formed where it keeps its frame and has no more to do than before.
LEMMA SameFrame ==
    ASSUME NEW c \in Call, NEW e \in Call, CallOK(c),
           e.uri = c.uri, e.reading = c.reading, e.place = c.place,
           e.phase # "frames" => c.phase # "frames" /\ e.todo \subseteq c.todo,
           e.coming # {} => e.phase = "items" /\ e.coming \subseteq DOMAIN e.constituent
    PROVE  CallOK(e)
  <1>1. FrameOf(e) = FrameOf(c)
    BY DEF FrameOf
  <1>2. QED
    BY <1>1 DEF CallOK

\* A warning changes nothing else.
LEMMA WarnTyped ==
    ASSUME NEW c \in Call, NEW kinds \in SUBSET Kinds
    PROVE  /\ Warn(c, kinds) \in Call
           /\ Warn(c, kinds) = [c EXCEPT !.warnings = Warn(c, kinds).warnings]
           /\ Warn(c, kinds).warnings \in SUBSET Warning
  <1>1. {[kind |-> k, at |-> c.uri] : k \in kinds} \subseteq Warning
    BY DEF Warning, Call
  <1>2. c.warnings \cup {[kind |-> k, at |-> c.uri] : k \in kinds} \in SUBSET Warning
    BY <1>1 DEF Call
  <1>3. QED
    BY <1>2 DEF Warn, Call

\* What a step makes of the innermost call: the same call with other work, and then in most
\* cases with the same definitions.
Works(c, e) ==
    /\ e \in Call /\ CallOK(e)
    /\ e.uri = c.uri /\ e.reading = c.reading /\ e.phase # "waiting"
Follows(c, e) ==
    /\ Works(c, e)
    /\ e.constituent \in {c.constituent, <<>>} /\ e.primary = c.primary /\ e.pool = c.pool

\* Going on to the next directive, or leaving the rest, with or without a warning.
LEMMA PassFollows ==
    ASSUME NEW c \in Call, CallOK(c), c.phase # "frames", c.coming = {},
           NEW kinds \in SUBSET Kinds, NEW i,
           NEW b \in {c, Warn(c, kinds)}, NEW e \in {Pass(b, i), GiveUp(b)}
    PROVE  Follows(c, e)
  <1>1. b \in Call /\ b = [c EXCEPT !.warnings = b.warnings]
    <2>1. c = [c EXCEPT !.warnings = c.warnings]
      BY DEF Call
    <2>2. QED
      BY <2>1, WarnTyped
  <1>2. e \in {[b EXCEPT !.phase = "directives", !.todo = @ \ {i}],
               [b EXCEPT !.phase = "directives", !.todo = {}]}
    BY DEF Pass, GiveUp
  <1>3. "directives" \in Phases /\ {} \in SUBSET Nat
    BY DEF Phases
  <1>4. e \in Call
    <2>1. b.todo \ {i} \in SUBSET Nat
      BY <1>1 DEF Call
    <2>2. PICK todo \in SUBSET Nat : e = [b EXCEPT !.phase = "directives", !.todo = todo]
      BY <1>2, <1>3, <2>1
    <2>3. QED
      BY <1>1, <1>3, <2>2 DEF Call
  <1>5. /\ e.uri = c.uri /\ e.reading = c.reading /\ e.place = c.place /\ e.phase = "directives"
        /\ e.todo \subseteq c.todo /\ e.coming = {} /\ e.constituent = c.constituent
        /\ e.primary = c.primary /\ e.pool = c.pool
    <2>1. /\ b.uri = c.uri /\ b.reading = c.reading /\ b.place = c.place /\ b.todo = c.todo
          /\ b.coming = {} /\ b.constituent = c.constituent /\ b.primary = c.primary /\ b.pool = c.pool
      BY <1>1 DEF Call
    <2>2. PICK todo \in {b.todo \ {i}, {}} : e = [b EXCEPT !.phase = "directives", !.todo = todo]
      BY <1>2
    <2>3. /\ e.uri = b.uri /\ e.reading = b.reading /\ e.place = b.place /\ e.phase = "directives"
          /\ e.todo = todo /\ e.coming = b.coming /\ e.constituent = b.constituent
          /\ e.primary = b.primary /\ e.pool = b.pool
      BY <1>1, <2>2 DEF Call
    <2>4. QED
      BY <2>1, <2>2, <2>3
  <1>6. CallOK(e)
    BY <1>4, <1>5, SameFrame
  <1>7. QED
    BY <1>4, <1>5, <1>6 DEF Follows, Works

\* A directive that is done lets go of the frame or the definitions it brought.
LEMMA Lightened ==
    ASSUME NEW c \in Call, CallOK(c), c.phase # "frames",
           NEW b, \/ b = [c EXCEPT !.merging = <<>>] /\ c.coming = {}
                  \/ b = [c EXCEPT !.constituent = <<>>] /\ c.coming = {}
                  \/ b = [c EXCEPT !.coming = {}, !.constituent = <<>>]
    PROVE  /\ b \in Call /\ CallOK(b) /\ b.phase = c.phase /\ b.coming = {}
           /\ \A e : Follows(b, e) => Follows(c, e)
  <1>1. /\ <<>> \in Seq(Item) /\ <<>> \in Seq([tag : Tags, value : Values]) /\ {} \in SUBSET Nat
    OBVIOUS
  <1>2. b \in Call
    <2>1. CASE b = [c EXCEPT !.merging = <<>>]
      BY <1>1, <2>1 DEF Call
    <2>2. CASE b = [c EXCEPT !.constituent = <<>>]
      BY <1>1, <2>2 DEF Call
    <2>3. CASE b = [c EXCEPT !.coming = {}, !.constituent = <<>>]
      BY <1>1, <2>3 DEF Call
    <2>4. QED
      BY <2>1, <2>2, <2>3
  <1>3. /\ b.uri = c.uri /\ b.reading = c.reading /\ b.place = c.place /\ b.phase = c.phase
        /\ b.todo = c.todo /\ b.coming = {} /\ b.constituent \in {c.constituent, <<>>}
        /\ b.primary = c.primary /\ b.pool = c.pool
    BY DEF Call
  <1>4. CallOK(b)
    BY <1>2, <1>3, SameFrame
  <1>5. \A e : Follows(b, e) => Follows(c, e)
    BY <1>3 DEF Follows, Works
  <1>6. QED
    BY <1>2, <1>3, <1>4, <1>5

-----------------------------------------------------------------------------
(***************************************************************************)
(* Data and sequences of definitions.                                      *)
(***************************************************************************)
LEMMA OwnDataTyped ==
    ASSUME NEW f \in Frame
    PROVE  OwnData(f) \in Data
  <1> DEFINE S == {f.tags[k].tag : k \in DOMAIN f.tags}
             at(t) == CHOOSE k \in DOMAIN f.tags : f.tags[k].tag = t
  <1>1. \A k \in DOMAIN f.tags : f.tags[k].tag \in Tags /\ f.tags[k].value \in Values
    <2> DEFINE Says == [tag : Tags, value : Values]
               tags == f.tags
    <2>1. tags \in Seq(Says)
      BY DEF Frame
    <2>2. ASSUME NEW k \in DOMAIN tags PROVE tags[k] \in Says
      <3> HIDE DEF tags, Says
      <3>1. QED
        BY <2>1
    <2>3. QED
      BY <2>2
  <1>2. S \in SUBSET Tags
    BY <1>1
  <1>3. ASSUME NEW t \in S PROVE at(t) \in DOMAIN f.tags
    <2>1. \E k \in DOMAIN f.tags : f.tags[k].tag = t
      OBVIOUS
    <2>2. QED
      BY <2>1
  <1> HIDE DEF at
  <1>4. [t \in S |-> f.tags[at(t)].value] \in [S -> Values]
    BY <1>1, <1>3
  <1>5. OwnData(f) = [t \in S |-> f.tags[at(t)].value]
    BY DEF OwnData, at
  <1>6. QED
    BY <1>2, <1>4, <1>5 DEF Data

\* Data with tags put in or taken out.
LEMMA DataTyped ==
    ASSUME NEW data \in Data
    PROVE  /\ \A ts : Without(data, ts) \in Data
           /\ \A tag \in Tags, v \in Values : With(data, tag, v) \in Data
  <1>1. PICK S \in SUBSET Tags : data \in [S -> Values]
    BY DEF Data
  <1>2. ASSUME NEW ts PROVE Without(data, ts) \in Data
    <2>1. Without(data, ts) \in [S \ ts -> Values]
      BY <1>1 DEF Without
    <2>2. S \ ts \in SUBSET Tags
      OBVIOUS
    <2>3. QED
      BY <2>1, <2>2 DEF Data
  <1>3. ASSUME NEW tag \in Tags, NEW v \in Values PROVE With(data, tag, v) \in Data
    <2>1. With(data, tag, v) \in [S \cup {tag} -> Values]
      BY <1>1 DEF With
    <2>2. S \cup {tag} \in SUBSET Tags
      OBVIOUS
    <2>3. QED
      BY <2>1, <2>2 DEF Data
  <1>4. QED
    BY <1>2, <1>3

\* A definition that is put among others: the definitions are those there were and it.
LEMMA PutTyped ==
    ASSUME NEW items \in Seq(Item), NEW item \in Item
    PROVE  /\ Put(items, item) \in Seq(Item)
           /\ \A k \in DOMAIN Put(items, item) :
                  Put(items, item)[k] = item \/ (k \in DOMAIN items /\ Put(items, item)[k] = items[k])
  <1>1. CASE Holds(items, item.id)
    <2>1. Put(items, item) = [k \in DOMAIN items |-> IF items[k].id = item.id THEN item ELSE items[k]]
      BY <1>1 DEF Put
    <2>2. QED
      BY <2>1
  <1>2. CASE ~Holds(items, item.id)
    <2>1. Put(items, item) = Append(items, item)
      BY <1>2 DEF Put
    <2>2. QED
      BY <2>1
  <1>3. QED
    BY <1>1, <1>2

-----------------------------------------------------------------------------
(***************************************************************************)
(* The innermost call, step by step.                                       *)
(***************************************************************************)
LEMMA TopTyped ==
    ASSUME TypeOK, stack # <<>>
    PROVE  /\ Len(stack) \in DOMAIN stack /\ Top \in Call /\ CallOK(Top)
           /\ Top.phase # "waiting" /\ Top = stack[Len(stack)]
  <1>1. Len(stack) \in DOMAIN stack
    BY DEF TypeOK
  <1>2. QED
    BY SMTT(30), <1>1 DEF TypeOK, CallsOK, Top

\* A frame begins.
LEMMA BeginFrameFollows ==
    ASSUME TypeOK, BeginFrame
    PROVE  \E e : Follows(Top, e) /\ Becomes(e)
  <1> DEFINE text == Text(Top.uri, Top.reading)
             f == text.frames[Top.place + 1]
             todo == IF Skipped(f) THEN {} ELSE DOMAIN f.imports
             e == [Top EXCEPT !.place = @ + 1, !.phase = "directives", !.data = OwnData(f), !.todo = todo]
  <1>1. stack # <<>> /\ Top.place < Len(text.frames) /\ Becomes(e) /\ Top.phase = "frames"
    BY DEF BeginFrame, In
  <1>2. Top \in Call /\ CallOK(Top)
    BY <1>1, TopTyped
  <1>3. text \in File
    BY <1>2, FilesTyped DEF CallOK, Call, TypeOK
  <1>4. Top.place \in Nat /\ Top.place + 1 \in DOMAIN text.frames
    BY <1>1, <1>2, <1>3 DEF Call, File
  <1>5. f \in Frame
    BY <1>3, <1>4 DEF File
  <1>6. OwnData(f) \in Data /\ todo \in SUBSET Nat /\ todo \subseteq DOMAIN f.imports
    <2>1. OwnData(f) \in Data
      BY <1>5, OwnDataTyped
    <2>2. f.imports \in Seq(Directive)
      BY <1>5 DEF Frame
    <2>3. DOMAIN f.imports \in SUBSET Nat
      BY <2>2
    <2>4. QED
      BY <2>1, <2>3
  <1>7. "directives" \in Phases /\ Top.place + 1 \in Nat
    BY <1>4 DEF Phases
  <1>8. Becomes(e)
    BY <1>1
  <1> HIDE DEF todo
  <1>9. e \in Call
    BY <1>2, <1>6, <1>7 DEF Call
  <1>10. /\ e.uri = Top.uri /\ e.reading = Top.reading /\ e.place = Top.place + 1 /\ e.phase = "directives"
         /\ e.todo = todo /\ e.coming = Top.coming /\ e.constituent = Top.constituent
         /\ e.primary = Top.primary /\ e.pool = Top.pool
    BY <1>2 DEF Call
  <1> HIDE DEF e
  <1>11. FrameOf(e) = f
    BY <1>10 DEF FrameOf
  <1>12. CallOK(e)
    <2>1. e.place \in 0..Len(Text(e.uri, e.reading).frames)
      BY <1>1, <1>3, <1>4, <1>10 DEF File
    <2>2. e.place # 0 /\ e.todo \subseteq DOMAIN FrameOf(e).imports
      BY <1>4, <1>6, <1>10, <1>11
    <2>3. e.coming = {}
      BY <1>1, <1>2, <1>10 DEF CallOK
    <2>4. QED
      BY <1>2, <1>10, <2>1, <2>2, <2>3 DEF CallOK
  <1>13. Follows(Top, e)
    BY <1>9, <1>10, <1>12 DEF Follows, Works
  <1>14. QED
    BY <1>8, <1>13

\* The directive at work, and that its frame goes on or is left.
LEMMA AtDirective ==
    ASSUME TypeOK, stack # <<>>, Top.phase = "directives", NEW i, IsNext(Top, i)
    PROVE  /\ Top \in Call /\ CallOK(Top) /\ FrameOf(Top).imports[i] \in Directive
           /\ \A kinds \in SUBSET Kinds :
                  Follows(Top, Pass(Warn(Top, kinds), i)) /\ Follows(Top, GiveUp(Warn(Top, kinds)))
           /\ \A kind \in Kinds : Follows(Top, Missed(Top, i, kind))
  <1>1. Top \in Call /\ CallOK(Top) /\ i \in Top.todo /\ Top.coming = {}
    BY TopTyped DEF IsNext, CallOK
  <1>2. FrameOf(Top).imports[i] \in Directive
    BY <1>1, DirectiveTyped DEF TypeOK
  <1>3. ASSUME NEW kinds \in SUBSET Kinds
        PROVE  Follows(Top, Pass(Warn(Top, kinds), i)) /\ Follows(Top, GiveUp(Warn(Top, kinds)))
    BY <1>1, PassFollows
  <1>4. ASSUME NEW kind \in Kinds PROVE Follows(Top, Missed(Top, i, kind))
    <2>1. {kind} \in SUBSET Kinds /\ {kind, "aborted"} \in SUBSET Kinds
      BY DEF Kinds
    <2>2. QED
      BY <1>3, <2>1 DEF Missed
  <1>5. QED
    BY <1>1, <1>2, <1>3, <1>4

\* Steps that pass by a directive, leave its frame, or are done with it.
LEMMA SkipFollows ==
    ASSUME TypeOK, NEW i, SkipDirective(i) \/ MissTarget(i)
    PROVE  \E e : Follows(Top, e) /\ Becomes(e)
  <1>1. stack # <<>> /\ IsNext(Top, i) /\ Top.phase = "directives"
    BY DEF SkipDirective, MissTarget, In
  <1>2. {"unusable"} \in SUBSET Kinds /\ "missing" \in Kinds
    BY DEF Kinds
  <1>3. CASE SkipDirective(i)
    BY <1>1, <1>2, <1>3, AtDirective DEF SkipDirective
  <1>4. CASE MissTarget(i)
    BY <1>1, <1>2, <1>4, AtDirective DEF MissTarget
  <1>5. QED
    BY <1>3, <1>4

\* A directive ends.
LEMMA FinishFollows ==
    ASSUME TypeOK, NEW i, FinishDirective(i)
    PROVE  \E e : Follows(Top, e) /\ Becomes(e)
  <1> DEFINE b == [Top EXCEPT !.constituent = <<>>]
  <1>1. stack # <<>> /\ Top.phase # "frames" /\ Becomes(Pass(b, i))
    BY DEF FinishDirective, In
  <1>2. Top \in Call /\ CallOK(Top)
    BY <1>1, TopTyped
  <1>3. Top.coming = {}
    BY <1>2 DEF FinishDirective, In, CallOK
  <1>4. /\ b \in Call /\ CallOK(b) /\ b.phase = Top.phase /\ b.coming = {}
        /\ \A e : Follows(b, e) => Follows(Top, e)
    BY <1>1, <1>2, <1>3, Lightened
  <1> HIDE DEF b
  <1>5. Follows(b, Pass(b, i))
    BY <1>1, <1>4, PassFollows
  <1>6. QED
    BY <1>1, <1>4, <1>5

\* Steps of a directive that has found its frame.
LEMMA FoundFollows ==
    ASSUME TypeOK, NEW i, NEW k,
           BlockConstituent(i, k) \/ RefuseConstituent(i, k) \/ TakeFrame(i, k)
    PROVE  \E e : Follows(Top, e) /\ Becomes(e)
  <1>1. Target(i, k)
    BY DEF BlockConstituent, RefuseConstituent, TakeFrame
  <1>2. stack # <<>> /\ IsNext(Top, i) /\ Top.phase = "directives"
    BY <1>1 DEF Target, In
  <1>3. {"blocked"} \in SUBSET Kinds /\ "missing" \in Kinds /\ "circular" \in Kinds
    BY DEF Kinds
  <1>4. CASE BlockConstituent(i, k)
    BY <1>2, <1>3, <1>4, AtDirective DEF BlockConstituent
  <1>5. CASE RefuseConstituent(i, k)
    <2> DEFINE u == FrameOf(Top).imports[i].file
               kind == IF u \in loading THEN "circular" ELSE "missing"
    <2>1. Becomes(Missed(Top, i, kind))
      BY <1>5 DEF RefuseConstituent
    <2>2. kind \in Kinds
      BY <1>3
    <2> HIDE DEF kind
    <2>3. QED
      BY <1>2, <2>1, <2>2, AtDirective
  <1>6. CASE TakeFrame(i, k)
    <2> DEFINE tags == TargetFrame(i, k).tags
               e == [Top EXCEPT !.phase = "tags", !.merging = tags]
    <2>1. Becomes(e)
      BY <1>6 DEF TakeFrame
    <2>2. Top \in Call /\ CallOK(Top) /\ TargetFrame(i, k) \in Frame
      BY <1>1, TargetTyped
    <2>3. tags \in Seq([tag : Tags, value : Values]) /\ "tags" \in Phases
      BY <2>2 DEF Frame, Phases
    <2>4. Top.coming = {}
      BY <1>2, <2>2 DEF CallOK
    <2> HIDE DEF tags
    <2>5. e \in Call
      BY <2>2, <2>3 DEF Call
    <2>6. /\ e.uri = Top.uri /\ e.reading = Top.reading /\ e.place = Top.place /\ e.phase = "tags"
          /\ e.todo = Top.todo /\ e.coming = {} /\ e.constituent = Top.constituent
          /\ e.primary = Top.primary /\ e.pool = Top.pool
      BY <2>2, <2>4 DEF Call
    <2> HIDE DEF e
    <2>7. CallOK(e)
      BY <1>2, <2>2, <2>5, <2>6, SameFrame
    <2>8. QED
      BY <2>1, <2>5, <2>6, <2>7 DEF Follows, Works
  <1>7. QED
    BY <1>4, <1>5, <1>6

\* A tag is merged or ends the directive.
LEMMA MergeTagFollows ==
    ASSUME TypeOK, NEW i, MergeTag(i)
    PROVE  \E e : Follows(Top, e) /\ Becomes(e)
  <1> DEFINE d == FrameOf(Top).imports[i]
             m == Head(Top.merging)
             file == Text(d.file, parseCache[d.file])
             data == IF d.dupl = "Replace" /\ m.tag \in DOMAIN Top.data
                     THEN Without(Top.data, LoopMates(file, m.tag)) ELSE Top.data
             left == IF m.tag \in DOMAIN Top.data /\ d.dupl = "Ignore" THEN Top.data
                     ELSE With(data, m.tag, m.value)
             stop == m.tag \in DOMAIN Top.data /\ d.dupl = "Exit"
             b == [Top EXCEPT !.merging = <<>>]
             e == [Top EXCEPT !.merging = Tail(@), !.data = left]
  <1>1. stack # <<>> /\ Top.phase = "tags" /\ Top.merging # <<>> /\ IsNext(Top, i)
    BY DEF MergeTag, In
  <1>2. Top \in Call /\ CallOK(Top)
    BY <1>1, TopTyped
  <1>3. Top.coming = {}
    BY <1>1, <1>2 DEF CallOK
  <1>4. CASE stop
    <2>1. Becomes(GiveUp(Warn(b, {"conflict"})))
      BY <1>4 DEF MergeTag
    <2>2. /\ b \in Call /\ CallOK(b) /\ b.phase = Top.phase /\ b.coming = {}
          /\ \A x : Follows(b, x) => Follows(Top, x)
      BY <1>1, <1>2, <1>3, Lightened
    <2> HIDE DEF b
    <2>3. {"conflict"} \in SUBSET Kinds
      BY DEF Kinds
    <2>4. Follows(b, GiveUp(Warn(b, {"conflict"})))
      BY <1>1, <2>2, <2>3, PassFollows
    <2>5. QED
      BY <2>1, <2>2, <2>4
  <1>5. CASE ~stop
    <2>1. Becomes(e)
      BY <1>5, Zenon DEF MergeTag
    <2>2. /\ Top.merging \in Seq([tag : Tags, value : Values]) /\ Top.data \in Data
      BY <1>2 DEF Call
    <2>3. m \in [tag : Tags, value : Values] /\ Tail(Top.merging) \in Seq([tag : Tags, value : Values])
      <3> DEFINE Says == [tag : Tags, value : Values]
                 merging == Top.merging
      <3>1. merging \in Seq(Says) /\ merging # <<>>
        BY <1>1, <2>2
      <3>2. Head(merging) \in Says /\ Tail(merging) \in Seq(Says)
        <4> HIDE DEF merging, Says
        <4>1. QED
          BY <3>1
      <3>3. QED
        BY <3>2
    <2>4. data \in Data
      BY <2>2, DataTyped
    <2>5. left \in Data
      <3> HIDE DEF data, m
      <3>1. m.tag \in Tags /\ m.value \in Values
        BY <2>3
      <3>2. QED
        BY <2>2, <2>4, <3>1, DataTyped
    <2> HIDE DEF left
    <2>6. e \in Call
      BY <1>2, <2>3, <2>5 DEF Call
    <2>7. /\ e.uri = Top.uri /\ e.reading = Top.reading /\ e.place = Top.place /\ e.phase = Top.phase
          /\ e.todo = Top.todo /\ e.coming = {} /\ e.constituent = Top.constituent
          /\ e.primary = Top.primary /\ e.pool = Top.pool
      BY <1>2, <1>3 DEF Call
    <2> HIDE DEF e
    <2>8. CallOK(e)
      BY <1>1, <1>2, <2>6, <2>7, SameFrame
    <2>9. QED
      BY <1>1, <2>1, <2>6, <2>7, <2>8 DEF Follows, Works
  <1>6. QED
    BY <1>4, <1>5

-----------------------------------------------------------------------------
(***************************************************************************)
(* The steps that move definitions.                                        *)
(***************************************************************************)
\* A constituent's definitions: one of them joins the pool, or the rest are left.
LEMMA MergeItemWorks ==
    ASSUME TypeOK, NEW i, NEW n \in Top.coming, MergeItem(i, n)
    PROVE  \E e : /\ Works(Top, e) /\ Becomes(e) /\ e.primary = Top.primary
                  /\ e.constituent \in {Top.constituent, <<>>}
                  /\ \A k \in DOMAIN e.pool :
                         \/ n \in DOMAIN Top.constituent /\ e.pool[k] = Top.constituent[n]
                         \/ k \in DOMAIN Top.pool /\ e.pool[k] = Top.pool[k]
  <1> DEFINE item == Top.constituent[n]
             dupl == FrameOf(Top).imports[i].dupl
             stop == Holds(Top.pool, item.id) /\ dupl = "Exit"
             b == [Top EXCEPT !.coming = {}, !.constituent = <<>>]
             pool == IF Holds(Top.pool, item.id) /\ dupl = "Ignore" THEN Top.pool ELSE Put(Top.pool, item)
             e == [Top EXCEPT !.coming = @ \ {n}, !.pool = pool]
  <1>1. stack # <<>> /\ Top.phase = "items"
    BY DEF MergeItem, In
  <1>2. Top \in Call /\ CallOK(Top)
    BY <1>1, TopTyped
  <1>3. CASE stop
    <2>1. Becomes(GiveUp(Warn(b, {"conflict"})))
      BY <1>3 DEF MergeItem
    <2>2. /\ b \in Call /\ CallOK(b) /\ b.phase = Top.phase /\ b.coming = {}
          /\ \A x : Follows(b, x) => Follows(Top, x)
      BY <1>1, <1>2, Lightened
    <2> HIDE DEF b
    <2>3. {"conflict"} \in SUBSET Kinds
      BY DEF Kinds
    <2>4. Follows(Top, GiveUp(Warn(b, {"conflict"})))
      BY <1>1, <2>2, <2>3, PassFollows
    <2>5. QED
      BY <2>1, <2>4 DEF Follows
  <1>4. CASE ~stop
    <2>1. Becomes(e)
      BY <1>4 DEF MergeItem
    <2>2. n \in DOMAIN Top.constituent /\ Top.constituent \in Seq(Item) /\ Top.pool \in Seq(Item)
      BY <1>2 DEF CallOK, Call
    <2>3. item \in Item
      BY <2>2
    <2>4. /\ pool \in Seq(Item)
          /\ \A k \in DOMAIN pool : pool[k] = item \/ (k \in DOMAIN Top.pool /\ pool[k] = Top.pool[k])
      BY <2>2, <2>3, PutTyped
    <2> HIDE DEF pool
    <2>5. Top.coming \ {n} \in SUBSET Nat
      BY <1>2 DEF Call
    <2>6. e \in Call
      BY <1>2, <2>4, <2>5 DEF Call
    <2>7. /\ e.uri = Top.uri /\ e.reading = Top.reading /\ e.place = Top.place /\ e.phase = Top.phase
          /\ e.todo = Top.todo /\ e.coming \subseteq Top.coming /\ e.constituent = Top.constituent
          /\ e.primary = Top.primary /\ e.pool = pool
      BY <1>2 DEF Call
    <2> HIDE DEF e
    <2>8. e.coming # {} => e.phase = "items" /\ e.coming \subseteq DOMAIN e.constituent
      BY <1>1, <1>2, <2>7 DEF CallOK
    <2>9. CallOK(e)
      BY <1>1, <1>2, <2>6, <2>7, <2>8, SameFrame
    <2>10. Works(Top, e)
      BY <1>1, <2>6, <2>7, <2>9 DEF Works
    <2>11. QED
      BY <2>1, <2>2, <2>4, <2>7, <2>10
  <1>5. QED
    BY <1>3, <1>4

\* The end of a frame: what it defines is kept, as read in this call.
LEMMA EndFrameWorks ==
    ASSUME TypeOK, EndFrame
    PROVE  \E e : /\ Works(Top, e) /\ Becomes(e) /\ e.pool = Top.pool /\ e.constituent = Top.constituent
                  /\ \A k \in DOMAIN e.primary :
                         \/ e.primary[k].from = Top.uri /\ e.primary[k].reading = Top.reading
                         \/ k \in DOMAIN Top.primary /\ e.primary[k] = Top.primary[k]
  <1> DEFINE f == FrameOf(Top)
             o == [Top EXCEPT !.phase = "frames"]
             w == Warn(o, Unextracted(f))
             item == ItemOf(Top, f)
             primary == IF Extracted(f) THEN Append(Top.primary, item) ELSE Top.primary
             e == [w EXCEPT !.primary = primary]
  <1>1. stack # <<>> /\ Top.phase = "directives"
    BY DEF EndFrame, In
  <1>2. Top \in Call /\ CallOK(Top) /\ Top.coming = {} /\ Top.place # 0
    BY <1>1, TopTyped DEF CallOK
  <1>3. f \in Frame
    BY <1>2, FrameTyped DEF TypeOK
  <1>4. Unextracted(f) \in SUBSET Kinds /\ "frames" \in Phases
    BY DEF Unextracted, Kinds, Phases
  <1>5. o \in Call
    BY <1>2, <1>4 DEF Call
  <1>6. w \in Call /\ w = [o EXCEPT !.warnings = w.warnings]
    BY <1>4, <1>5, WarnTyped
  <1>7. w.primary = Top.primary
    BY <1>2, <1>6 DEF Call
  <1>8. Becomes(e)
    <2>1. w = [w EXCEPT !.primary = w.primary]
      BY <1>6 DEF Call
    <2>2. Becomes(IF Extracted(f) THEN [w EXCEPT !.primary = Append(@, item)] ELSE w)
      BY DEF EndFrame
    <2> HIDE DEF w
    <2>3. QED
      BY <1>7, <2>1, <2>2
  <1>9. ASSUME Extracted(f)
        PROVE  item \in Item
    <2>1. f.id \in Names /\ f.scope \in {"Item", "Category"} /\ f.category \in Names \cup {Nothing}
      BY <1>3, <1>9 DEF Extracted, Unextracted, Frame
    <2>2. Top.data \in Data /\ Top.base \in Uris \cup {Nothing} /\ Top.uri \in Uris /\ Top.reading \in Nat
      BY <1>2 DEF Call
    <2>3. QED
      BY <2>1, <2>2 DEF ItemOf, Item
  <1>10. Top.primary \in Seq(Item)
    BY <1>2 DEF Call
  <1>11. /\ primary \in Seq(Item)
         /\ \A k \in DOMAIN primary :
                primary[k] = item \/ (k \in DOMAIN Top.primary /\ primary[k] = Top.primary[k])
    <2> HIDE DEF item
    <2>1. QED
      BY <1>9, <1>10
  <1>12. item.from = Top.uri /\ item.reading = Top.reading
    BY DEF ItemOf
  <1> HIDE DEF w, primary, item
  <1>13. e \in Call
    BY <1>6, <1>11 DEF Call
  <1>14. /\ e.uri = Top.uri /\ e.reading = Top.reading /\ e.place = Top.place /\ e.phase = "frames"
         /\ e.coming = {} /\ e.constituent = Top.constituent
         /\ e.primary = primary /\ e.pool = Top.pool
    BY <1>2, <1>6 DEF Call
  <1> HIDE DEF e
  <1>15. CallOK(e)
    BY <1>2, <1>13, <1>14, SameFrame
  <1>16. Works(Top, e)
    BY <1>13, <1>14, <1>15 DEF Works
  <1>17. QED
    BY <1>8, <1>11, <1>12, <1>14, <1>16

\* The file's own definitions go over the pool.
LEMMA OverlayWorks ==
    ASSUME TypeOK, Overlay
    PROVE  \E e : /\ Works(Top, e) /\ Becomes(e) /\ e.constituent = Top.constituent
                  /\ \A k \in DOMAIN e.primary : k + 1 \in DOMAIN Top.primary /\ e.primary[k] = Top.primary[k + 1]
                  /\ \A k \in DOMAIN e.pool :
                         \/ 1 \in DOMAIN Top.primary /\ e.pool[k] = Top.primary[1]
                         \/ k \in DOMAIN Top.pool /\ e.pool[k] = Top.pool[k]
  <1> DEFINE own == Top.primary
             pool == Put(Top.pool, Head(own))
             e == [Top EXCEPT !.primary = Tail(own), !.pool = pool]
  <1>1. stack # <<>> /\ Top.phase = "frames" /\ own # <<>> /\ Becomes(e)
    BY DEF Overlay, AllRead, In
  <1>2. Top \in Call /\ CallOK(Top) /\ Top.coming = {}
    BY <1>1, TopTyped DEF CallOK
  <1>3. own \in Seq(Item) /\ Top.pool \in Seq(Item)
    BY <1>2 DEF Call
  <1>4. /\ Head(own) \in Item /\ Tail(own) \in Seq(Item) /\ 1 \in DOMAIN own /\ Head(own) = own[1]
        /\ \A k \in DOMAIN Tail(own) : k + 1 \in DOMAIN own /\ Tail(own)[k] = own[k + 1]
    <2> HIDE DEF own
    <2>1. QED
      BY <1>1, <1>3
  <1>5. /\ pool \in Seq(Item)
        /\ \A k \in DOMAIN pool :
               pool[k] = Head(own) \/ (k \in DOMAIN Top.pool /\ pool[k] = Top.pool[k])
    BY <1>3, <1>4, PutTyped
  <1>6. Becomes(e)
    BY <1>1
  <1> DEFINE rest == Tail(own)
  <1> HIDE DEF pool, rest
  <1>7. e = [Top EXCEPT !.primary = rest, !.pool = pool]
    BY DEF rest
  <1> HIDE DEF e
  <1>8. rest \in Seq(Item)
    BY <1>4 DEF rest
  <1>9. e \in Call
    BY <1>2, <1>5, <1>7, <1>8 DEF Call
  <1>10. /\ e.uri = Top.uri /\ e.reading = Top.reading /\ e.place = Top.place /\ e.phase = "frames"
         /\ e.coming = {} /\ e.constituent = Top.constituent
         /\ e.primary = rest /\ e.pool = pool
    BY <1>1, <1>2, <1>7 DEF Call
  <1>11. CallOK(e)
    BY <1>2, <1>9, <1>10, SameFrame
  <1>12. Works(Top, e)
    BY <1>9, <1>10, <1>11 DEF Works
  <1>13. /\ \A k \in DOMAIN rest : k + 1 \in DOMAIN own /\ rest[k] = own[k + 1]
         /\ \A k \in DOMAIN pool :
                \/ 1 \in DOMAIN own /\ pool[k] = own[1]
                \/ k \in DOMAIN Top.pool /\ pool[k] = Top.pool[k]
    BY <1>4, <1>5 DEF rest
  <1>14. QED
    BY <1>6, <1>10, <1>12, <1>13, ZenonT(30)

-----------------------------------------------------------------------------
(***************************************************************************)
(* The invariant: what is in a text's cache stays, the calls above the     *)
(* root's read the cached texts, and so every definition that is not from  *)
(* the root's own text was read in the cached text of its file.            *)
(***************************************************************************)
CachesAgree == \A u \in Uris : sourceCache[u] = parseCache[u]
ReadingsAgree == \A n \in 2..Len(stack) : stack[n].reading = sourceCache[stack[n].uri]

\* `cache` is the cache of the texts, before or after a step.
Sourced(item, root, cache) ==
    item.from = root \/ (cache[item.from] # 0 /\ item.reading = cache[item.from])
AllSourced(items, root, cache) == \A k \in DOMAIN items : Sourced(items[k], root, cache)
CallSourced(c, root, cache) ==
    /\ AllSourced(c.pool, root, cache) /\ AllSourced(c.primary, root, cache)
    /\ AllSourced(c.constituent, root, cache)
CallsSourced == \A n \in DOMAIN stack : CallSourced(stack[n], stack[1].uri, sourceCache)
ResultSourced == result # Nothing => AllSourced(result.items, result.uri, sourceCache)

IInv == TypeOK /\ CachesAgree /\ ReadingsAgree /\ CallsSourced /\ ResultSourced

\* What a step may do to the caches.
Kept ==
    /\ sourceCache' \in [Uris -> Nat] /\ \A u \in Uris : sourceCache'[u] \in 0..Len(Files[u])
    /\ parseCache' \in [Uris -> Nat] /\ \A u \in Uris : parseCache'[u] \in 0..Len(Files[u])
    /\ CachesAgree'
    /\ \A u \in Uris : sourceCache[u] # 0 => sourceCache'[u] = sourceCache[u]

\* Reading fills both caches alike.
LEMMA KeepsCaches ==
    ASSUME IInv,
           NothingRead \/ \E u \in Uris : Remember(u)
    PROVE  Kept
  <1>1. CASE NothingRead
    BY <1>1 DEF NothingRead, Kept, IInv, TypeOK, CachesAgree
  <1>2. ASSUME NEW u \in Uris, Remember(u)
        PROVE  Kept
    <2>1. /\ Source(u) \in 0..Len(Files[u]) /\ Parsed(u) \in 0..Len(Files[u])
          /\ parseCache[u] = 0 => Parsed(u) = Source(u)
          /\ sourceCache[u] # 0 => Source(u) = sourceCache[u] /\ Parsed(u) = parseCache[u]
      BY DEF IInv, TypeOK, CachesAgree, Source, Parsed
    <2>2. Files \in [Uris -> Seq(File)]
      BY FilesTyped DEF IInv, TypeOK
    <2>3. Source(u) \in Nat /\ Parsed(u) \in Nat
      BY <2>1, <2>2
    <2>4. /\ parseCache' = [parseCache EXCEPT ![u] = Parsed(u)]
          /\ sourceCache' = [sourceCache EXCEPT ![u] = IF parseCache[u] # 0 THEN sourceCache[u] ELSE Source(u)]
      BY <1>2 DEF Remember
    <2>5. QED
      BY <2>1, <2>3, <2>4 DEF Kept, IInv, TypeOK, CachesAgree, Parsed
  <1>3. QED
    BY <1>1, <1>2

\* Definitions stay in the texts they were read in.
LEMMA StaysSourced ==
    ASSUME Kept, NEW items \in Seq(Item), NEW root, AllSourced(items, root, sourceCache)
    PROVE  AllSourced(items, root, sourceCache')
  <1>1. ASSUME NEW k \in DOMAIN items PROVE Sourced(items[k], root, sourceCache')
    <2>1. items[k] \in Item /\ Sourced(items[k], root, sourceCache)
      BY DEF AllSourced
    <2>2. items[k].from \in Uris
      BY <2>1 DEF Item
    <2>3. QED
      BY <2>1, <2>2 DEF Kept, Sourced
  <1>2. QED
    BY <1>1 DEF AllSourced

\* And so do those a call has.
LEMMA CallStaysSourced ==
    ASSUME Kept, NEW c \in Call, NEW root, CallSourced(c, root, sourceCache)
    PROVE  CallSourced(c, root, sourceCache')
  <1>1. c.pool \in Seq(Item) /\ c.primary \in Seq(Item) /\ c.constituent \in Seq(Item)
    BY DEF Call
  <1>2. QED
    BY <1>1, StaysSourced DEF CallSourced

\* Types and sources are kept where the innermost call becomes another.
LEMMA BecomesKeeps ==
    ASSUME IInv, stack # <<>>, NEW e, Works(Top, e), Becomes(e),
           CallSourced(e, stack[1].uri, sourceCache),
           NoCallBegins, Kept
    PROVE  IInv'
  <1> DEFINE last == Len(stack)
  <1>1. stack \in Seq(Call) /\ last \in DOMAIN stack /\ Top = stack[last]
    BY TopTyped DEF IInv, TypeOK
  <1>2. /\ stack' \in Seq(Call) /\ Len(stack') = last /\ DOMAIN stack' = DOMAIN stack
        /\ stack'[last] = e /\ \A n \in DOMAIN stack : n # last => stack'[n] = stack[n]
    BY <1>1 DEF Becomes, Works
  <1>3. \A n \in DOMAIN stack : stack'[n].uri = stack[n].uri /\ stack'[n].reading = stack[n].reading
    BY <1>1, <1>2 DEF Works
  <1>4. UNCHANGED <<library, version, changes, settings, loading, collected, loads, result>>
    BY SMTT(30) DEF NoCallBegins, files
  <1>5. CallsOK'
    <2>1. ASSUME NEW n \in DOMAIN stack
          PROVE  CallOK(stack'[n]) /\ (stack'[n].phase = "waiting" <=> n # last)
      BY <1>1, <1>2 DEF IInv, TypeOK, CallsOK, Works
    <2>2. QED
      BY <1>2, <1>4, <2>1 DEF CallsOK, CallOK, FrameOf, Text, Files
  <1>6. LoadingIsTheStack'
    <2>1. \A n \in 2..last : stack'[n].uri = stack[n].uri
      BY <1>1, <1>3
    <2>2. loading' = {stack'[n].uri : n \in 2..Len(stack')}
      <3>1. loading' = {stack[n].uri : n \in 2..last}
        BY <1>4 DEF IInv, TypeOK, LoadingIsTheStack
      <3>2. {stack[n].uri : n \in 2..last} = {stack'[n].uri : n \in 2..last}
        BY <2>1, Zenon
      <3>3. QED
        BY <1>2, <3>1, <3>2, Zenon
    <2>3. QED
      BY <1>2, <2>1, <2>2 DEF IInv, TypeOK, LoadingIsTheStack
  <1>7. TypeOK'
    BY <1>2, <1>4, <1>5, <1>6 DEF IInv, TypeOK, Kept, Files
  <1>8. ReadingsAgree'
    <2>1. ASSUME NEW n \in 2..last PROVE stack'[n].reading = sourceCache'[stack'[n].uri]
      <3>1. stack[n] \in Call /\ CallOK(stack[n]) /\ n \in DOMAIN stack
        BY <1>1 DEF IInv, TypeOK, CallsOK
      <3>2. stack[n].uri \in Uris
        BY <3>1 DEF Call
      <3>3. Files[stack[n].uri] \in Seq(File)
        BY <3>2, FilesTyped DEF IInv, TypeOK
      <3>4. stack[n].reading # 0
        BY <3>1, <3>3 DEF CallOK
      <3>5. QED
        BY <1>3, <3>1, <3>2, <3>4 DEF IInv, ReadingsAgree, Kept
    <2>2. QED
      BY <1>2, <2>1 DEF ReadingsAgree
  <1>9. CallsSourced'
    <2>1. stack'[1].uri = stack[1].uri
      BY <1>1, <1>3
    <2>2. ASSUME NEW n \in DOMAIN stack PROVE CallSourced(stack'[n], stack[1].uri, sourceCache')
      <3>1. stack'[n] \in Call
        BY <1>2
      <3>2. CallSourced(stack'[n], stack[1].uri, sourceCache)
        BY <1>2 DEF IInv, CallsSourced
      <3>3. QED
        BY <3>1, <3>2, CallStaysSourced
    <2>3. QED
      BY <1>2, <2>1, <2>2 DEF CallsSourced
  <1>10. ResultSourced'
    <2>1. ASSUME result # Nothing PROVE AllSourced(result.items, result.uri, sourceCache')
      <3>1. result.items \in Seq(Item)
        BY <2>1 DEF IInv, TypeOK, Dictionary
      <3>2. AllSourced(result.items, result.uri, sourceCache)
        BY <2>1 DEF IInv, ResultSourced
      <3>3. QED
        BY <3>1, <3>2, StaysSourced
    <2>2. QED
      BY <1>4, <2>1 DEF ResultSourced
  <1>11. QED
    BY <1>7, <1>8, <1>9, <1>10 DEF IInv, Kept

-----------------------------------------------------------------------------
(***************************************************************************)
(* Init and Next.                                                          *)
(***************************************************************************)
LEMMA InitInv ==
    ASSUME Init
    PROVE  IInv
  <1>1. Files \in [Uris -> Seq(File)]
    BY FilesTyped DEF Init
  <1>2. \A u \in Uris : version[u] \in 0..Len(Files[u])
    <2>1. ASSUME NEW u \in Uris PROVE version[u] \in 0..Len(Files[u])
      <3>1. Files[u] \in Seq(File) /\ version[u] = IF Files[u] = <<>> THEN 0 ELSE 1
        BY <1>1 DEF Init
      <3>2. QED
        BY <3>1
    <2>2. QED
      BY <2>1
  <1>3. /\ version \in [Uris -> Nat] /\ sourceCache = [u \in Uris |-> 0] /\ parseCache = [u \in Uris |-> 0]
        /\ library \in DOMAIN Libraries /\ settings \in Settings /\ changes \in Nat /\ loads \in Nat
        /\ stack = <<>> /\ loading = {} /\ collected = <<>> /\ result = Nothing
    BY DEF Init
  <1>4. \A u \in Uris : 0 \in 0..Len(Files[u])
    BY <1>1
  <1>5. LoadingIsTheStack /\ CallsOK
    BY <1>3 DEF LoadingIsTheStack, CallsOK
  <1>6. stack \in Seq(Call) /\ collected \in Seq(Uris)
    BY <1>3
  <1>7. TypeOK
    BY <1>2, <1>3, <1>4, <1>5, <1>6 DEF TypeOK
  <1>8. CachesAgree /\ ReadingsAgree /\ CallsSourced /\ ResultSourced
    BY <1>3 DEF CachesAgree, ReadingsAgree, CallsSourced, ResultSourced
  <1>9. QED
    BY <1>7, <1>8 DEF IInv

\* Files change and none of what is checked looks at the version they have.
LEMMA ChangeInv ==
    ASSUME IInv, NEW u \in Uris, Change(u)
    PROVE  IInv'
  <1>1. UNCHANGED <<library, settings, sourceCache, parseCache, stack, loading, collected, loads, result>>
    BY DEF Change
  <1>2. PICK v \in 0..Len(Files[u]) \ {version[u]} : version' = [version EXCEPT ![u] = v]
    BY DEF Change
  <1>3. Files[u] \in Seq(File)
    BY FilesTyped DEF IInv, TypeOK
  <1>4. v \in Nat /\ v \in 0..Len(Files[u])
    BY <1>3
  <1>5. changes' \in Nat
    BY DEF Change, IInv, TypeOK
  <1>6. version' \in [Uris -> Nat] /\ \A x \in Uris : version'[x] \in 0..Len(Files[x])
    BY SMTT(30), <1>2, <1>4 DEF IInv, TypeOK
  <1>7. CallsOK' /\ LoadingIsTheStack'
    <2>1. CallsOK'
      BY <1>1 DEF IInv, TypeOK, CallsOK, CallOK, FrameOf, Text, Files
    <2>2. LoadingIsTheStack'
      BY <1>1 DEF IInv, TypeOK, LoadingIsTheStack
    <2>3. QED
      BY <2>1, <2>2
  <1>8. TypeOK'
    BY <1>1, <1>5, <1>6, <1>7 DEF IInv, TypeOK, Files
  <1>9. CachesAgree' /\ ReadingsAgree' /\ CallsSourced' /\ ResultSourced'
    BY <1>1 DEF IInv, CachesAgree, ReadingsAgree, CallsSourced, ResultSourced
  <1>10. QED
    BY <1>8, <1>9 DEF IInv

\* A call as it begins.
LEMMA NewCallTyped ==
    ASSUME library \in DOMAIN Libraries,
           NEW u \in Uris, NEW base \in Uris \cup {Nothing}, NEW v \in DOMAIN Files[u]
    PROVE  /\ NewCall(u, base, v) \in Call /\ CallOK(NewCall(u, base, v))
           /\ NewCall(u, base, v).uri = u /\ NewCall(u, base, v).reading = v
           /\ NewCall(u, base, v).phase = "frames"
           /\ \A root, cache : CallSourced(NewCall(u, base, v), root, cache)
  <1> DEFINE warnings == IF Text(u, v).errors THEN {[kind |-> "parse", at |-> u]} ELSE {}
             c == NewCall(u, base, v)
  <1>1. Files[u] \in Seq(File) /\ Text(u, v).frames \in Seq(Frame)
    BY FilesTyped DEF File
  <1>2. v \in Nat
    BY <1>1
  <1>3. EmptyData \in Data
    <2>1. EmptyData \in [{} -> Values]
      BY DEF EmptyData
    <2>2. {} \in SUBSET Tags
      OBVIOUS
    <2>3. QED
      BY <2>1, <2>2 DEF Data
  <1>4. warnings \in SUBSET Warning
    BY DEF Warning, Kinds
  <1>5. "frames" \in Phases /\ {} \in SUBSET Nat /\ <<>> \in Seq(Item)
        /\ <<>> \in Seq([tag : Tags, value : Values])
    BY DEF Phases
  <1>6. c = [uri |-> u, base |-> base, reading |-> v, place |-> 0, phase |-> "frames", data |-> EmptyData,
             todo |-> {}, merging |-> <<>>, constituent |-> <<>>, coming |-> {}, pool |-> <<>>,
             primary |-> <<>>, warnings |-> warnings]
    BY DEF NewCall
  <1> HIDE DEF warnings, c
  <1>7. c \in Call
    BY <1>2, <1>3, <1>4, <1>5, <1>6 DEF Call
  <1>8. CallOK(c)
    BY <1>1, <1>6 DEF CallOK
  <1>9. \A root, cache : CallSourced(c, root, cache)
    BY <1>6 DEF CallSourced, AllSourced
  <1>10. c.uri = u /\ c.reading = v /\ c.phase = "frames"
    BY <1>6
  <1>11. QED
    BY <1>7, <1>8, <1>9, <1>10 DEF c

\* A load begins.
LEMMA LoadInv ==
    ASSUME IInv, NEW u \in Uris, Load(u)
    PROVE  IInv'
  <1> DEFINE file == Text(u, version[u])
             base == IF settings.baseGiven THEN u ELSE file.uri
             call == NewCall(u, base, version[u])
             w == Warn(call, {"no block"})
             failed == [uri |-> u, base |-> base, reading |-> version[u], items |-> <<>>,
                        warnings |-> w.warnings, sources |-> <<>>]
  <1>1. /\ UNCHANGED <<library, version, changes, settings, sourceCache, parseCache>>
        /\ stack = <<>> /\ version[u] # 0 /\ loads' = loads + 1 /\ loading' = {}
        /\ collected' = IF settings.baseGiven THEN <<u>> ELSE <<>>
    BY DEF Load, files
  <1>2. version[u] \in DOMAIN Files[u] /\ version[u] \in Nat
    <2>1. Files[u] \in Seq(File) /\ version[u] \in 0..Len(Files[u])
      BY FilesTyped DEF IInv, TypeOK
    <2>2. QED
      BY <1>1, <2>1
  <1>3. file \in File
    BY <1>2, FilesTyped DEF IInv, TypeOK
  <1>4. base \in Uris \cup {Nothing}
    BY <1>3 DEF File
  <1>5. /\ call \in Call /\ CallOK(call) /\ call.uri = u /\ call.phase = "frames"
        /\ \A root, cache : CallSourced(call, root, cache)
    <2> HIDE DEF base, file
    <2>1. library \in DOMAIN Libraries
      BY DEF IInv, TypeOK
    <2>2. QED
      BY <1>2, <1>4, <2>1, NewCallTyped, ZenonT(30)
  <1>6. collected' \in Seq(Uris)
    BY <1>1
  <1>7. loads' \in Nat /\ loading' \subseteq Uris
    BY <1>1 DEF IInv, TypeOK
  <1>8. CASE file.hasBlock
    <2>1. stack' = <<call>> /\ result' = Nothing
      BY <1>8 DEF Load
    <2> HIDE DEF call
    <2>2. stack' \in Seq(Call) /\ Len(stack') = 1 /\ DOMAIN stack' = {1} /\ stack'[1] = call
      BY <1>5, <2>1
    <2>3. LoadingIsTheStack'
      BY <1>1, <2>2 DEF LoadingIsTheStack
    <2>4. CallsOK'
      BY <1>1, <1>5, <2>2 DEF CallsOK, CallOK, FrameOf, Text, Files
    <2>5. TypeOK'
      BY <1>1, <1>6, <1>7, <2>1, <2>2, <2>3, <2>4 DEF IInv, TypeOK, Files
    <2>6. CachesAgree' /\ ReadingsAgree' /\ ResultSourced'
      BY <1>1, <2>1, <2>2 DEF IInv, CachesAgree, ReadingsAgree, ResultSourced
    <2>7. CallsSourced'
      <3>1. CallSourced(call, stack'[1].uri, sourceCache')
        BY <1>5
      <3>2. QED
        BY <2>2, <3>1 DEF CallsSourced
    <2>8. QED
      BY <2>5, <2>6, <2>7 DEF IInv
  <1>9. CASE ~file.hasBlock
    <2>1. UNCHANGED stack /\ result' = failed
      BY <1>9 DEF Load
    <2>2. w.warnings \in SUBSET Warning
      <3>1. {"no block"} \in SUBSET Kinds
        BY DEF Kinds
      <3>2. QED
        BY <1>5, <3>1, WarnTyped
    <2>3. <<>> \in Seq(Item) /\ <<>> \in Seq(Uris)
      OBVIOUS
    <2> HIDE DEF w, base
    <2>4. failed \in Dictionary /\ failed.items = <<>>
      BY <1>2, <1>4, <2>2, <2>3 DEF Dictionary
    <2> HIDE DEF failed
    <2>5. CallsOK' /\ LoadingIsTheStack'
      BY <1>1, <2>1 DEF CallsOK, LoadingIsTheStack
    <2>6. TypeOK'
      BY <1>1, <1>6, <1>7, <2>1, <2>4, <2>5 DEF IInv, TypeOK, Files
    <2>7. ResultSourced'
      BY <2>1, <2>4 DEF ResultSourced, AllSourced
    <2>8. CachesAgree' /\ ReadingsAgree' /\ CallsSourced'
      BY <1>1, <2>1 DEF IInv, CachesAgree, ReadingsAgree, CallsSourced
    <2>9. QED
      BY <2>6, <2>7, <2>8 DEF IInv
  <1>10. QED
    BY <1>8, <1>9

\* A call above others: it reads the text that is, or now is, in the cache.
LEMMA EnterInv ==
    ASSUME IInv, NEW i, NEW k, EnterConstituent(i, k)
    PROVE  IInv'
  <1> DEFINE u == FrameOf(Top).imports[i].file
             last == Len(stack)
             call == NewCall(u, u, Source(u))
             waiting == [stack EXCEPT ![last].phase = "waiting"]
  <1>1. /\ Target(i, k) /\ u \notin loading /\ Source(u) # 0
        /\ stack' = Append(waiting, call) /\ loading' = loading \cup {u} /\ Remember(u)
        /\ collected' = IF \E n \in DOMAIN collected : collected[n] = u THEN collected
                        ELSE Append(collected, u)
        /\ UNCHANGED <<library, version, changes, settings, loads, result>>
    BY DEF EnterConstituent, files
  <1>2. stack # <<>> /\ Top.phase = "directives" /\ Top \in Call /\ CallOK(Top) /\ u \in Uris
    BY <1>1, TargetTyped DEF Target, In, IInv
  <1>3. stack \in Seq(Call) /\ last \in DOMAIN stack /\ Top = stack[last]
    BY <1>2, TopTyped DEF IInv, TypeOK
  <1>4. Kept
    BY <1>1, <1>2, KeepsCaches
  <1>5. Source(u) \in DOMAIN Files[u] /\ sourceCache'[u] = Source(u)
    <2>1. Files[u] \in Seq(File)
      BY <1>2, FilesTyped DEF IInv, TypeOK
    <2>2. Source(u) \in 0..Len(Files[u])
      BY SMTT(30), <1>2 DEF IInv, TypeOK, Source
    <2>3. sourceCache'[u] = Source(u)
      BY <1>1, <1>2 DEF Remember, Source, IInv, TypeOK, CachesAgree
    <2>4. QED
      BY <1>1, <2>1, <2>2, <2>3
  <1>6. /\ call \in Call /\ CallOK(call) /\ call.uri = u /\ call.reading = Source(u)
        /\ call.phase = "frames" /\ \A root, cache : CallSourced(call, root, cache)
    <2>1. library \in DOMAIN Libraries
      BY DEF IInv, TypeOK
    <2> HIDE DEF u
    <2>2. QED
      BY <1>2, <1>5, <2>1, NewCallTyped
  <1>7. "waiting" \in Phases
    BY DEF Phases
  <1> DEFINE held == [Top EXCEPT !.phase = "waiting"]
  <1>8. /\ held \in Call /\ held.uri = Top.uri /\ held.reading = Top.reading /\ held.place = Top.place
        /\ held.phase = "waiting" /\ held.todo = Top.todo /\ held.coming = Top.coming
        /\ held.pool = Top.pool /\ held.primary = Top.primary /\ held.constituent = Top.constituent
    BY <1>2, <1>7 DEF Call
  <1>9. waiting = [stack EXCEPT ![last] = held]
    BY <1>3
  <1> HIDE DEF u, call, held, waiting
  <1>10. /\ waiting \in Seq(Call) /\ Len(waiting) = last /\ DOMAIN waiting = DOMAIN stack
         /\ waiting[last] = held /\ \A n \in DOMAIN stack : n # last => waiting[n] = stack[n]
    BY <1>3, <1>8, <1>9
  <1>11. /\ stack' \in Seq(Call) /\ Len(stack') = last + 1 /\ stack'[last + 1] = call
         /\ last \in Nat /\ last >= 1 /\ DOMAIN stack = 1..last
         /\ \A n \in 1..last : stack'[n] = waiting[n]
    BY <1>1, <1>3, <1>6, <1>10
  <1>12. \A n \in 1..last : /\ stack'[n].uri = stack[n].uri /\ stack'[n].reading = stack[n].reading
                            /\ stack'[n].pool = stack[n].pool /\ stack'[n].primary = stack[n].primary
                            /\ stack'[n].constituent = stack[n].constituent
    BY SMTT(30), <1>3, <1>8, <1>10, <1>11
  <1>13. CallsOK'
    <2>1. CallOK(held)
      BY <1>2, <1>8, SameFrame DEF CallOK
    <2>2. ASSUME NEW n \in 1..last + 1
          PROVE  CallOK(stack'[n]) /\ (stack'[n].phase = "waiting" <=> n # last + 1)
      <3>1. CASE n = last + 1
        BY <1>6, <1>11, <3>1
      <3>2. CASE n = last
        <4> HIDE DEF last
        <4>1. stack'[n] = held /\ n # last + 1
          BY <1>10, <1>11, <3>2
        <4>2. QED
          BY <1>8, <2>1, <4>1
      <3>3. CASE n \in 1..last - 1
        <4> HIDE DEF last
        <4>1. n \in DOMAIN stack /\ n # last /\ n # last + 1 /\ stack'[n] = stack[n]
          BY <1>10, <1>11, <3>3
        <4>2. CallOK(stack[n]) /\ stack[n].phase = "waiting"
          BY <4>1 DEF IInv, TypeOK, CallsOK, last
        <4>3. QED
          BY <4>1, <4>2
      <3>4. QED
        BY <1>11, <3>1, <3>2, <3>3
    <2>3. DOMAIN stack' = 1..last + 1
      BY <1>11
    <2>4. QED
      BY <1>1, <1>11, <2>2, <2>3 DEF CallsOK, CallOK, FrameOf, Text, Files
  <1>14. LoadingIsTheStack'
    <2>1. loading = {stack[n].uri : n \in 2..last}
      BY DEF IInv, TypeOK, LoadingIsTheStack
    <2>2. \A n \in 2..last : stack'[n].uri = stack[n].uri
      BY <1>11, <1>12
    <2>3. {stack[n].uri : n \in 2..last} = {stack'[n].uri : n \in 2..last}
      BY <2>2, Zenon
    <2>4. 2..last + 1 = (2..last) \cup {last + 1} /\ stack'[last + 1].uri = u
      BY <1>6, <1>11
    <2>5. loading' = {stack'[n].uri : n \in 2..last + 1}
      <3>1. loading' = {stack'[n].uri : n \in 2..last} \cup {u}
        BY <1>1, <2>1, <2>3, Zenon
      <3>2. QED
        BY <2>4, <3>1, Zenon
    <2>6. \A n \in 2..last : stack'[n].uri \in loading
      BY <2>1, <2>2
    <2>7. ASSUME NEW m \in 2..last + 1, NEW n \in 2..last + 1, stack'[m].uri = stack'[n].uri
          PROVE  m = n
      <3>1. CASE m \in 2..last /\ n \in 2..last
        BY <2>2, <2>7, <3>1 DEF IInv, TypeOK, LoadingIsTheStack
      <3>2. CASE m = last + 1 \/ n = last + 1
        BY <1>1, <1>11, <2>4, <2>6, <2>7, <3>2
      <3>3. QED
        BY <1>11, <3>1, <3>2
    <2>8. QED
      BY <1>11, <2>5, <2>7 DEF LoadingIsTheStack
  <1>15. collected' \in Seq(Uris)
    BY <1>1, <1>2 DEF IInv, TypeOK
  <1>16. loading' \subseteq Uris
    BY <1>1, <1>2 DEF IInv, TypeOK
  <1>17. TypeOK'
    BY <1>1, <1>4, <1>11, <1>13, <1>14, <1>15, <1>16 DEF IInv, TypeOK, Kept, Files
  <1>18. ReadingsAgree'
    <2>1. ASSUME NEW n \in 2..last + 1 PROVE stack'[n].reading = sourceCache'[stack'[n].uri]
      <3>1. CASE n = last + 1
        BY <1>5, <1>6, <1>11, <3>1
      <3>2. CASE n \in 2..last
        <4>0. n \in 1..last /\ n \in DOMAIN stack
          BY <1>11, <3>2
        <4>1. stack[n] \in Call /\ CallOK(stack[n]) /\ n \in 1..last
          BY <1>3, <4>0 DEF IInv, TypeOK, CallsOK
        <4>2. stack[n].uri \in Uris
          BY <4>1 DEF Call
        <4>3. Files[stack[n].uri] \in Seq(File)
          BY <4>2, FilesTyped DEF IInv, TypeOK
        <4>4. stack[n].reading # 0
          BY <4>1, <4>3 DEF CallOK
        <4>5. stack[n].reading = sourceCache[stack[n].uri]
          BY <3>2 DEF IInv, ReadingsAgree
        <4>6. QED
          BY <1>4, <1>12, <4>1, <4>2, <4>4, <4>5 DEF Kept
      <3>3. QED
        BY <1>11, <3>1, <3>2
    <2>2. QED
      BY <1>11, <2>1 DEF ReadingsAgree
  <1>19. CallsSourced'
    <2>1. stack'[1].uri = stack[1].uri
      BY <1>11, <1>12
    <2>2. ASSUME NEW n \in 1..last + 1 PROVE CallSourced(stack'[n], stack[1].uri, sourceCache')
      <3>1. CASE n = last + 1
        BY <1>6, <1>11, <3>1
      <3>2. CASE n \in 1..last
        <4>1. stack[n] \in Call /\ CallSourced(stack[n], stack[1].uri, sourceCache)
          BY <1>3, <1>11, <3>2 DEF IInv, CallsSourced
        <4>2. CallSourced(stack[n], stack[1].uri, sourceCache')
          BY <1>4, <4>1, CallStaysSourced
        <4>3. QED
          BY <1>12, <3>2, <4>2 DEF CallSourced
      <3>3. QED
        BY <1>11, <3>1, <3>2
    <2>3. DOMAIN stack' = 1..last + 1
      BY <1>11
    <2>4. QED
      BY <2>1, <2>2, <2>3 DEF CallsSourced
  <1>20. ResultSourced'
    <2>1. ASSUME result # Nothing PROVE AllSourced(result.items, result.uri, sourceCache')
      <3>1. result.items \in Seq(Item)
        BY <2>1 DEF IInv, TypeOK, Dictionary
      <3>2. AllSourced(result.items, result.uri, sourceCache)
        BY <2>1 DEF IInv, ResultSourced
      <3>3. QED
        BY <1>4, <3>1, <3>2, StaysSourced
    <2>2. QED
      BY <1>1, <2>1 DEF ResultSourced
  <1>21. QED
    BY <1>4, <1>17, <1>18, <1>19, <1>20 DEF IInv, Kept

\* A call returns: the root's with the result, another's to the call below it.
LEMMA ReturnInv ==
    ASSUME IInv, stack # <<>>, ReturnTop
    PROVE  IInv'
  <1> DEFINE last == Len(stack)
             kinds == IF AliasCollision(Top.pool) THEN {"alias"} ELSE {}
             t == IF AliasCollision(Top.pool) THEN Warn(Top, {"alias"}) ELSE Top
             n == last - 1
             found == [uri |-> t.uri, base |-> t.base, reading |-> t.reading, items |-> t.pool,
                       warnings |-> t.warnings, sources |-> collected]
  <1>1. UNCHANGED <<library, version, changes, settings, sourceCache, parseCache, collected, loads>>
    BY DEF ReturnTop, files
  <1>2. /\ stack \in Seq(Call) /\ last \in DOMAIN stack /\ last \in Nat /\ DOMAIN stack = 1..last
        /\ Top = stack[last] /\ Top \in Call /\ n \in Nat /\ last = n + 1
    <2>1. stack \in Seq(Call) /\ last \in DOMAIN stack /\ Top = stack[last] /\ Top \in Call
      BY TopTyped DEF IInv, TypeOK
    <2>2. last \in Nat /\ DOMAIN stack = 1..last /\ last >= 1
      BY <2>1
    <2>3. QED
      BY <2>1, <2>2
  <1>3. /\ t \in Call /\ t.uri = Top.uri /\ t.reading = Top.reading /\ t.base = Top.base
        /\ t.pool = Top.pool
    <2>1. {"alias"} \in SUBSET Kinds
      BY DEF Kinds
    <2> DEFINE w == Warn(Top, {"alias"})
    <2>2. w \in Call /\ w = [Top EXCEPT !.warnings = w.warnings]
      BY <1>2, <2>1, WarnTyped
    <2> HIDE DEF w
    <2>3. w.uri = Top.uri /\ w.reading = Top.reading /\ w.base = Top.base /\ w.pool = Top.pool
      BY <1>2, <2>2 DEF Call
    <2>4. t = w \/ t = Top
      BY DEF w
    <2>5. QED
      BY <1>2, <2>2, <2>3, <2>4
  <1>4. CallSourced(Top, stack[1].uri, sourceCache)
    BY <1>2 DEF IInv, CallsSourced
  <1>5. CASE n = 0
    <2>1. stack' = <<>> /\ UNCHANGED loading /\ result' = found
      BY <1>5 DEF ReturnTop
    <2> HIDE DEF t
    <2>2. /\ t.uri \in Uris /\ t.base \in Uris \cup {Nothing} /\ t.reading \in Nat
          /\ t.pool \in Seq(Item) /\ t.warnings \in SUBSET Warning /\ collected \in Seq(Uris)
      BY <1>3 DEF Call, IInv, TypeOK
    <2>3. found \in Dictionary /\ found.items = Top.pool /\ found.uri = stack[1].uri
      <3>1. found \in Dictionary
        BY <2>2 DEF Dictionary
      <3>2. last = 1
        <4> HIDE DEF n, last
        <4>1. QED
          BY <1>2, <1>5
      <3>3. QED
        BY <1>2, <1>3, <3>1, <3>2
    <2> HIDE DEF found
    <2>4. CallsOK' /\ stack' \in Seq(Call)
      BY <2>1 DEF CallsOK
    <2>5. LoadingIsTheStack'
      <3>1. last = 1 /\ 2..last = {}
        <4> HIDE DEF n, last
        <4>1. QED
          BY <1>2, <1>5
      <3>2. loading = {stack[m].uri : m \in 2..last}
        BY DEF IInv, TypeOK, LoadingIsTheStack
      <3>3. loading' = {}
        BY <2>1, <3>1, <3>2
      <3>4. QED
        BY <2>1, <3>3 DEF LoadingIsTheStack
    <2>6. TypeOK'
      BY <1>1, <2>1, <2>3, <2>4, <2>5 DEF IInv, TypeOK, Files
    <2>7. ResultSourced'
      BY <1>1, <1>4, <2>1, <2>3 DEF ResultSourced, CallSourced
    <2>8. CachesAgree' /\ ReadingsAgree' /\ CallsSourced'
      BY <1>1, <2>1 DEF IInv, CachesAgree, ReadingsAgree, CallsSourced
    <2>9. QED
      BY <2>6, <2>7, <2>8 DEF IInv
  <1>6. CASE n # 0
    <2> DEFINE below == SubSeq(stack, 1, n)
               b == stack[n]
               back == [b EXCEPT !.phase = "items", !.constituent = t.pool, !.coming = DOMAIN t.pool,
                                 !.warnings = @ \cup t.warnings]
    <2>1. /\ n \in 1..last /\ n + 1 = last /\ n \in Nat /\ n # last /\ n \in 1..n
          /\ 1 \in 1..n /\ 2..last = (2..n) \cup {last} /\ last \in 2..last
          /\ \A m \in 1..n : m \in 1..last /\ m # last
          /\ \A m \in 2..n : m \in 1..n /\ m \in 2..last /\ m # last
      <3> HIDE DEF last
      <3>1. QED
        BY <1>2, <1>6
    <2>2. below \in Seq(Call) /\ Len(below) = n /\ DOMAIN below = 1..n /\ \A m \in 1..n : below[m] = stack[m]
      <3> HIDE DEF n
      <3>1. n <= Len(stack)
        BY <2>1
      <3>2. QED
        BY <1>2, <2>1, <3>1
    <2>3. /\ stack' = [below EXCEPT ![n].phase = "items", ![n].constituent = t.pool,
                                    ![n].coming = DOMAIN t.pool, ![n].warnings = @ \cup t.warnings]
          /\ loading' = loading \ {t.uri} /\ UNCHANGED result
      BY <1>6 DEF ReturnTop
    <2> HIDE DEF t
    <2>4. b \in Call /\ CallOK(b) /\ b.phase = "waiting"
      <3> HIDE DEF n
      <3>1. n \in DOMAIN stack /\ n # Len(stack)
        BY <1>2, <2>1
      <3>2. stack[n] \in Call
        BY <1>2, <3>1
      <3>3. CallOK(stack[n]) /\ stack[n].phase = "waiting"
        BY <3>1 DEF IInv, TypeOK, CallsOK
      <3>4. QED
        BY <3>2, <3>3
    <2>5. /\ t.pool \in Seq(Item) /\ t.warnings \in SUBSET Warning /\ DOMAIN t.pool \in SUBSET Nat
          /\ "items" \in Phases
      BY <1>3 DEF Call, Phases
    <2>6. b.warnings \cup t.warnings \in SUBSET Warning
      BY <2>4, <2>5 DEF Call
    <2>7. back \in Call
      BY <2>4, <2>5, <2>6 DEF Call
    <2>8. /\ back.uri = b.uri /\ back.reading = b.reading /\ back.place = b.place
          /\ back.phase = "items" /\ back.todo = b.todo /\ back.coming = DOMAIN back.constituent
          /\ back.pool = b.pool /\ back.primary = b.primary /\ back.constituent = Top.pool
      BY <1>3, <2>4 DEF Call
    <2>9. CallOK(back)
      BY <2>4, <2>7, <2>8, SameFrame
    <2>10. stack' = [below EXCEPT ![n] = back]
      <3> HIDE DEF n, below
      <3>1. below[n] = b
        BY <2>1, <2>2
      <3>2. stack' = [below EXCEPT ![n] = [below[n] EXCEPT !.phase = "items", !.constituent = t.pool,
                          !.coming = DOMAIN t.pool, !.warnings = @ \cup t.warnings]]
        BY <2>1, <2>3, <2>2
      <3>3. QED
        BY <3>1, <3>2
    <2> HIDE DEF below, back, n
    <2>11. /\ stack' \in Seq(Call) /\ Len(stack') = n /\ stack'[n] = back /\ DOMAIN stack' = 1..n
           /\ \A m \in 1..n : m # n => stack'[m] = stack[m]
      BY <2>1, <2>7, <2>10, <2>2
    <2>12. \A m \in 1..n : stack'[m].uri = stack[m].uri /\ stack'[m].reading = stack[m].reading
      BY SMTT(30), <2>8, <2>11
    <2>13. CallsOK'
      <3>1. ASSUME NEW m \in 1..n
            PROVE  CallOK(stack'[m]) /\ (stack'[m].phase = "waiting" <=> m # n)
        <4>1. CASE m = n
          BY <2>8, <2>9, <2>11, <4>1
        <4>2. CASE m # n
          <5>1. m \in DOMAIN stack /\ m # Len(stack) /\ stack'[m] = stack[m]
            BY <1>2, <2>1, <2>11, <4>2
          <5>2. QED
            BY <4>2, <5>1 DEF IInv, TypeOK, CallsOK
        <4>3. QED
          BY <4>1, <4>2
      <3>2. QED
        BY <1>1, <2>11, <3>1 DEF CallsOK, CallOK, FrameOf, Text, Files
    <2>14. LoadingIsTheStack'
      <3>1. loading = {stack[m].uri : m \in 2..last}
        BY DEF IInv, TypeOK, LoadingIsTheStack
      <3>3. \A m \in 2..n : stack[m].uri # stack[last].uri
        BY <2>1 DEF IInv, TypeOK, LoadingIsTheStack
      <3>5. loading = {stack[m].uri : m \in 2..n} \cup {stack[last].uri}
        BY <2>1, <3>1, Zenon
      <3>6. loading' = {stack[m].uri : m \in 2..n}
        BY <1>2, <1>3, <2>3, <3>3, <3>5
      <3>7. {stack[m].uri : m \in 2..n} = {stack'[m].uri : m \in 2..n}
        <4>1. \A m \in 2..n : stack[m].uri = stack'[m].uri
          BY <2>1, <2>12
        <4>2. QED
          BY <4>1, Zenon
      <3>8. loading' = {stack'[m].uri : m \in 2..n}
        BY <3>6, <3>7
      <3>9. \A m, k \in 2..n : stack'[m].uri = stack'[k].uri => m = k
        BY <2>1, <2>12 DEF IInv, TypeOK, LoadingIsTheStack
      <3>10. QED
        BY <2>11, <3>8, <3>9 DEF LoadingIsTheStack
    <2>15. loading' \subseteq Uris
      BY <2>3 DEF IInv, TypeOK
    <2>16. TypeOK'
      BY <1>1, <2>3, <2>11, <2>13, <2>14, <2>15 DEF IInv, TypeOK, Files
    <2>17. ReadingsAgree'
      BY <1>1, <2>1, <2>11, <2>12 DEF IInv, ReadingsAgree
    <2>18. CallsSourced'
      <3>1. stack'[1].uri = stack[1].uri
        BY <2>1, <2>12
      <3>2. ASSUME NEW m \in 1..n PROVE CallSourced(stack'[m], stack[1].uri, sourceCache)
        <4>1. CallSourced(stack[m], stack[1].uri, sourceCache)
          BY <1>2, <2>1 DEF IInv, CallsSourced
        <4>2. CASE m = n
          BY <1>4, <2>8, <2>11, <4>1, <4>2 DEF CallSourced
        <4>3. CASE m # n
          BY <2>11, <4>1, <4>3
        <4>4. QED
          BY <4>2, <4>3
      <3>3. QED
        BY <1>1, <2>11, <3>1, <3>2 DEF CallsSourced
    <2>19. CachesAgree' /\ ResultSourced'
      BY <1>1, <2>3 DEF IInv, CachesAgree, ResultSourced
    <2>20. QED
      BY <2>16, <2>17, <2>18, <2>19 DEF IInv
  <1>7. QED
    BY <1>5, <1>6

\* A step that leaves the innermost call's definitions, apart from those it lets go of.
LEMMA FollowsInv ==
    ASSUME IInv, stack # <<>>, NEW e, Follows(Top, e), Becomes(e), NoCallBegins, Kept
    PROVE  IInv'
  <1>1. Len(stack) \in DOMAIN stack /\ Top = stack[Len(stack)]
    BY TopTyped DEF IInv
  <1>2. CallSourced(Top, stack[1].uri, sourceCache)
    BY <1>1 DEF IInv, CallsSourced
  <1>3. e.pool = Top.pool /\ e.primary = Top.primary /\ e.constituent \in {Top.constituent, <<>>}
    BY DEF Follows
  <1>4. AllSourced(<<>>, stack[1].uri, sourceCache)
    BY DEF AllSourced
  <1>5. CallSourced(e, stack[1].uri, sourceCache)
    BY <1>2, <1>3, <1>4 DEF CallSourced
  <1>6. QED
    BY <1>5, BecomesKeeps DEF Follows

\* Steps of a directive.
LEMMA DirectivesInv ==
    ASSUME IInv, stack # <<>>, Directives
    PROVE  IInv'
  <1>1. PICK i \in Top.todo :
          \/ SkipDirective(i) \/ MissTarget(i) \/ MergeTag(i) \/ FinishDirective(i)
          \/ \E n \in Top.coming : MergeItem(i, n)
          \/ \E k \in UsablePlaces(FrameOf(Top).imports[i]) :
                 BlockConstituent(i, k) \/ RefuseConstituent(i, k) \/ EnterConstituent(i, k) \/ TakeFrame(i, k)
    BY Zenon DEF Directives
  <1> USE DEF IInv
  <1>2. CASE SkipDirective(i) \/ MergeTag(i) \/ FinishDirective(i)
    <2>1. NoCallBegins /\ NothingRead
      BY <1>2 DEF SkipDirective, MergeTag, FinishDirective
    <2>2. \E e : Follows(Top, e) /\ Becomes(e)
      BY <1>2, SkipFollows, MergeTagFollows, FinishFollows
    <2>3. QED
      BY <2>1, <2>2, KeepsCaches, FollowsInv
  <1>3. CASE MissTarget(i)
    <2> DEFINE u == FrameOf(Top).imports[i].file
    <2>1. NoCallBegins /\ Remember(u) /\ IsNext(Top, i) /\ Usable(FrameOf(Top).imports[i])
          /\ Top.phase = "directives"
      BY <1>3 DEF MissTarget, In
    <2>2. u \in Uris
      BY <2>1, AtDirective DEF Usable, Directive
    <2>3. \E e : Follows(Top, e) /\ Becomes(e)
      BY <1>3, SkipFollows
    <2> HIDE DEF u
    <2>4. QED
      BY <2>1, <2>2, <2>3, KeepsCaches, FollowsInv
  <1>4. ASSUME NEW n \in Top.coming, MergeItem(i, n)
        PROVE  IInv'
    <2>1. NoCallBegins /\ Kept
      BY <1>4, KeepsCaches DEF MergeItem
    <2>2. PICK e : /\ Works(Top, e) /\ Becomes(e) /\ e.primary = Top.primary
                   /\ e.constituent \in {Top.constituent, <<>>}
                   /\ \A k \in DOMAIN e.pool :
                          \/ n \in DOMAIN Top.constituent /\ e.pool[k] = Top.constituent[n]
                          \/ k \in DOMAIN Top.pool /\ e.pool[k] = Top.pool[k]
      BY <1>4, MergeItemWorks
    <2>3. CallSourced(Top, stack[1].uri, sourceCache)
      BY TopTyped DEF CallsSourced
    <2>4. CallSourced(e, stack[1].uri, sourceCache)
      BY <2>2, <2>3 DEF CallSourced, AllSourced
    <2>5. QED
      BY <2>1, <2>2, <2>4, BecomesKeeps
  <1>5. ASSUME NEW k, BlockConstituent(i, k) \/ RefuseConstituent(i, k) \/ TakeFrame(i, k)
        PROVE  IInv'
    <2> DEFINE u == FrameOf(Top).imports[i].file
    <2>1. NoCallBegins /\ Remember(u) /\ Target(i, k)
      BY <1>5 DEF BlockConstituent, RefuseConstituent, TakeFrame
    <2>2. u \in Uris
      BY <2>1, TargetTyped
    <2>3. \E e : Follows(Top, e) /\ Becomes(e)
      BY <1>5, FoundFollows
    <2> HIDE DEF u
    <2>4. QED
      BY <2>1, <2>2, <2>3, KeepsCaches, FollowsInv
  <1>6. ASSUME NEW k, EnterConstituent(i, k)
        PROVE  IInv'
    BY <1>6, EnterInv
  <1>7. QED
    BY <1>1, <1>2, <1>3, <1>4, <1>5, <1>6

\* All steps.
LEMMA NextInv ==
    ASSUME IInv, [Next]_vars
    PROVE  IInv'
  <1> USE DEF IInv
  <1>1. CASE BeginFrame
    <2>1. NoCallBegins /\ NothingRead /\ stack # <<>>
      BY <1>1 DEF BeginFrame, In
    <2>2. \E e : Follows(Top, e) /\ Becomes(e)
      BY <1>1, BeginFrameFollows
    <2>3. QED
      BY <2>1, <2>2, KeepsCaches, FollowsInv
  <1>2. CASE stack # <<>> /\ Directives
    BY <1>2, DirectivesInv
  <1>3. CASE EndFrame
    <2>1. NoCallBegins /\ Kept /\ stack # <<>>
      BY <1>3, KeepsCaches DEF EndFrame, In
    <2>2. PICK e : /\ Works(Top, e) /\ Becomes(e) /\ e.pool = Top.pool /\ e.constituent = Top.constituent
                   /\ \A k \in DOMAIN e.primary :
                          \/ e.primary[k].from = Top.uri /\ e.primary[k].reading = Top.reading
                          \/ k \in DOMAIN Top.primary /\ e.primary[k] = Top.primary[k]
      BY <1>3, EndFrameWorks
    <2>3. CallSourced(Top, stack[1].uri, sourceCache) /\ Top \in Call /\ CallOK(Top)
      BY <2>1, TopTyped DEF CallsSourced
    <2>4. \A item : item.from = Top.uri /\ item.reading = Top.reading =>
              Sourced(item, stack[1].uri, sourceCache)
      <3>1. Len(stack) \in DOMAIN stack /\ Top = stack[Len(stack)] /\ stack \in Seq(Call)
        BY <2>1, TopTyped DEF TypeOK
      <3>2. CASE Len(stack) = 1
        BY <3>1, <3>2 DEF Sourced
      <3>3. CASE Len(stack) # 1
        <4>1. Len(stack) \in 2..Len(stack)
          <5>1. \A l \in Nat : l >= 1 /\ l # 1 => l \in 2..l
            OBVIOUS
          <5>2. Len(stack) \in Nat /\ Len(stack) >= 1
            BY <3>1
          <5>3. QED
            BY <3>3, <5>1, <5>2
        <4>2. Top.reading = sourceCache[Top.uri]
          BY <3>1, <4>1 DEF ReadingsAgree
        <4>3. Files[Top.uri] \in Seq(File)
          BY <2>3, FilesTyped DEF TypeOK, Call
        <4>4. Top.reading # 0
          BY <2>3, <4>3 DEF CallOK
        <4>5. QED
          BY <4>2, <4>4 DEF Sourced
      <3>4. QED
        BY <3>2, <3>3
    <2>5. CallSourced(e, stack[1].uri, sourceCache)
      BY <2>2, <2>3, <2>4 DEF CallSourced, AllSourced
    <2>6. QED
      BY <2>1, <2>2, <2>5, BecomesKeeps
  <1>4. CASE Overlay
    <2>1. NoCallBegins /\ Kept /\ stack # <<>>
      BY <1>4, KeepsCaches DEF Overlay, AllRead, In
    <2>2. PICK e : /\ Works(Top, e) /\ Becomes(e) /\ e.constituent = Top.constituent
                   /\ \A k \in DOMAIN e.primary :
                          k + 1 \in DOMAIN Top.primary /\ e.primary[k] = Top.primary[k + 1]
                   /\ \A k \in DOMAIN e.pool :
                          \/ 1 \in DOMAIN Top.primary /\ e.pool[k] = Top.primary[1]
                          \/ k \in DOMAIN Top.pool /\ e.pool[k] = Top.pool[k]
      BY <1>4, OverlayWorks
    <2>3. CallSourced(Top, stack[1].uri, sourceCache)
      BY <2>1, TopTyped DEF CallsSourced
    <2>4. CallSourced(e, stack[1].uri, sourceCache)
      BY <2>2, <2>3 DEF CallSourced, AllSourced
    <2>5. QED
      BY <2>1, <2>2, <2>4, BecomesKeeps
  <1>5. CASE ReturnTop
    BY <1>5, ReturnInv DEF ReturnTop, AllRead, In
  <1>6. ASSUME NEW u \in Uris, Load(u)
        PROVE  IInv'
    BY <1>6, LoadInv
  <1>7. ASSUME NEW u \in Editable, Change(u)
        PROVE  IInv'
    BY <1>7, ChangeInv, LoaderAssumption
  <1>8. CASE UNCHANGED vars
    <2>1. CallsOK' /\ LoadingIsTheStack' /\ Files' = Files
      <3>1. library' = library /\ stack' = stack /\ loading' = loading
        BY SMTT(30), <1>8 DEF vars, files
      <3>2. CallsOK'
        BY <3>1 DEF TypeOK, CallsOK, CallOK, FrameOf, Text, Files
      <3>3. LoadingIsTheStack'
        BY <3>1 DEF TypeOK, LoadingIsTheStack
      <3>4. QED
        BY <3>1, <3>2, <3>3 DEF Files
    <2>2. TypeOK'
      BY <1>8, <2>1 DEF TypeOK, vars, files
    <2>3. CachesAgree' /\ ReadingsAgree' /\ CallsSourced' /\ ResultSourced'
      BY <1>8 DEF CachesAgree, ReadingsAgree, CallsSourced, ResultSourced, vars, files
    <2>4. QED
      BY <2>2, <2>3
  <1>9. QED
    BY <1>1, <1>2, <1>3, <1>4, <1>5, <1>6, <1>7, <1>8 DEF Next, Step

-----------------------------------------------------------------------------
(***************************************************************************)
(* The theorems.                                                           *)
(***************************************************************************)
LEMMA LoaderInvariant == Spec => []IInv
  <1>1. QED
    BY InitInv, NextInv, PTL DEF Spec

\* What the loader holds has its type, in the middle of any load too: a call works at a frame
\* and on directives of the text it reads, and brings definitions that are there.
THEOREM LoaderTypeCorrect == Spec => []TypeOK
  <1>1. IInv => TypeOK
    BY DEF IInv
  <1>2. QED
    BY <1>1, LoaderInvariant, PTL

\* However the dictionaries import each other, no two calls above the root's read one file, so
\* the recursion is never deeper than there are files.
THEOREM NoFileIsLoadedInItself == Spec => []LoadingIsTheStack
  <1>1. IInv => LoadingIsTheStack
    BY DEF IInv, TypeOK
  <1>2. QED
    BY <1>1, LoaderInvariant, PTL

\* What a load returns has each imported file in one version, though files change meanwhile.
THEOREM OneReadingCorrect == Spec => []OneReadingOfEachFile
  <1>1. IInv => OneReadingOfEachFile
    BY DEF IInv, ResultSourced, AllSourced, Sourced, OneReadingOfEachFile
  <1>2. QED
    BY <1>1, LoaderInvariant, PTL

-----------------------------------------------------------------------------
(***************************************************************************)
(* What a call has and what it still waits for.  Each call below the       *)
(* innermost is in the middle of a directive, so that neither has its      *)
(* definitions yet nor misses them: its witness M for what it has is then  *)
(* closed under imports but for the files under way, the root's is closed. *)
(***************************************************************************)
TextOf(c) == Text(c.uri, c.reading)
Ids(items) == {items[k].id : k \in DOMAIN items}
DistinctIds(items) == \A j, k \in DOMAIN items : items[j].id = items[k].id => j = k
Own(item, c) == item.from = c.uri /\ item.reading = c.reading

\* The frames a call is done with, those whose definition it has taken.
Ended(c) == 1..(IF c.phase = "frames" THEN c.place ELSE c.place - 1)
\* What a file defines waits to be laid over the pool, or is the only such definition there.
OwnWin(c) ==
    /\ \A k \in DOMAIN c.primary : Own(c.primary[k], c)
    /\ \A k \in Ended(c) : Extracted(TextOf(c).frames[k]) =>
           LET id == TextOf(c).frames[k].id IN
           \/ Holds(c.primary, id)
           \/ /\ c.phase = "frames" /\ c.place = Len(TextOf(c).frames) /\ Holds(c.pool, id)
              /\ \A m \in DOMAIN c.pool : c.pool[m].id = id => Own(c.pool[m], c)
\* Frames that are left out have no directives to do.
Unskipped(c) == c.phase # "frames" /\ c.todo # {} => ~Skipped(FrameOf(c))

\* Definitions come from the files collected.
Listed(u) == \E n \in DOMAIN collected : collected[n] = u
AllListed(items) == \A k \in DOMAIN items : Listed(items[k].source)
CallListed(c) ==
    Listed(c.base) /\ AllListed(c.pool) /\ AllListed(c.primary) /\ AllListed(c.constituent)

\* A text that the root's leads to, by heads: the root's own or a cached one.
ReachedFrom(file) ==
    {u \in Uris : \A S \in SUBSET Uris :
        (Constituents(file) \subseteq S /\
             \A v \in S : parseCache[v] # 0 => Constituents(Text(v, parseCache[v])) \subseteq S)
        => u \in S}
Known(u, v, root) ==
    \/ u = root.uri /\ v = root.reading
    \/ u \in ReachedFrom(TextOf(root)) /\ v = parseCache[u] /\ v # 0
Traced(item, root) ==
    Known(item.from, item.reading, root) /\ item.id \in Defined(Text(item.from, item.reading))
AllTraced(items, root) == \A k \in DOMAIN items : Traced(items[k], root)
CallTraced(c, root) ==
    /\ Known(c.uri, c.reading, root)
    /\ AllTraced(c.pool, root) /\ AllTraced(c.primary, root) /\ AllTraced(c.constituent, root)

\* What a directive asks for is read, and among S if it is a whole dictionary.
Satisfied(d, S) ==
    d.mode = "Full" /\ d.file # Nothing =>
        parseCache[d.file] # 0 /\ (HeadsAt(d.file, d.save) # {} => d.file \in S)
AllSatisfied(file, S) ==
    \A k \in DOMAIN file.frames : ~Skipped(file.frames[k]) =>
        \A i \in DOMAIN file.frames[k].imports : Satisfied(file.frames[k].imports[i], S)
\* A directive of a frame a call has begun is done, or what it asks for is there.
Arrived(c, k, i) ==
    \/ k < c.place \/ c.phase = "frames" \/ i \notin c.todo
    \/ c.phase \in {"tags", "items"} /\ IsNext(c, i)
\* The definitions a call has or is about to take.
Has(c) == Ids(c.pool) \cup {c.constituent[k].id : k \in c.coming}
\* M are files whose definitions a call has, with all they import but for files that calls
\* below it, and it, are loading.
WholeBy(c, M, under) ==
    /\ \A v \in M : /\ parseCache[v] # 0
                    /\ Defined(Text(v, parseCache[v])) \subseteq Has(c)
                    /\ AllSatisfied(Text(v, parseCache[v]), M \cup under)
    /\ \A k \in 1..c.place : ~Skipped(TextOf(c).frames[k]) =>
           \A i \in DOMAIN TextOf(c).frames[k].imports :
               Arrived(c, k, i) => Satisfied(TextOf(c).frames[k].imports[i], M \cup under)
LossFree(warnings) == \A w \in warnings : w.kind \notin Losses
Whole(c, under) == LossFree(c.warnings) => \E M \in SUBSET Uris : WholeBy(c, M, under)
Under(n) == {stack[m].uri : m \in 2..n}

\* A call that waits does so for the file its next directive names.
WaitsForNext ==
    \A n \in DOMAIN stack : n + 1 \in DOMAIN stack =>
        \A i \in stack[n].todo : IsNext(stack[n], i) => FrameOf(stack[n]).imports[i].file = stack[n + 1].uri
\* While calls are under way there is no result.
ResultWaits == result # Nothing => stack = <<>>

-----------------------------------------------------------------------------
(***************************************************************************)
(* Definitions by their names.                                             *)
(***************************************************************************)
\* A definition that is put among others is the only one of its name.
LEMMA PutNames ==
    ASSUME NEW items \in Seq(Item), NEW item \in Item
    PROVE  /\ Ids(Put(items, item)) = Ids(items) \cup {item.id}
           /\ \A k \in DOMAIN Put(items, item) :
                  Put(items, item)[k].id = item.id => Put(items, item)[k] = item
           /\ \A k \in DOMAIN items : items[k].id # item.id =>
                  k \in DOMAIN Put(items, item) /\ Put(items, item)[k] = items[k]
           /\ DistinctIds(items) => DistinctIds(Put(items, item))
  <1> DEFINE new == Put(items, item)
  <1>1. CASE Holds(items, item.id)
    <2>1. new = [k \in DOMAIN items |-> IF items[k].id = item.id THEN item ELSE items[k]]
      BY <1>1 DEF Put
    <2> HIDE DEF new
    <2>2. DOMAIN new = DOMAIN items
      BY <2>1
    <2>3. \A k \in DOMAIN items : new[k] = IF items[k].id = item.id THEN item ELSE items[k]
      BY <2>1
    <2>4. \A k \in DOMAIN items : new[k].id = items[k].id
      BY <2>3
    <2>5. Ids(new) = Ids(items)
      BY <2>2, <2>4 DEF Ids
    <2>6. item.id \in Ids(items)
      BY <1>1 DEF Holds, Ids
    <2>7. DistinctIds(items) => DistinctIds(new)
      BY <2>2, <2>4 DEF DistinctIds
    <2>8. Ids(new) = Ids(items) \cup {item.id}
      BY <2>5, <2>6
    <2>9. QED
      BY <2>2, <2>3, <2>7, <2>8 DEF new
  <1>2. CASE ~Holds(items, item.id)
    <2>1. new = Append(items, item)
      BY <1>2 DEF Put
    <2> HIDE DEF new
    <2>2. /\ DOMAIN new = DOMAIN items \cup {Len(items) + 1} /\ new[Len(items) + 1] = item
          /\ Len(items) + 1 \notin DOMAIN items /\ \A k \in DOMAIN items : new[k] = items[k]
      BY <2>1
    <2>3. \A k \in DOMAIN items : items[k].id # item.id
      BY <1>2 DEF Holds
    <2>4. Ids(new) = Ids(items) \cup {item.id}
      BY <2>2 DEF Ids
    <2>5. DistinctIds(items) => DistinctIds(new)
      BY <2>2, <2>3 DEF DistinctIds
    <2>6. QED
      BY <2>2, <2>3, <2>4, <2>5 DEF new
  <1>3. QED
    BY <1>1, <1>2

-----------------------------------------------------------------------------
(***************************************************************************)
(* What the growth of the caches leaves as it is.                          *)
(***************************************************************************)
Grown ==
    /\ UNCHANGED <<library, settings>>
    /\ \A u \in Uris : parseCache[u] # 0 => parseCache'[u] = parseCache[u]

\* The caches only grow.
LEMMA GrownByStep ==
    ASSUME IInv, Kept, UNCHANGED <<library, settings>>
    PROVE  Grown
  <1>1. QED
    BY DEF Grown, Kept, IInv, CachesAgree

\* Texts, the frames that are left out and what was read before stay.
LEMMA TextsStay ==
    ASSUME Grown
    PROVE  /\ \A u, v : Text(u, v)' = Text(u, v)
           /\ \A f : Skipped(f)' = Skipped(f)
           /\ \A u \in Uris : parseCache[u] # 0 => parseCache'[u] = parseCache[u]
           /\ \A u \in Uris : \A name : parseCache[u] # 0 => HeadsAt(u, name)' = HeadsAt(u, name)
  <1>1. \A u, v : Text(u, v)' = Text(u, v)
    BY DEF Grown, Text, Files
  <1>2. \A f : Skipped(f)' = Skipped(f)
    BY DEF Grown, Skipped
  <1>3. ASSUME NEW u \in Uris, NEW name, parseCache[u] # 0
        PROVE  HeadsAt(u, name)' = HeadsAt(u, name)
    <2>1. Text(u, parseCache[u])' = Text(u, parseCache[u])
      BY <1>3 DEF Grown, Text, Files
    <2>2. QED
      BY <2>1 DEF HeadsAt
  <1>4. QED
    BY <1>1, <1>2, <1>3 DEF Grown

\* The files a text leads to stay, as those that are read grow.
LEMMA ConstituentsGrow ==
    ASSUME Grown, NEW file
    PROVE  Constituents(file) \subseteq Constituents(file)'
  <1>1. ASSUME NEW u \in Constituents(file)
        PROVE  u \in Constituents(file)'
    <2>1. PICK k \in DOMAIN file.frames : \E i \in DOMAIN file.frames[k].imports :
            LET d == file.frames[k].imports[i] IN
            /\ ~Skipped(file.frames[k])
            /\ d.file = u /\ d.mode = "Full" /\ parseCache[u] # 0 /\ HeadsAt(u, d.save) # {}
      BY DEF Constituents
    <2>2. PICK i \in DOMAIN file.frames[k].imports :
            /\ ~Skipped(file.frames[k])
            /\ file.frames[k].imports[i].file = u /\ file.frames[k].imports[i].mode = "Full"
            /\ parseCache[u] # 0 /\ HeadsAt(u, file.frames[k].imports[i].save) # {}
      BY <2>1
    <2>3. u \in Uris
      BY DEF Constituents
    <2>4. /\ ~Skipped(file.frames[k])' /\ parseCache'[u] # 0
          /\ HeadsAt(u, file.frames[k].imports[i].save)' # {}
      BY <2>2, <2>3, TextsStay
    <2>5. QED
      BY <2>2, <2>3, <2>4 DEF Constituents
  <1>2. QED
    BY <1>1

\* The same at any distance.
LEMMA ReachedGrows ==
    ASSUME Grown, NEW file
    PROVE  ReachedFrom(file) \subseteq ReachedFrom(file)'
  <1>1. ASSUME NEW u \in ReachedFrom(file), NEW S \in SUBSET Uris,
               Constituents(file)' \subseteq S,
               \A v \in S : parseCache'[v] # 0 => Constituents(Text(v, parseCache[v]))' \subseteq S
        PROVE  u \in S
    <2>1. Constituents(file) \subseteq S
      BY <1>1, ConstituentsGrow
    <2>2. ASSUME NEW v \in S, parseCache[v] # 0
          PROVE  Constituents(Text(v, parseCache[v])) \subseteq S
      <3>1. parseCache'[v] = parseCache[v]
        BY <2>2, TextsStay
      <3>2. PICK t : t = Text(v, parseCache[v])
        OBVIOUS
      <3>3. Text(v, parseCache[v])' = t
        BY <3>1, <3>2 DEF Grown, Text, Files
      <3>4. Constituents(t) \subseteq Constituents(t)'
        BY ConstituentsGrow
      <3>5. Constituents(Text(v, parseCache[v]))' = Constituents(t)'
        BY <3>3 DEF Constituents
      <3>6. QED
        BY <1>1, <2>2, <3>1, <3>2, <3>4, <3>5
    <2>3. QED
      BY <1>1, <2>1, <2>2 DEF ReachedFrom
  <1>2. \A u \in ReachedFrom(file) : u \in Uris
    BY DEF ReachedFrom
  <1>3. QED
    BY <1>1, <1>2 DEF ReachedFrom

\* Frames and directives have their types.
LEMMA ImportTyped ==
    ASSUME NEW file \in File, NEW k \in DOMAIN file.frames, NEW i \in DOMAIN file.frames[k].imports
    PROVE  file.frames[k] \in Frame /\ file.frames[k].imports[i] \in Directive
  <1>1. file.frames[k] \in Frame
    BY DEF File
  <1>2. file.frames[k].imports \in Seq(Directive)
    BY <1>1 DEF Frame
  <1>3. QED
    BY <1>1, <1>2

\* A cached text is one of its file's versions.
LEMMA CachedText ==
    ASSUME IInv, NEW v \in Uris, parseCache[v] # 0
    PROVE  Text(v, parseCache[v]) \in File
  <1>1. Files[v] \in Seq(File) /\ parseCache[v] \in 0..Len(Files[v])
    BY FilesTyped DEF IInv, TypeOK
  <1>2. parseCache[v] \in DOMAIN Files[v]
    BY <1>1
  <1>3. QED
    BY <1>2, FilesTyped DEF IInv, TypeOK

\* A text that the root's leads to stays one, whichever record names the root.
LEMMA KnownGrows ==
    ASSUME Grown, NEW u, NEW v, NEW root, NEW other,
           other.uri = root.uri, other.reading = root.reading, Known(u, v, root)
    PROVE  Known(u, v, other)'
  <1>1. CASE u = root.uri /\ v = root.reading
    BY <1>1 DEF Known
  <1>2. CASE u \in ReachedFrom(TextOf(root)) /\ v = parseCache[u] /\ v # 0
    <2>1. PICK t : t = TextOf(root)
      OBVIOUS
    <2>2. TextOf(other)' = t
      BY <2>1, TextsStay DEF TextOf
    <2>3. u \in ReachedFrom(t)'
      BY <1>2, <2>1, ReachedGrows
    <2>4. u \in ReachedFrom(TextOf(other))'
      BY <2>2, <2>3 DEF ReachedFrom
    <2>5. u \in Uris
      BY <1>2 DEF ReachedFrom
    <2>6. parseCache'[u] = v
      BY <1>2, <2>5, TextsStay
    <2>7. QED
      BY <1>2, <2>4, <2>6 DEF Known
  <1>3. QED
    BY <1>1, <1>2 DEF Known

\* Where definitions come from stays known.
LEMMA TracedGrows ==
    ASSUME Grown, NEW root, NEW other,
           other.uri = root.uri, other.reading = root.reading
    PROVE  /\ \A item : Traced(item, root) => Traced(item, other)'
           /\ \A items : AllTraced(items, root) => AllTraced(items, other)'
           /\ \A c : CallTraced(c, root) => CallTraced(c, other)'
  <1>1. ASSUME NEW item, Traced(item, root)
        PROVE  Traced(item, other)'
    <2>1. Known(item.from, item.reading, other)'
      BY <1>1, KnownGrows DEF Traced
    <2>2. Text(item.from, item.reading)' = Text(item.from, item.reading)
      BY TextsStay
    <2>3. Defined(Text(item.from, item.reading))' = Defined(Text(item.from, item.reading))
      BY <2>2 DEF Defined
    <2>4. QED
      BY <1>1, <2>1, <2>3 DEF Traced
  <1>2. \A items : AllTraced(items, root) => AllTraced(items, other)'
    BY <1>1 DEF AllTraced
  <1>3. ASSUME NEW c, CallTraced(c, root)
        PROVE  CallTraced(c, other)'
    <2>1. Known(c.uri, c.reading, other)'
      BY <1>3, KnownGrows DEF CallTraced
    <2>2. QED
      BY <1>2, <1>3, <2>1 DEF CallTraced
  <1>4. QED
    BY <1>1, <1>2, <1>3

\* What is there for a directive stays, and more files among S do no harm.
LEMMA SatisfiedGrows ==
    ASSUME Grown, NEW S, NEW T, S \subseteq T
    PROVE  /\ \A d \in Directive : Satisfied(d, S) => Satisfied(d, T)'
           /\ \A file \in File : AllSatisfied(file, S) => AllSatisfied(file, T)'
  <1>1. ASSUME NEW d \in Directive, Satisfied(d, S)
        PROVE  Satisfied(d, T)'
    <2>1. CASE d.mode = "Full" /\ d.file # Nothing
      <3>1. d.file \in Uris
        BY <2>1 DEF Directive
      <3>2. parseCache[d.file] # 0 /\ (HeadsAt(d.file, d.save) # {} => d.file \in S)
        BY <1>1, <2>1 DEF Satisfied
      <3>3. parseCache'[d.file] # 0 /\ HeadsAt(d.file, d.save)' = HeadsAt(d.file, d.save)
        BY <3>1, <3>2, TextsStay
      <3>4. QED
        BY <3>2, <3>3 DEF Satisfied
    <2>2. CASE ~(d.mode = "Full" /\ d.file # Nothing)
      BY <2>2 DEF Satisfied
    <2>3. QED
      BY <2>1, <2>2
  <1>2. ASSUME NEW file \in File, AllSatisfied(file, S)
        PROVE  AllSatisfied(file, T)'
    <2>1. ASSUME NEW k \in DOMAIN file.frames, ~Skipped(file.frames[k])',
                 NEW i \in DOMAIN file.frames[k].imports
          PROVE  Satisfied(file.frames[k].imports[i], T)'
      <3>1. ~Skipped(file.frames[k])
        BY <2>1, TextsStay
      <3>2. Satisfied(file.frames[k].imports[i], S)
        BY <1>2, <3>1 DEF AllSatisfied
      <3>3. file.frames[k].imports[i] \in Directive
        BY ImportTyped
      <3>4. QED
        BY <1>1, <3>2, <3>3
    <2>2. QED
      BY <2>1 DEF AllSatisfied
  <1>3. QED
    BY <1>1, <1>2

\* A witness stays one.
LEMMA WholeGrows ==
    ASSUME IInv, Grown, NEW c \in Call, CallOK(c), NEW under, NEW M \in SUBSET Uris,
           WholeBy(c, M, under)
    PROVE  WholeBy(c, M, under)'
  <1> DEFINE S == M \cup under
  <1>1. ASSUME NEW v \in M
        PROVE  /\ parseCache'[v] # 0
               /\ Defined(Text(v, parseCache[v]))' \subseteq Has(c)
               /\ AllSatisfied(Text(v, parseCache[v]), S)'
    <2>1. PICK t : t = Text(v, parseCache[v])
      OBVIOUS
    <2>2. /\ v \in Uris /\ parseCache[v] # 0 /\ Defined(t) \subseteq Has(c) /\ AllSatisfied(t, S)
      BY <2>1 DEF WholeBy
    <2>3. parseCache'[v] = parseCache[v]
      BY <2>2, TextsStay
    <2>4. Text(v, parseCache[v])' = t
      BY <2>1, <2>3 DEF Grown, Text, Files
    <2>5. t \in File
      BY <2>1, <2>2, CachedText
    <2>6. AllSatisfied(t, S)'
      BY <2>2, <2>5, SatisfiedGrows
    <2>7. QED
      BY <2>2, <2>3, <2>4, <2>6 DEF AllSatisfied, Defined
  <1>2. PICK t : t = TextOf(c)
    OBVIOUS
  <1>3. TextOf(c)' = t /\ t \in File /\ c.place <= Len(t.frames)
    BY <1>2, TextsStay, FilesTyped DEF TextOf, IInv, TypeOK, CallOK, Call
  <1>4. ASSUME NEW k \in 1..c.place, ~Skipped(t.frames[k])', NEW i \in DOMAIN t.frames[k].imports,
               Arrived(c, k, i)'
        PROVE  Satisfied(t.frames[k].imports[i], S)'
    <2>1. ~Skipped(t.frames[k])
      BY <1>4, TextsStay
    <2>2. FrameOf(c)' = FrameOf(c)
      BY TextsStay DEF FrameOf
    <2>3. Arrived(c, k, i)
      BY <1>4, <2>2 DEF Arrived, IsNext
    <2>4. Satisfied(t.frames[k].imports[i], S)
      BY <1>2, <2>1, <2>3 DEF WholeBy
    <2>5. k \in DOMAIN t.frames
      BY <1>3 DEF File, Call
    <2>6. t.frames[k].imports[i] \in Directive
      BY <1>3, <2>5, ImportTyped
    <2>7. QED
      BY <2>4, <2>6, SatisfiedGrows
  <1>5. QED
    BY <1>1, <1>3, <1>4 DEF WholeBy, Has

-----------------------------------------------------------------------------
(***************************************************************************)
(* The invariant of a load under way.                                      *)
(***************************************************************************)
\* What is true of each call, with `root` the record of the root's text and `under` the files
\* that the calls up to this one are loading.
Home(c) == OwnWin(c) /\ DistinctIds(c.pool) /\ Unskipped(c)
Sound(c, root, under) ==
    /\ Home(c) /\ (settings.baseGiven => CallListed(c))
    /\ CallTraced(c, root) /\ Whole(c, under)
NInv ==
    /\ \A n \in DOMAIN stack : Sound(stack[n], stack[1], Under(n))
    /\ WaitsForNext /\ ResultWaits

\* What a step may do to the list of files.
ListGrows == \A u : Listed(u) => Listed(u)'

\* What a call has of its own stays.
LEMMA HomeStays ==
    ASSUME Grown, NEW c, Home(c)
    PROVE  Home(c)'
  <1>1. TextOf(c)' = TextOf(c) /\ FrameOf(c)' = FrameOf(c)
    BY TextsStay DEF TextOf, FrameOf
  <1>2. Skipped(FrameOf(c))' = Skipped(FrameOf(c))
    BY <1>1, TextsStay DEF Skipped
  <1>3. QED
    BY <1>1, <1>2 DEF Home, OwnWin, Unskipped

\* A call that a step does not touch stays sound.
LEMMA SoundGrows ==
    ASSUME IInv, Grown, ListGrows, NEW c \in Call, CallOK(c), NEW root, NEW other, NEW under,
           other.uri = root.uri, other.reading = root.reading, Sound(c, root, under)
    PROVE  Sound(c, other, under)'
  <1>1. Home(c)'
    BY HomeStays DEF Sound
  <1>2. (settings.baseGiven => CallListed(c))'
    BY DEF Sound, CallListed, AllListed, ListGrows, Grown
  <1>3. CallTraced(c, other)'
    BY TracedGrows DEF Sound
  <1>4. Whole(c, under)'
    BY WholeGrows DEF Sound, Whole
  <1>5. QED
    BY <1>1, <1>2, <1>3, <1>4 DEF Sound

\* The root counts by its file and version only.
LEMMA SameRoot ==
    ASSUME NEW root, NEW other, other.uri = root.uri, other.reading = root.reading
    PROVE  \A c, under : Sound(c, root, under)' => Sound(c, other, under)'
  <1>1. TextOf(other)' = TextOf(root)'
    BY DEF TextOf
  <1>2. \A u, v : Known(u, v, root)' => Known(u, v, other)'
    BY <1>1 DEF Known, ReachedFrom
  <1>3. QED
    BY <1>2 DEF Sound, CallTraced, AllTraced, Traced

\* Where the innermost call becomes another of the same file, the rest of the stack is as sound
\* as it was.
LEMMA BecomesSound ==
    ASSUME IInv, NInv, stack # <<>>, NEW e \in Call, Becomes(e),
           e.uri = Top.uri, e.reading = Top.reading, e.phase # "waiting",
           NoCallBegins, Grown, UNCHANGED collected,
           NEW root, root = stack[1], NEW under, under = Under(Len(stack)),
           Sound(e, root, under)'
    PROVE  NInv'
  <1> DEFINE last == Len(stack)
  <1>1. stack \in Seq(Call) /\ last \in DOMAIN stack /\ Top = stack[last] /\ DOMAIN stack = 1..last
    BY TopTyped DEF IInv, TypeOK
  <1>2. /\ Len(stack') = last /\ DOMAIN stack' = DOMAIN stack
        /\ stack'[last] = e /\ \A n \in DOMAIN stack : n # last => stack'[n] = stack[n]
    BY <1>1 DEF Becomes
  <1>3. UNCHANGED <<library, settings, collected, result>>
    BY DEF NoCallBegins, files
  <1>4. \A n \in DOMAIN stack : stack'[n].uri = stack[n].uri /\ stack'[n].reading = stack[n].reading
    BY <1>1, <1>2
  <1>5. \A n \in DOMAIN stack : Under(n)' = Under(n)
    <2>1. ASSUME NEW n \in DOMAIN stack PROVE {stack'[m].uri : m \in 2..n} = {stack[m].uri : m \in 2..n}
      <3>1. \A m \in 2..n : m \in DOMAIN stack
        BY <1>1
      <3>2. \A m \in 2..n : stack'[m].uri = stack[m].uri
        BY <1>4, <3>1
      <3>3. QED
        BY <3>2, Zenon
    <2>2. QED
      BY <2>1 DEF Under
  <1>6. PICK other : other = stack'[1]
    OBVIOUS
  <1>7. other.uri = root.uri /\ other.reading = root.reading
    BY <1>1, <1>4, <1>6
  <1>8. ListGrows
    BY <1>3 DEF ListGrows, Listed
  <1>9. ASSUME NEW n \in DOMAIN stack
        PROVE  Sound(stack[n], stack[1], Under(n))'
    <2>1. CASE n # last
      <3>1. PICK c \in Call : c = stack[n]
        BY <1>1
      <3>2. PICK files_under : files_under = Under(n)
        OBVIOUS
      <3>3. CallOK(c) /\ Sound(c, root, files_under)
        BY <3>1, <3>2 DEF NInv, IInv, TypeOK, CallsOK
      <3>4. Sound(c, other, files_under)'
        BY <1>7, <1>8, <3>3, SoundGrows
      <3>5. stack'[n] = c /\ Under(n)' = files_under
        BY <1>2, <1>5, <2>1, <3>1, <3>2
      <3>6. QED
        BY <1>6, <3>4, <3>5
    <2>2. CASE n = last
      <3>1. Sound(e, other, under)'
        BY <1>7, SameRoot
      <3>2. stack'[n] = e /\ Under(n)' = under
        BY <1>2, <1>5, <2>2
      <3>3. QED
        BY <1>6, <3>1, <3>2
    <2>3. QED
      BY <2>1, <2>2
  <1>10. WaitsForNext'
    <2>1. ASSUME NEW n \in DOMAIN stack, n + 1 \in DOMAIN stack, NEW i \in stack'[n].todo, IsNext(stack[n], i)'
          PROVE  FrameOf(stack[n])'.imports[i].file = stack'[n + 1].uri
      <3>1. n # last /\ stack'[n] = stack[n]
        BY <1>1, <1>2, <2>1
      <3>2. PICK c : c = stack[n]
        OBVIOUS
      <3>3. FrameOf(stack[n])' = FrameOf(c) /\ FrameOf(c)' = FrameOf(c)
        BY <3>1, <3>2, TextsStay DEF FrameOf
      <3>4. IsNext(c, i) /\ i \in c.todo
        BY <2>1, <3>1, <3>2, <3>3 DEF IsNext
      <3>5. FrameOf(c).imports[i].file = stack[n + 1].uri
        BY <2>1, <3>2, <3>4 DEF NInv, WaitsForNext
      <3>6. QED
        BY <1>4, <2>1, <3>3, <3>5
    <2>2. QED
      BY <1>2, <2>1 DEF WaitsForNext
  <1>11. ResultWaits'
    BY <1>3 DEF NInv, ResultWaits
  <1>12. QED
    BY <1>2, <1>9, <1>10, <1>11 DEF NInv

-----------------------------------------------------------------------------
(***************************************************************************)
(* Steps of a directive, which leave the definitions a call has.           *)
(***************************************************************************)
Resumes(c, e) ==
    /\ e.uri = c.uri /\ e.reading = c.reading /\ e.base = c.base /\ e.place = c.place
    /\ c.phase # "frames" /\ e.phase # "frames" /\ e.coming = {} /\ e.todo \subseteq c.todo
    /\ e.pool = c.pool /\ e.primary = c.primary /\ e.constituent \in {c.constituent, <<>>}
    /\ c.warnings \subseteq e.warnings

\* All there is to see to is what has arrived with the step.
LEMMA ResumesSound ==
    ASSUME IInv, Grown, UNCHANGED collected, NEW c \in Call, CallOK(c), NEW e \in Call, Resumes(c, e),
           NEW root, NEW under, Sound(c, root, under),
           LossFree(e.warnings) =>
               /\ c.coming = {}
               /\ \A i \in DOMAIN FrameOf(c).imports : Arrived(e, c.place, i) =>
                      Arrived(c, c.place, i) \/ Satisfied(FrameOf(c).imports[i], under)'
    PROVE  Sound(e, root, under)'
  <1>1. PICK f : f = FrameOf(c)
    OBVIOUS
  <1>2. FrameOf(e) = f /\ TextOf(e) = TextOf(c) /\ FrameOf(c) = f /\ FrameOf(c)' = f /\ FrameOf(e)' = f
    BY <1>1, TextsStay DEF Resumes, FrameOf, TextOf
  <1>3. Home(e)
    <2>1. OwnWin(e)
      BY <1>2 DEF Resumes, Sound, Home, OwnWin, Own, Ended
    <2>2. DistinctIds(e.pool)
      BY DEF Resumes, Sound, Home
    <2>3. Unskipped(e)
      BY <1>2 DEF Resumes, Sound, Home, Unskipped
    <2>4. QED
      BY <2>1, <2>2, <2>3 DEF Home
  <1>4. settings.baseGiven => CallListed(e)
    BY DEF Resumes, Sound, CallListed, AllListed
  <1>5. CallTraced(e, root)
    BY DEF Resumes, Sound, CallTraced, AllTraced
  <1>6. Whole(e, under)'
    <2>1. ASSUME LossFree(e.warnings)
          PROVE  \E M \in SUBSET Uris : WholeBy(e, M, under)'
      <3>1. LossFree(c.warnings)
        BY <2>1 DEF Resumes, LossFree
      <3>2. PICK M \in SUBSET Uris : WholeBy(c, M, under)
        BY <3>1 DEF Sound, Whole
      <3>3. WholeBy(c, M, under)'
        BY <3>2, WholeGrows
      <3>4. Has(e) = Has(c)
        BY <2>1 DEF Resumes, Has
      <3>5. \A v \in M : /\ parseCache'[v] # 0
                         /\ Defined(Text(v, parseCache[v]))' \subseteq Has(e)
                         /\ AllSatisfied(Text(v, parseCache[v]), M \cup under)'
        BY <3>3, <3>4 DEF WholeBy, Has
      <3>6. PICK t : t = TextOf(c)
        OBVIOUS
      <3>7. TextOf(c)' = t /\ TextOf(e)' = t /\ t \in File /\ c.place <= Len(t.frames) /\ e.place = c.place
        BY <3>6, <1>2, TextsStay, FilesTyped DEF TextOf, IInv, TypeOK, CallOK, Call, Resumes
      <3>8. ASSUME NEW k \in 1..c.place, ~Skipped(t.frames[k])', NEW i \in DOMAIN t.frames[k].imports,
                   Arrived(e, k, i)'
            PROVE  Satisfied(t.frames[k].imports[i], M \cup under)'
        <4>1. Arrived(e, k, i)
          BY <1>2, <3>8 DEF Arrived, IsNext
        <4>2. CASE Arrived(c, k, i)
          <5>1. Arrived(c, k, i)'
            BY <1>2, <4>2 DEF Arrived, IsNext
          <5>2. QED
            BY <3>3, <3>7, <3>8, <5>1 DEF WholeBy
        <4>3. CASE ~Arrived(c, k, i)
          <5>1. k = c.place
            BY SMTT(30), <4>3 DEF Arrived, Call
          <5>2. t.frames[k] = f
            BY <1>1, <3>6, <5>1 DEF TextOf, FrameOf
          <5>3. i \in DOMAIN f.imports /\ Arrived(e, c.place, i) /\ ~Arrived(c, c.place, i)
            BY <3>8, <4>1, <4>3, <5>1, <5>2
          <5>4. Satisfied(f.imports[i], under)'
            BY <1>2, <2>1, <5>3
          <5>5. Satisfied(f.imports[i], M \cup under)'
            BY <5>4 DEF Satisfied
          <5>6. QED
            BY <5>2, <5>5
        <4>4. QED
          BY <4>2, <4>3
      <3>9. QED
        BY <3>5, <3>7, <3>8 DEF WholeBy, Has
    <2>2. QED
      BY <2>1 DEF Whole
  <1>7. QED
    <2>1. Home(e)'
      BY <1>3, HomeStays
    <2>2. (settings.baseGiven => CallListed(e))'
      BY <1>4 DEF Grown, CallListed, AllListed, Listed
    <2>3. CallTraced(e, root)'
      BY <1>5, TracedGrows
    <2>4. QED
      BY <1>6, <2>1, <2>2, <2>3 DEF Sound

\* One directive is next, and a name finds one frame.
LEMMA NextIsOne ==
    ASSUME IInv, NEW c \in Call, CallOK(c), c.phase # "frames", NEW i, NEW j, IsNext(c, i), IsNext(c, j)
    PROVE  i = j
  <1>1. i \in c.todo /\ j \in c.todo /\ c.todo \subseteq Nat
    BY DEF IsNext, Call
  <1>2. FrameOf(c).imports[i] \in Directive /\ FrameOf(c).imports[j] \in Directive
    BY <1>1, DirectiveTyped DEF IInv, TypeOK
  <1>3. FrameOf(c).imports[i].order \in Int /\ FrameOf(c).imports[j].order \in Int
    BY <1>2 DEF Directive
  <1>4. QED
    BY <1>1, <1>3 DEF IsNext

\* A name finds one frame of a file.
LEMMA FoundIsOne ==
    ASSUME NEW file \in File, NEW name, NEW j, NEW k, Finds(file, name, j), Finds(file, name, k)
    PROVE  j = k
  <1>1. j \in DOMAIN file.frames /\ k \in DOMAIN file.frames /\ DOMAIN file.frames \subseteq Nat \ {0}
    BY DEF Finds, File
  <1>2. ~(j \in 1..k-1) /\ ~(k \in 1..j-1)
    BY DEF Finds
  <1>3. QED
    BY <1>1, <1>2

\* A directive passed by, or the rest left, with a warning.
LEMMA PassResumes ==
    ASSUME NEW c \in Call, c.phase # "frames", c.coming = {}, NEW kinds \in SUBSET Kinds, NEW i,
           NEW e \in {Pass(Warn(c, kinds), i), GiveUp(Warn(c, kinds))}
    PROVE  /\ Resumes(c, e) /\ e.phase = "directives"
           /\ e = Pass(Warn(c, kinds), i) => e.todo = c.todo \ {i}
           /\ \A kind \in kinds : kind \in Losses => ~LossFree(e.warnings)
  <1> DEFINE b == Warn(c, kinds)
  <1>1. b \in Call /\ b = [c EXCEPT !.warnings = b.warnings]
    BY WarnTyped
  <1>2. b.warnings = c.warnings \cup {[kind |-> k, at |-> c.uri] : k \in kinds}
    BY DEF Warn, Call
  <1> HIDE DEF b
  <1>3. /\ b.uri = c.uri /\ b.reading = c.reading /\ b.base = c.base /\ b.place = c.place
        /\ b.todo = c.todo /\ b.coming = {} /\ b.pool = c.pool /\ b.primary = c.primary
        /\ b.constituent = c.constituent
    BY <1>1 DEF Call
  <1>4. e \in {[b EXCEPT !.phase = "directives", !.todo = @ \ {i}],
               [b EXCEPT !.phase = "directives", !.todo = {}]}
    BY DEF Pass, GiveUp, b
  <1>5. /\ e.uri = c.uri /\ e.reading = c.reading /\ e.base = c.base /\ e.place = c.place
        /\ e.phase = "directives" /\ e.todo \in {c.todo \ {i}, {}} /\ e.coming = {} /\ e.pool = c.pool
        /\ e.primary = c.primary /\ e.constituent = c.constituent /\ e.warnings = b.warnings
    <2>1. PICK todo \in {c.todo \ {i}, {}} : e = [b EXCEPT !.phase = "directives", !.todo = todo]
      BY <1>3, <1>4
    <2>2. /\ e.uri = b.uri /\ e.reading = b.reading /\ e.base = b.base /\ e.place = b.place
          /\ e.phase = "directives" /\ e.todo = todo /\ e.coming = b.coming /\ e.pool = b.pool
          /\ e.primary = b.primary /\ e.constituent = b.constituent /\ e.warnings = b.warnings
      BY <1>1, <2>1 DEF Call
    <2>3. QED
      BY <1>3, <2>2
  <1>6. e = Pass(b, i) => e.todo = c.todo \ {i}
    BY <1>1, <1>3 DEF Pass, Call
  <1>7. ASSUME NEW kind \in kinds, kind \in Losses
        PROVE  ~LossFree(e.warnings)
    <2>1. [kind |-> kind, at |-> c.uri] \in e.warnings
      BY <1>2, <1>5, <1>7
    <2>2. QED
      BY <1>7, <2>1 DEF LossFree
  <1>8. Resumes(c, e)
    BY <1>2, <1>5 DEF Resumes
  <1>9. QED
    BY <1>5, <1>6, <1>7, <1>8 DEF b

\* The innermost call, with what it may rely on.
LEMMA TopSound ==
    ASSUME IInv, NInv, stack # <<>>
    PROVE  /\ Top \in Call /\ CallOK(Top) /\ Top = stack[Len(stack)] /\ Top.phase # "waiting"
           /\ Sound(Top, stack[1], Under(Len(stack)))
  <1>1. Len(stack) \in DOMAIN stack /\ Top \in Call /\ CallOK(Top) /\ Top.phase # "waiting" /\ Top = stack[Len(stack)]
    BY TopTyped DEF IInv
  <1>2. QED
    BY <1>1 DEF NInv

\* A step after which the innermost call resumes.
LEMMA ResumeStep ==
    ASSUME IInv, NInv, Kept, NoCallBegins, stack # <<>>,
           NEW e \in Call, Becomes(e), Resumes(Top, e), e.phase # "waiting",
           NEW f, f = FrameOf(Top),
           LossFree(e.warnings) =>
               /\ Top.coming = {}
               /\ \A i \in DOMAIN f.imports : Arrived(e, Top.place, i) =>
                      Arrived(Top, Top.place, i) \/ Satisfied(f.imports[i], loading)'
    PROVE  NInv'
  <1>1. PICK c : c = Top
    OBVIOUS
  <1>2. PICK root : root = stack[1]
    OBVIOUS
  <1>3. PICK under : under = Under(Len(stack))
    OBVIOUS
  <1>4. c \in Call /\ CallOK(c) /\ Sound(c, root, under) /\ Resumes(c, e)
    BY <1>1, <1>2, <1>3, TopSound
  <1>5. Grown /\ UNCHANGED collected /\ loading' = loading
    BY GrownByStep DEF NoCallBegins, files
  <1>6. loading = under
    BY <1>3 DEF Under, IInv, TypeOK, LoadingIsTheStack
  <1>7. f = FrameOf(c) /\ FrameOf(c)' = FrameOf(c)
    BY <1>1, <1>5, TextsStay DEF FrameOf
  <1>8. ASSUME LossFree(e.warnings)
        PROVE  /\ c.coming = {}
               /\ \A i \in DOMAIN FrameOf(c).imports : Arrived(e, c.place, i) =>
                      Arrived(c, c.place, i) \/ Satisfied(FrameOf(c).imports[i], under)'
    <2>1. \A i \in DOMAIN f.imports : Arrived(e, c.place, i) =>
              Arrived(c, c.place, i) \/ Satisfied(f.imports[i], under)'
      BY <1>1, <1>5, <1>6, <1>8
    <2>2. QED
      BY <1>1, <1>7, <1>8, <2>1 DEF Satisfied
  <1>9. Sound(e, root, under)'
    BY <1>4, <1>5, <1>8, ResumesSound
  <1>10. QED
    BY <1>1, <1>2, <1>3, <1>4, <1>5, <1>9, BecomesSound DEF Resumes

\* A directive that fails: the step itself is a loss, or what is asked for is under way.
LEMMA LossResumes ==
    ASSUME IInv, NInv, Kept, NoCallBegins, stack # <<>>, Top.phase = "directives",
           NEW kinds \in SUBSET Kinds, NEW i,
           NEW e \in {Pass(Warn(Top, kinds), i), GiveUp(Warn(Top, kinds))}, Becomes(e),
           \E kind \in kinds : kind \in Losses
    PROVE  NInv'
  <1>1. Top \in Call /\ CallOK(Top) /\ Top.coming = {}
    BY TopSound DEF CallOK
  <1>2. PICK c \in Call : c = Top
    BY <1>1
  <1>3. e \in {Pass(Warn(c, kinds), i), GiveUp(Warn(c, kinds))} /\ c.phase # "frames" /\ c.coming = {}
    BY <1>1, <1>2
  <1>4. Resumes(c, e) /\ e.phase = "directives" /\ ~LossFree(e.warnings)
    BY <1>3, PassResumes
  <1>5. e \in Call
    BY <1>1, <1>2, <1>3, PassFollows DEF Follows, Works
  <1>6. PICK f : f = FrameOf(Top)
    OBVIOUS
  <1>7. QED
    BY <1>2, <1>4, <1>5, <1>6, ResumeStep

\* A directive that says too little is a loss.
LEMMA SkipSound ==
    ASSUME IInv, NInv, NEW i, SkipDirective(i)
    PROVE  NInv'
  <1>1. /\ stack # <<>> /\ Top.phase = "directives" /\ NoCallBegins /\ NothingRead
        /\ Becomes(Pass(Warn(Top, {"unusable"}), i))
    BY DEF SkipDirective, In
  <1>2. {"unusable"} \in SUBSET Kinds /\ "unusable" \in Losses
    BY DEF Kinds, Losses
  <1>3. Kept
    BY <1>1, KeepsCaches
  <1>4. PICK e : e = Pass(Warn(Top, {"unusable"}), i)
    OBVIOUS
  <1>5. QED
    BY <1>1, <1>2, <1>3, <1>4, LossResumes

\* So is one that finds nothing,
LEMMA MissSound ==
    ASSUME IInv, NInv, NEW i, MissTarget(i)
    PROVE  NInv'
  <1> DEFINE d == FrameOf(Top).imports[i]
  <1>1. /\ stack # <<>> /\ Top.phase = "directives" /\ NoCallBegins /\ IsNext(Top, i) /\ Usable(d)
        /\ Remember(d.file) /\ Becomes(Missed(Top, i, "missing"))
    BY DEF MissTarget, In
  <1>2. d.file \in Uris
    BY <1>1, AtDirective DEF IInv, Usable, Directive
  <1>3. Kept
    BY <1>1, <1>2, KeepsCaches
  <1>4. /\ {"missing"} \in SUBSET Kinds /\ {"missing", "aborted"} \in SUBSET Kinds
        /\ "missing" \in Losses
    BY DEF Kinds, Losses
  <1>5. PICK e : e = Missed(Top, i, "missing")
    OBVIOUS
  <1>6. \/ e = Pass(Warn(Top, {"missing"}), i)
        \/ e = GiveUp(Warn(Top, {"missing", "aborted"}))
    BY <1>5 DEF Missed
  <1>7. QED
    BY <1>1, <1>3, <1>4, <1>5, <1>6, LossResumes

\* or a whole dictionary that is not wanted.
LEMMA BlockSound ==
    ASSUME IInv, NInv, NEW i, NEW k, BlockConstituent(i, k)
    PROVE  NInv'
  <1> DEFINE d == FrameOf(Top).imports[i]
  <1>1. /\ stack # <<>> /\ Top.phase = "directives" /\ NoCallBegins /\ Target(i, k)
        /\ Remember(d.file) /\ Becomes(Pass(Warn(Top, {"blocked"}), i))
    BY DEF BlockConstituent, Target, In
  <1>2. d.file \in Uris
    BY <1>1, TargetTyped DEF IInv
  <1>3. Kept
    BY <1>1, <1>2, KeepsCaches
  <1>4. {"blocked"} \in SUBSET Kinds /\ "blocked" \in Losses
    BY DEF Kinds, Losses
  <1>5. PICK e : e = Pass(Warn(Top, {"blocked"}), i)
    OBVIOUS
  <1>6. QED
    BY <1>1, <1>3, <1>4, <1>5, LossResumes

\* What a step that looks for a frame has read.
LEMMA ReadTarget ==
    ASSUME IInv, NEW i, NEW k, Target(i, k), NEW d, d = FrameOf(Top).imports[i], Remember(d.file),
           UNCHANGED <<library, settings>>
    PROVE  /\ d \in Directive /\ d.file \in Uris /\ d.file # Nothing /\ Kept /\ Grown
           /\ parseCache'[d.file] # 0 /\ sourceCache'[d.file] = parseCache'[d.file]
           /\ Text(d.file, parseCache[d.file])' \in File
           /\ TargetFrame(i, k) = Text(d.file, parseCache[d.file])'.frames[k]
           /\ Finds(Text(d.file, parseCache[d.file])', d.save, k)
  <1>1. d = FrameOf(Top).imports[i]
    OBVIOUS
  <1>2. /\ d \in Directive /\ d.file \in Uris
        /\ Parsed(d.file) \in DOMAIN Files[d.file]
    BY <1>1, TargetTyped DEF IInv
  <1>3. Kept
    BY <1>1, <1>2, KeepsCaches
  <1>4. Grown
    BY <1>3, GrownByStep
  <1>5. parseCache'[d.file] = Parsed(d.file)
    BY <1>1, <1>2 DEF Remember, IInv, TypeOK
  <1>6. Files[d.file] \in Seq(File)
    BY <1>2, FilesTyped DEF IInv, TypeOK
  <1>7. Parsed(d.file) # 0
    BY <1>2, <1>6
  <1>8. PICK t : t = Text(d.file, Parsed(d.file))
    OBVIOUS
  <1>9. t \in File
    BY <1>2, <1>8, FilesTyped DEF IInv, TypeOK
  <1>10. Text(d.file, parseCache[d.file])' = t
    BY <1>5, <1>8 DEF Text, Files
  <1>11. Finds(t, d.save, k) /\ TargetFrame(i, k) = t.frames[k]
    BY <1>1, <1>7, <1>8 DEF Target, UsablePlaces, Places, TargetFrame
  <1>12. sourceCache'[d.file] = parseCache'[d.file]
    BY <1>2, <1>3 DEF Kept, CachesAgree
  <1>13. d.file # Nothing
    BY <1>2, LoaderAssumption
  <1>14. QED
    BY <1>1, <1>2, <1>3, <1>4, <1>5, <1>7, <1>9, <1>10, <1>11, <1>12, <1>13

\* One that is circular is no loss: its file is under way.
LEMMA RefuseSound ==
    ASSUME IInv, NInv, NEW i, NEW k, RefuseConstituent(i, k)
    PROVE  NInv'
  <1>1. PICK f : f = FrameOf(Top)
    OBVIOUS
  <1>2. PICK d : d = f.imports[i]
    OBVIOUS
  <1>3. PICK kind : kind = IF d.file \in loading THEN "circular" ELSE "missing"
    OBVIOUS
  <1>4. /\ stack # <<>> /\ Top.phase = "directives" /\ NoCallBegins /\ Target(i, k) /\ IsNext(Top, i)
        /\ Remember(d.file) /\ Becomes(Missed(Top, i, kind))
    BY <1>1, <1>2, <1>3 DEF RefuseConstituent, Target, In
  <1>5. /\ d.file # Nothing /\ Kept /\ parseCache'[d.file] # 0
    BY <1>1, <1>2, <1>4, ReadTarget DEF NoCallBegins, files
  <1>6. /\ {kind} \in SUBSET Kinds /\ {kind, "aborted"} \in SUBSET Kinds
        /\ "missing" \in Losses /\ "aborted" \in Losses
    BY <1>3 DEF Kinds, Losses
  <1>7. PICK e : e = Missed(Top, i, kind)
    OBVIOUS
  <1>8. CASE e = GiveUp(Warn(Top, {kind, "aborted"}))
    BY <1>4, <1>5, <1>6, <1>7, <1>8, LossResumes
  <1>9. CASE e = Pass(Warn(Top, {kind}), i) /\ kind = "missing"
    BY <1>4, <1>5, <1>6, <1>7, <1>9, LossResumes
  <1>10. CASE e = Pass(Warn(Top, {kind}), i) /\ kind # "missing"
    <2>1. d.file \in loading
      BY <1>3, <1>10
    <2>2. Top \in Call /\ CallOK(Top) /\ Top.coming = {}
      BY <1>4, TopSound DEF CallOK
    <2>3. PICK c \in Call : c = Top
      BY <2>2
    <2>4. Resumes(c, e) /\ e.phase = "directives" /\ e.todo = c.todo \ {i}
      BY <1>4, <1>6, <1>10, <2>2, <2>3, PassResumes
    <2>5. e \in Call
      BY <1>4, <1>6, <1>10, <2>2, PassFollows DEF Follows, Works
    <2>6. ASSUME NEW j \in DOMAIN f.imports, Arrived(e, Top.place, j)
          PROVE  Arrived(Top, Top.place, j) \/ Satisfied(f.imports[j], loading)'
      <3>1. e.place = Top.place /\ Top.place \in Nat
        BY <2>3, <2>4 DEF Resumes, Call
      <3>2. j \notin Top.todo \/ j = i
        BY <2>3, <2>4, <2>6, <3>1 DEF Arrived
      <3>3. Satisfied(d, loading)'
        BY <1>4, <1>5, <2>1 DEF Satisfied, NoCallBegins
      <3>4. QED
        BY <1>2, <3>2, <3>3 DEF Arrived
    <2>7. QED
      BY <1>1, <1>4, <1>5, <1>7, <2>2, <2>3, <2>4, <2>5, <2>6, ResumeStep
  <1>11. QED
    BY <1>7, <1>8, <1>9, <1>10 DEF Missed

\* A step makes one call of the innermost.
LEMMA BecomesOne ==
    ASSUME TypeOK, stack # <<>>, NEW a, NEW b, Becomes(a), Becomes(b)
    PROVE  a = b
  <1>1. Len(stack) \in DOMAIN stack
    BY TopTyped
  <1>2. stack'[Len(stack)] = a /\ stack'[Len(stack)] = b
    BY <1>1 DEF Becomes
  <1>3. QED
    BY <1>2

\* A frame of tags is there: nothing else was asked for.
LEMMA TakeSound ==
    ASSUME IInv, NInv, NEW i, NEW k, TakeFrame(i, k)
    PROVE  NInv'
  <1>1. PICK f : f = FrameOf(Top)
    OBVIOUS
  <1>2. PICK d : d = f.imports[i]
    OBVIOUS
  <1>3. PICK tags : tags = TargetFrame(i, k).tags
    OBVIOUS
  <1>4. /\ stack # <<>> /\ Top.phase = "directives" /\ NoCallBegins /\ Target(i, k) /\ IsNext(Top, i)
        /\ Remember(d.file) /\ ~IsConstituent(i, k)
        /\ Becomes([Top EXCEPT !.phase = "tags", !.merging = tags])
    BY <1>1, <1>2, <1>3 DEF TakeFrame, Target, In
  <1>5. PICK c \in Call : c = Top /\ CallOK(c) /\ c.coming = {} /\ c.place \in Nat
    BY <1>4, TopSound DEF CallOK, Call
  <1>6. PICK e : Follows(Top, e) /\ Becomes(e)
    BY <1>4, FoundFollows DEF IInv
  <1>7. e = [c EXCEPT !.phase = "tags", !.merging = tags] /\ e \in Call
    BY <1>4, <1>5, <1>6, BecomesOne DEF IInv, Follows, Works
  <1>8. /\ e.uri = c.uri /\ e.reading = c.reading /\ e.base = c.base /\ e.place = c.place
        /\ e.phase = "tags" /\ e.todo = c.todo /\ e.coming = {} /\ e.pool = c.pool
        /\ e.primary = c.primary /\ e.constituent = c.constituent /\ e.warnings = c.warnings
    BY <1>5, <1>7 DEF Call
  <1>9. Resumes(Top, e)
    BY <1>4, <1>5, <1>8 DEF Resumes
  <1>10. Kept /\ Satisfied(d, loading)'
    <2>1. UNCHANGED <<library, settings>>
      BY <1>4 DEF NoCallBegins, files
    <2>2. PICK t : t = Text(d.file, parseCache[d.file])'
      BY SMTT(30)
    <2>3. /\ Kept /\ parseCache'[d.file] # 0 /\ t \in File
          /\ TargetFrame(i, k) = t.frames[k] /\ Finds(t, d.save, k)
      BY <1>1, <1>2, <1>4, <2>1, <2>2, ReadTarget
    <2>4. ASSUME d.mode = "Full", NEW j \in HeadsAt(d.file, d.save)'
          PROVE  FALSE
      <3>1. Finds(t, d.save, j) /\ t.frames[j].class = "Head"
        BY <2>2, <2>4 DEF HeadsAt
      <3>2. j = k
        BY <2>3, <3>1, FoundIsOne
      <3>3. QED
        BY <1>1, <1>2, <1>4, <2>3, <2>4, <3>1, <3>2 DEF IsConstituent
    <2>5. QED
      BY <2>3, <2>4 DEF Satisfied
  <1>11. ASSUME NEW j \in DOMAIN f.imports, Arrived(e, Top.place, j)
         PROVE  Arrived(Top, Top.place, j) \/ Satisfied(f.imports[j], loading)'
    <2>1. j \notin c.todo \/ IsNext(e, j)
      BY SMTT(30), <1>5, <1>8, <1>11 DEF Arrived
    <2>2. IsNext(e, j) => IsNext(c, j)
      BY <1>8 DEF IsNext, FrameOf
    <2>3. IsNext(c, j) => j = i
      BY <1>4, <1>5, NextIsOne
    <2>4. QED
      BY <1>2, <1>5, <1>10, <2>1, <2>2, <2>3 DEF Arrived
  <1>12. QED
    BY <1>1, <1>4, <1>5, <1>6, <1>7, <1>8, <1>9, <1>10, <1>11, ResumeStep

\* A tag is merged, and a directive is done: what it asked for was there before.
LEMMA MergeTagSound ==
    ASSUME IInv, NInv, NEW i, MergeTag(i)
    PROVE  NInv'
  <1>1. /\ stack # <<>> /\ Top.phase = "tags" /\ NoCallBegins /\ NothingRead /\ IsNext(Top, i)
    BY DEF MergeTag, In
  <1>2. Kept
    BY <1>1, KeepsCaches
  <1>3. PICK c \in Call : c = Top /\ CallOK(c) /\ c.coming = {} /\ c.place \in Nat
    BY <1>1, TopSound DEF CallOK, Call
  <1>4. PICK e : Follows(Top, e) /\ Becomes(e)
    BY MergeTagFollows DEF IInv
  <1>5. e \in Call
    BY <1>4 DEF Follows, Works
  <1>6. PICK f : f = FrameOf(Top)
    OBVIOUS
  <1>7. PICK b : b = [c EXCEPT !.merging = <<>>]
    OBVIOUS
  <1>8. \/ Becomes(GiveUp(Warn(b, {"conflict"})))
        \/ \E merging, data : Becomes([c EXCEPT !.merging = merging, !.data = data])
    <2> DEFINE d == FrameOf(Top).imports[i]
               m == Head(Top.merging)
               file == Text(d.file, parseCache[d.file])
               base == IF d.dupl = "Replace" /\ m.tag \in DOMAIN Top.data
                       THEN Without(Top.data, LoopMates(file, m.tag)) ELSE Top.data
               data == IF m.tag \in DOMAIN Top.data /\ d.dupl = "Ignore" THEN Top.data
                       ELSE With(base, m.tag, m.value)
               rest == Tail(Top.merging)
    <2>1. \/ Becomes(GiveUp(Warn([Top EXCEPT !.merging = <<>>], {"conflict"})))
          \/ Becomes([Top EXCEPT !.merging = rest, !.data = data])
      BY Zenon DEF MergeTag
    <2> HIDE DEF data, rest
    <2>2. QED
      BY <1>3, <1>7, <2>1
  <1>9. CASE Becomes(GiveUp(Warn(b, {"conflict"})))
    <2>1. {"conflict"} \in SUBSET Kinds /\ "conflict" \in Losses
      BY DEF Kinds, Losses
    <2>2. e = GiveUp(Warn(b, {"conflict"}))
      BY <1>1, <1>4, <1>9, BecomesOne DEF IInv
    <2>3. b \in Call /\ b.coming = {} /\ b.phase = c.phase
      BY <1>1, <1>3, <1>7, Lightened
    <2>4. Resumes(b, e) /\ ~LossFree(e.warnings) /\ e.phase = "directives"
      BY <1>1, <1>3, <2>1, <2>2, <2>3, PassResumes
    <2>5. Resumes(Top, e)
      <3>1. /\ b.uri = c.uri /\ b.reading = c.reading /\ b.base = c.base /\ b.place = c.place
            /\ b.todo = c.todo /\ b.pool = c.pool /\ b.primary = c.primary
            /\ b.constituent = c.constituent /\ b.warnings = c.warnings
        BY <1>7 DEF Call
      <3>2. QED
        BY <1>1, <1>3, <2>3, <2>4, <3>1 DEF Resumes
    <2>6. QED
      BY <1>1, <1>2, <1>4, <1>5, <1>6, <2>4, <2>5, ResumeStep
  <1>10. ASSUME NEW merging, NEW data, Becomes([c EXCEPT !.merging = merging, !.data = data])
         PROVE  NInv'
    <2>1. e = [c EXCEPT !.merging = merging, !.data = data]
      BY <1>1, <1>4, <1>10, BecomesOne DEF IInv
    <2>2. /\ e.uri = c.uri /\ e.reading = c.reading /\ e.base = c.base /\ e.place = c.place
          /\ e.phase = "tags" /\ e.todo = c.todo /\ e.coming = {} /\ e.pool = c.pool
          /\ e.primary = c.primary /\ e.constituent = c.constituent /\ e.warnings = c.warnings
      BY <1>1, <1>3, <2>1 DEF Call
    <2>3. Resumes(Top, e)
      BY <1>1, <1>3, <2>2 DEF Resumes
    <2>4. ASSUME NEW j \in DOMAIN f.imports, Arrived(e, Top.place, j)
          PROVE  Arrived(Top, Top.place, j)
      <3>1. IsNext(e, j) => IsNext(c, j)
        BY <2>2 DEF IsNext, FrameOf
      <3>2. QED
        BY SMTT(30), <1>1, <1>3, <2>2, <2>4, <3>1 DEF Arrived
    <2>5. QED
      BY <1>1, <1>2, <1>3, <1>4, <1>5, <1>6, <2>2, <2>3, <2>4, ResumeStep
  <1>11. QED
    BY <1>8, <1>9, <1>10

\* A directive that is done lets go of what it brought, all of which is in the pool.
LEMMA FinishSound ==
    ASSUME IInv, NInv, NEW i, FinishDirective(i)
    PROVE  NInv'
  <1>1. /\ stack # <<>> /\ Top.phase \in {"tags", "items"} /\ NoCallBegins /\ NothingRead /\ IsNext(Top, i)
        /\ Becomes(Pass([Top EXCEPT !.constituent = <<>>], i))
    BY DEF FinishDirective, In
  <1>2. Kept
    BY <1>1, KeepsCaches
  <1>3. PICK c \in Call : c = Top /\ CallOK(c) /\ c.coming = {} /\ c.place \in Nat
    <2>1. Top \in Call /\ CallOK(Top)
      BY <1>1, TopSound
    <2>2. QED
      BY <2>1 DEF FinishDirective, In, CallOK, Call
  <1>4. PICK e : Follows(Top, e) /\ Becomes(e)
    BY FinishFollows DEF IInv
  <1>5. e \in Call
    BY <1>4 DEF Follows, Works
  <1>6. PICK f : f = FrameOf(Top)
    OBVIOUS
  <1>7. e = Pass([c EXCEPT !.constituent = <<>>], i)
    BY <1>1, <1>3, <1>4, BecomesOne DEF IInv
  <1>8. /\ e.uri = c.uri /\ e.reading = c.reading /\ e.base = c.base /\ e.place = c.place
        /\ e.phase = "directives" /\ e.todo = c.todo \ {i} /\ e.coming = {} /\ e.pool = c.pool
        /\ e.primary = c.primary /\ e.constituent = <<>> /\ e.warnings = c.warnings
    BY <1>3, <1>7 DEF Pass, Call
  <1>9. Resumes(Top, e)
    BY <1>1, <1>3, <1>8 DEF Resumes
  <1>10. ASSUME NEW j \in DOMAIN f.imports, Arrived(e, Top.place, j)
         PROVE  Arrived(Top, Top.place, j)
    BY <1>1, <1>3, <1>8, <1>10 DEF Arrived
  <1>11. QED
    BY <1>1, <1>2, <1>3, <1>4, <1>5, <1>6, <1>8, <1>9, <1>10, ResumeStep

-----------------------------------------------------------------------------
(***************************************************************************)
(* Steps from frame to frame, and those that move definitions.             *)
(***************************************************************************)
LEMMA StepSound ==
    ASSUME IInv, NInv, NothingRead, NoCallBegins, stack # <<>>,
           NEW e, Works(Top, e), Becomes(e), Sound(e, stack[1], Under(Len(stack)))
    PROVE  NInv'
  <1>1. PICK root : root = stack[1]
    OBVIOUS
  <1>2. PICK under : under = Under(Len(stack))
    OBVIOUS
  <1>3. e \in Call /\ CallOK(e) /\ Sound(e, root, under)
    BY <1>1, <1>2 DEF Works
  <1>4. Kept
    BY KeepsCaches
  <1>5. UNCHANGED <<library, settings, collected>>
    BY DEF NoCallBegins, files
  <1>6. Grown /\ ListGrows
    BY <1>4, <1>5, GrownByStep DEF ListGrows, Listed
  <1>7. Sound(e, root, under)'
    BY <1>3, <1>6, SoundGrows
  <1>8. QED
    BY <1>1, <1>2, <1>3, <1>5, <1>6, <1>7, BecomesSound DEF Works

\* A frame begins, none of its directives done.
LEMMA BeginSound ==
    ASSUME IInv, NInv, BeginFrame
    PROVE  NInv'
  <1>1. /\ stack # <<>> /\ Top.phase = "frames" /\ NoCallBegins /\ NothingRead
        /\ Top.place < Len(TextOf(Top).frames)
    BY DEF BeginFrame, In, TextOf
  <1>2. PICK c \in Call : c = Top
    BY <1>1, TopSound
  <1>3. CallOK(c) /\ c.coming = {} /\ c.place \in Nat /\ Sound(c, stack[1], Under(Len(stack))) /\ c.phase = "frames"
    BY <1>1, <1>2, TopSound DEF CallOK, Call
  <1>4. PICK e : Follows(Top, e) /\ Becomes(e)
    BY BeginFrameFollows DEF IInv
  <1>5. PICK t : t = TextOf(c)
    OBVIOUS
  <1>6. t \in File
    BY <1>3, <1>5, FilesTyped DEF TextOf, IInv, TypeOK, CallOK, Call
  <1>7. c.place + 1 \in DOMAIN t.frames /\ Len(t.frames) \in Nat /\ c.place < Len(t.frames)
    BY <1>1, <1>2, <1>3, <1>5, <1>6 DEF File
  <1>8. PICK f : f = t.frames[c.place + 1]
    OBVIOUS
  <1>9. PICK todo : todo = IF Skipped(f) THEN {} ELSE DOMAIN f.imports
    OBVIOUS
  <1>10. PICK data : data = OwnData(f)
    OBVIOUS
  <1>11. e = [c EXCEPT !.place = @ + 1, !.phase = "directives", !.data = data, !.todo = todo]
    <2>1. Becomes([c EXCEPT !.place = @ + 1, !.phase = "directives", !.data = data, !.todo = todo])
      BY <1>2, <1>5, <1>8, <1>9, <1>10 DEF BeginFrame, TextOf
    <2>2. QED
      BY <1>1, <1>4, <2>1, BecomesOne DEF IInv
  <1>12. /\ e.uri = c.uri /\ e.reading = c.reading /\ e.base = c.base /\ e.place = c.place + 1
         /\ e.phase = "directives" /\ e.todo = todo /\ e.coming = {} /\ e.pool = c.pool
         /\ e.primary = c.primary /\ e.constituent = c.constituent /\ e.warnings = c.warnings
    BY <1>3, <1>11 DEF Call
  <1>13. TextOf(e) = t /\ FrameOf(e) = f
    BY <1>5, <1>8, <1>12 DEF TextOf, FrameOf
  <1>14. OwnWin(e)
    <2>1. Ended(e) = Ended(c)
      BY <1>3, <1>12 DEF Ended
    <2>2. c.place # Len(t.frames)
      BY <1>3, <1>7
    <2>3. QED
      BY <1>3, <1>5, <1>12, <1>13, <2>1, <2>2 DEF Sound, Home, OwnWin, Own
  <1>15. DistinctIds(e.pool) /\ Unskipped(e)
    BY <1>3, <1>9, <1>12, <1>13 DEF Sound, Home, Unskipped
  <1>16. settings.baseGiven => CallListed(e)
    BY <1>3, <1>12 DEF Sound, CallListed
  <1>17. CallTraced(e, stack[1])
    BY <1>3, <1>12 DEF Sound, CallTraced
  <1>18. Whole(e, Under(Len(stack)))
    <2>1. PICK under : under = Under(Len(stack))
      OBVIOUS
    <2>2. Has(e) = Has(c)
      BY <1>3, <1>12 DEF Has
    <2>3. ASSUME LossFree(e.warnings)
          PROVE  \E M \in SUBSET Uris : WholeBy(e, M, under)
      <3>1. PICK M \in SUBSET Uris : WholeBy(c, M, under)
        BY <1>3, <1>12, <2>1, <2>3 DEF Sound, Whole
      <3>2. ASSUME NEW k \in 1..e.place, ~Skipped(t.frames[k]), NEW i \in DOMAIN t.frames[k].imports,
                   Arrived(e, k, i)
            PROVE  Satisfied(t.frames[k].imports[i], M \cup under)
        <4>1. CASE k \in 1..c.place
          BY <1>3, <1>5, <3>1, <3>2, <4>1 DEF WholeBy, Arrived
        <4>2. CASE k = c.place + 1
          <5>1. i \in todo
            BY <1>8, <1>9, <3>2, <4>2
          <5>2. QED
            BY <1>3, <1>12, <3>2, <4>2, <5>1 DEF Arrived
        <4>3. QED
          BY <1>3, <1>12, <4>1, <4>2
      <3>3. WholeBy(e, M, under)
        BY <1>13, <2>2, <3>1, <3>2 DEF WholeBy
      <3>4. QED
        BY <3>3
    <2>4. QED
      BY <2>1, <2>3 DEF Whole
  <1>19. Sound(e, stack[1], Under(Len(stack)))
    BY <1>14, <1>15, <1>16, <1>17, <1>18 DEF Sound, Home
  <1>20. QED
    BY <1>1, <1>4, <1>19, StepSound DEF Follows

\* A frame ends, and the call has what it defines.
LEMMA EndSound ==
    ASSUME IInv, NInv, EndFrame
    PROVE  NInv'
  <1>1. stack # <<>> /\ Top.phase = "directives" /\ Top.todo = {} /\ NoCallBegins /\ NothingRead
    BY DEF EndFrame, In
  <1>2. PICK c \in Call : c = Top
    BY <1>1, TopSound
  <1>3. /\ CallOK(c) /\ c.coming = {} /\ c.place \in Nat \ {0} /\ c.phase = "directives" /\ c.todo = {}
        /\ Sound(c, stack[1], Under(Len(stack)))
    BY <1>1, <1>2, TopSound DEF CallOK, Call
  <1>4. PICK e : Works(Top, e) /\ Becomes(e)
    BY EndFrameWorks DEF IInv
  <1>5. PICK t : t = TextOf(c)
    OBVIOUS
  <1>6. PICK f : f = FrameOf(c)
    OBVIOUS
  <1>7. t \in File /\ f = t.frames[c.place] /\ c.place \in DOMAIN t.frames
    <2>1. t \in File
      BY <1>3, <1>5, FilesTyped DEF TextOf, IInv, TypeOK, CallOK, Call
    <2>2. f = t.frames[c.place]
      BY <1>5, <1>6 DEF TextOf, FrameOf
    <2>3. c.place \in 1..Len(t.frames)
      BY <1>3, <1>5 DEF TextOf, CallOK
    <2>4. QED
      BY <2>1, <2>2, <2>3 DEF File
  <1>8. PICK o : o = [c EXCEPT !.phase = "frames"]
    OBVIOUS
  <1>9. PICK w : w = Warn(o, Unextracted(f))
    OBVIOUS
  <1>10. PICK item : item = ItemOf(c, f)
    OBVIOUS
  <1>11. o \in Call /\ w \in Call /\ w = [o EXCEPT !.warnings = w.warnings] /\ c.warnings \subseteq w.warnings
    <2>1. Unextracted(f) \in SUBSET Kinds /\ "frames" \in Phases
      BY DEF Unextracted, Kinds, Phases
    <2>2. o \in Call /\ o.warnings = c.warnings
      BY <1>8, <2>1 DEF Call
    <2>3. w \in Call /\ w = [o EXCEPT !.warnings = w.warnings]
      BY <1>9, <2>1, <2>2, WarnTyped
    <2>4. o.warnings \subseteq w.warnings
      BY <1>9, <2>2 DEF Warn, Call
    <2>5. QED
      BY <2>2, <2>3, <2>4
  <1>12. /\ w.uri = c.uri /\ w.reading = c.reading /\ w.base = c.base /\ w.place = c.place
         /\ w.phase = "frames" /\ w.todo = {} /\ w.coming = {} /\ w.pool = c.pool
         /\ w.primary = c.primary /\ w.constituent = c.constituent
    BY <1>3, <1>8, <1>11 DEF Call
  <1>13. e = IF Extracted(f) THEN [w EXCEPT !.primary = Append(@, item)] ELSE w
    <2>1. Becomes(IF Extracted(f) THEN [w EXCEPT !.primary = Append(@, item)] ELSE w)
      BY <1>2, <1>6, <1>8, <1>9, <1>10 DEF EndFrame
    <2>2. QED
      BY <1>1, <1>4, <2>1, BecomesOne DEF IInv
  <1>14. /\ e.uri = c.uri /\ e.reading = c.reading /\ e.base = c.base /\ e.place = c.place
         /\ e.phase = "frames" /\ e.todo = {} /\ e.coming = {} /\ e.pool = c.pool
         /\ e.constituent = c.constituent /\ c.warnings \subseteq e.warnings
         /\ e.primary = IF Extracted(f) THEN Append(c.primary, item) ELSE c.primary
    BY <1>11, <1>12, <1>13 DEF Call
  <1>15. /\ \A k \in DOMAIN e.primary : (k \in DOMAIN c.primary /\ e.primary[k] = c.primary[k])
                                        \/ (Extracted(f) /\ e.primary[k] = item)
         /\ \A k \in DOMAIN c.primary : k \in DOMAIN e.primary /\ e.primary[k] = c.primary[k]
         /\ Extracted(f) => \E k \in DOMAIN e.primary : e.primary[k] = item
    <2>1. PICK p \in Seq(Item) : p = c.primary
      BY DEF Call
    <2>2. PICK T : T = Item \cup {item}
      OBVIOUS
    <2>3. p \in Seq(T) /\ item \in T
      BY <2>2
    <2>4. PICK q : q = Append(p, item)
      OBVIOUS
    <2>5. /\ DOMAIN q = DOMAIN p \cup {Len(p) + 1} /\ q[Len(p) + 1] = item
          /\ \A k \in DOMAIN p : q[k] = p[k]
      BY <2>3, <2>4
    <2>6. e.primary = IF Extracted(f) THEN q ELSE p
      BY <1>14, <2>1, <2>4
    <2>7. QED
      BY <2>1, <2>5, <2>6
  <1>16. TextOf(e) = t
    BY <1>5, <1>14 DEF TextOf
  <1>17. item.id = f.id /\ item.source = c.base /\ item.from = c.uri /\ item.reading = c.reading
    BY <1>10 DEF ItemOf
  <1>18. OwnWin(e)
    <2>1. \A k \in DOMAIN e.primary : Own(e.primary[k], e)
      BY <1>3, <1>14, <1>15, <1>17 DEF Sound, Home, OwnWin, Own
    <2>2. ASSUME NEW k \in Ended(e), Extracted(t.frames[k])
          PROVE  Holds(e.primary, t.frames[k].id)
      <3>1. CASE k = c.place
        BY <1>7, <1>15, <1>17, <2>2, <3>1 DEF Holds
      <3>2. CASE k # c.place
        <4>1. k \in Ended(c)
          BY <1>3, <1>14, <3>2 DEF Ended
        <4>2. Holds(c.primary, t.frames[k].id)
          BY <1>3, <1>5, <2>2, <4>1 DEF Sound, Home, OwnWin
        <4>3. QED
          BY <1>15, <4>2 DEF Holds
      <3>3. QED
        BY <3>1, <3>2
    <2>3. QED
      BY <1>16, <2>1, <2>2 DEF OwnWin
  <1>19. DistinctIds(e.pool) /\ Unskipped(e)
    BY <1>3, <1>14 DEF Sound, Home, Unskipped
  <1>20. settings.baseGiven => CallListed(e)
    BY <1>3, <1>14, <1>15, <1>17 DEF Sound, CallListed, AllListed
  <1>21. CallTraced(e, stack[1])
    <2>1. Extracted(f) => Traced(item, stack[1])
      <3>1. Extracted(f) => f.id \in Defined(t)
        BY <1>7 DEF Defined
      <3>2. QED
        BY <1>3, <1>5, <1>17, <3>1 DEF Sound, CallTraced, Traced, TextOf
    <2>2. AllTraced(e.primary, stack[1])
      BY <1>3, <1>15, <2>1 DEF Sound, CallTraced, AllTraced
    <2>3. QED
      BY <1>3, <1>14, <2>2 DEF Sound, CallTraced
  <1>22. Whole(e, Under(Len(stack)))
    <2>1. PICK under : under = Under(Len(stack))
      OBVIOUS
    <2>2. Has(e) = Has(c)
      BY <1>3, <1>14 DEF Has
    <2>3. ASSUME LossFree(e.warnings)
          PROVE  \E M \in SUBSET Uris : WholeBy(e, M, under)
      <3>1. LossFree(c.warnings)
        BY <1>14, <2>3 DEF LossFree
      <3>2. PICK M \in SUBSET Uris : WholeBy(c, M, under)
        BY <1>3, <2>1, <3>1 DEF Sound, Whole
      <3>3. \A k, i : Arrived(c, k, i)
        BY <1>3 DEF Arrived
      <3>4. WholeBy(e, M, under)
        BY <1>5, <1>14, <1>16, <2>2, <3>2, <3>3 DEF WholeBy
      <3>5. QED
        BY <3>4
    <2>4. QED
      BY <2>1, <2>3 DEF Whole
  <1>23. Sound(e, stack[1], Under(Len(stack)))
    BY <1>18, <1>19, <1>20, <1>21, <1>22 DEF Sound, Home
  <1>24. QED
    BY <1>1, <1>4, <1>23, StepSound

\* One of a file's own definitions is laid over the pool.
LEMMA OverlaySound ==
    ASSUME IInv, NInv, Overlay
    PROVE  NInv'
  <1>1. /\ stack # <<>> /\ Top.phase = "frames" /\ NoCallBegins /\ NothingRead /\ Top.primary # <<>>
        /\ Top.place = Len(TextOf(Top).frames)
    BY DEF Overlay, AllRead, In, TextOf
  <1>2. PICK c \in Call : c = Top
    BY <1>1, TopSound
  <1>3. /\ CallOK(c) /\ c.coming = {} /\ c.phase = "frames" /\ c.primary # <<>>
        /\ Sound(c, stack[1], Under(Len(stack))) /\ c.place = Len(TextOf(c).frames)
    BY <1>1, <1>2, TopSound DEF CallOK
  <1>4. PICK e : Works(Top, e) /\ Becomes(e)
    BY OverlayWorks DEF IInv
  <1>5. PICK own \in Seq(Item) : own = c.primary
    BY DEF Call
  <1>6. PICK rest : rest = Tail(own)
    OBVIOUS
  <1>7. PICK item : item = Head(own)
    OBVIOUS
  <1>8. /\ item \in Item /\ \A k \in DOMAIN rest : k + 1 \in DOMAIN own /\ rest[k] = own[k + 1]
        /\ \A k \in DOMAIN own : own[k] = item \/ (k - 1 \in DOMAIN rest /\ rest[k - 1] = own[k])
        /\ 1 \in DOMAIN own /\ own[1] = item
    BY <1>3, <1>5, <1>6, <1>7
  <1>9. PICK items \in Seq(Item) : items = c.pool
    BY DEF Call
  <1>10. PICK pool : pool = Put(items, item)
    OBVIOUS
  <1>11. /\ Ids(pool) = Ids(items) \cup {item.id}
         /\ \A k \in DOMAIN pool : pool[k].id = item.id => pool[k] = item
         /\ DistinctIds(items) => DistinctIds(pool)
         /\ \A k \in DOMAIN pool : pool[k] = item \/ (k \in DOMAIN items /\ pool[k] = items[k])
    <2>1. item \in Item
      BY <1>8
    <2>2. /\ Ids(pool) = Ids(items) \cup {item.id}
          /\ \A k \in DOMAIN pool : pool[k].id = item.id => pool[k] = item
          /\ DistinctIds(items) => DistinctIds(pool)
      BY <1>10, <2>1, PutNames
    <2>3. \A k \in DOMAIN pool : pool[k] = item \/ (k \in DOMAIN items /\ pool[k] = items[k])
      BY <1>10, <2>1, PutTyped
    <2>4. QED
      BY <2>2, <2>3
  <1>12. e = [c EXCEPT !.primary = rest, !.pool = pool]
    <2>1. Becomes([c EXCEPT !.primary = rest, !.pool = pool])
      BY <1>2, <1>5, <1>6, <1>7, <1>9, <1>10 DEF Overlay
    <2>2. QED
      BY <1>1, <1>4, <2>1, BecomesOne DEF IInv
  <1>13. /\ e.uri = c.uri /\ e.reading = c.reading /\ e.base = c.base /\ e.place = c.place
         /\ e.phase = "frames" /\ e.todo = c.todo /\ e.coming = {} /\ e.pool = pool
         /\ e.primary = rest /\ e.constituent = c.constituent /\ e.warnings = c.warnings
    BY <1>3, <1>12 DEF Call
  <1>14. PICK t : t = TextOf(c)
    OBVIOUS
  <1>15. TextOf(e) = t
    BY <1>13, <1>14 DEF TextOf
  <1>16. OwnWin(e)
    <2>1. Own(item, e) /\ \A k \in DOMAIN rest : Own(rest[k], e)
      BY <1>3, <1>5, <1>8, <1>13 DEF Sound, Home, OwnWin, Own
    <2>2. ASSUME NEW k \in Ended(e), Extracted(t.frames[k])
          PROVE  \/ Holds(rest, t.frames[k].id)
                 \/ /\ Holds(pool, t.frames[k].id)
                    /\ \A m \in DOMAIN pool : pool[m].id = t.frames[k].id => Own(pool[m], e)
      <3>1. PICK id : id = t.frames[k].id
        OBVIOUS
      <3>2. k \in Ended(c)
        BY <1>3, <1>13, <2>2 DEF Ended
      <3>3. \/ Holds(own, id)
            \/ /\ Holds(items, id)
               /\ \A m \in DOMAIN items : items[m].id = id => Own(items[m], e)
        BY <1>3, <1>5, <1>9, <1>13, <1>14, <2>2, <3>1, <3>2 DEF Sound, Home, OwnWin, Own
      <3>4. CASE id = item.id
        <4>1. id \in Ids(pool)
          BY <1>11, <3>4
        <4>2. QED
          BY <1>11, <2>1, <3>1, <3>4, <4>1 DEF Holds, Ids
      <3>5. CASE id # item.id /\ Holds(own, id)
        BY <1>8, <3>1, <3>5 DEF Holds
      <3>6. CASE id # item.id /\ ~Holds(own, id)
        <4>1. id \in Ids(pool)
          BY <1>11, <3>3, <3>6 DEF Holds, Ids
        <4>2. \A m \in DOMAIN pool : pool[m].id = id => Own(pool[m], e)
          BY <1>11, <3>3, <3>6
        <4>3. QED
          BY <3>1, <4>1, <4>2 DEF Holds, Ids
      <3>7. QED
        BY <3>4, <3>5, <3>6
    <2>3. e.place = Len(t.frames)
      BY <1>3, <1>13, <1>14
    <2>4. QED
      BY <1>13, <1>15, <2>1, <2>2, <2>3 DEF OwnWin
  <1>17. DistinctIds(e.pool) /\ Unskipped(e)
    BY <1>3, <1>9, <1>11, <1>13 DEF Sound, Home, Unskipped
  <1>18. settings.baseGiven => CallListed(e)
    <2>1. settings.baseGiven => AllListed(items) /\ AllListed(own) /\ Listed(c.base) /\ AllListed(c.constituent)
      BY <1>3, <1>5, <1>9 DEF Sound, CallListed
    <2>2. settings.baseGiven => AllListed(pool) /\ AllListed(rest)
      BY <1>8, <1>11, <2>1 DEF AllListed
    <2>3. QED
      BY <1>13, <2>1, <2>2 DEF CallListed
  <1>19. CallTraced(e, stack[1])
    <2>1. AllTraced(items, stack[1]) /\ AllTraced(own, stack[1])
      BY <1>3, <1>5, <1>9 DEF Sound, CallTraced
    <2>2. AllTraced(pool, stack[1]) /\ AllTraced(rest, stack[1])
      BY <1>8, <1>11, <2>1 DEF AllTraced
    <2>3. QED
      BY <1>3, <1>13, <2>2 DEF Sound, CallTraced
  <1>20. Whole(e, Under(Len(stack)))
    <2>1. PICK under : under = Under(Len(stack))
      OBVIOUS
    <2>2. Has(c) \subseteq Has(e)
      BY <1>3, <1>9, <1>11, <1>13 DEF Has
    <2>3. ASSUME LossFree(e.warnings)
          PROVE  \E M \in SUBSET Uris : WholeBy(e, M, under)
      <3>1. PICK M \in SUBSET Uris : WholeBy(c, M, under)
        BY <1>3, <1>13, <2>1, <2>3 DEF Sound, Whole
      <3>2. \A k, i : Arrived(c, k, i)
        BY <1>3 DEF Arrived
      <3>3. \A v \in M : /\ parseCache[v] # 0
                         /\ Defined(Text(v, parseCache[v])) \subseteq Has(e)
                         /\ AllSatisfied(Text(v, parseCache[v]), M \cup under)
        BY <2>2, <3>1 DEF WholeBy
      <3>4. WholeBy(e, M, under)
        BY <1>13, <1>14, <1>15, <3>1, <3>2, <3>3 DEF WholeBy
      <3>5. QED
        BY <3>4
    <2>4. QED
      BY <2>1, <2>3 DEF Whole
  <1>21. Sound(e, stack[1], Under(Len(stack)))
    BY <1>16, <1>17, <1>18, <1>19, <1>20 DEF Sound, Home
  <1>22. QED
    BY <1>1, <1>4, <1>21, StepSound

\* One of a constituent's definitions joins the pool, or a conflict ends the directive.
LEMMA MergeItemSound ==
    ASSUME IInv, NInv, NEW i, NEW n \in Top.coming, MergeItem(i, n)
    PROVE  NInv'
  <1>1. stack # <<>> /\ Top.phase = "items" /\ NoCallBegins /\ NothingRead /\ IsNext(Top, i)
    BY DEF MergeItem, In
  <1>2. PICK c \in Call : c = Top
    BY <1>1, TopSound
  <1>3. /\ CallOK(c) /\ c.phase = "items" /\ n \in c.coming /\ c.coming \subseteq DOMAIN c.constituent
        /\ Sound(c, stack[1], Under(Len(stack)))
    BY <1>1, <1>2, TopSound DEF CallOK
  <1>4. PICK e : Works(Top, e) /\ Becomes(e)
    BY MergeItemWorks DEF IInv
  <1>5. PICK item \in Item : item = c.constituent[n]
    BY <1>3 DEF Call
  <1>6. PICK items \in Seq(Item) : items = c.pool
    BY DEF Call
  <1>7. PICK pool : pool = e.pool
    OBVIOUS
  <1>8. PICK b : b = [c EXCEPT !.coming = {}, !.constituent = <<>>]
    OBVIOUS
  <1>9. \/ Becomes(GiveUp(Warn(b, {"conflict"})))
        \/ \E new : /\ new = Put(items, item) \/ (new = items /\ Holds(items, item.id))
                    /\ Becomes([c EXCEPT !.coming = @ \ {n}, !.pool = new])
    BY <1>2, <1>5, <1>6, <1>8 DEF MergeItem
  <1>10. CASE Becomes(GiveUp(Warn(b, {"conflict"})))
    <2>1. {"conflict"} \in SUBSET Kinds /\ "conflict" \in Losses
      BY DEF Kinds, Losses
    <2>2. e = GiveUp(Warn(b, {"conflict"}))
      BY <1>1, <1>4, <1>10, BecomesOne DEF IInv
    <2>3. b \in Call /\ b.coming = {} /\ b.phase = c.phase
      <3>1. CallOK(c) /\ c.phase # "frames"
        BY <1>3
      <3>2. QED
        BY ZenonT(30), <1>8, <3>1, Lightened
    <2>4. Resumes(b, e) /\ ~LossFree(e.warnings) /\ e.phase = "directives"
      BY <1>3, <2>1, <2>2, <2>3, PassResumes
    <2>5. Resumes(Top, e)
      <3>1. /\ b.uri = c.uri /\ b.reading = c.reading /\ b.base = c.base /\ b.place = c.place
            /\ b.todo = c.todo /\ b.pool = c.pool /\ b.primary = c.primary
            /\ b.constituent = <<>> /\ b.warnings = c.warnings
        BY <1>8 DEF Call
      <3>2. QED
        BY <1>1, <1>2, <2>3, <2>4, <3>1 DEF Resumes
    <2>6. Kept
      BY <1>1, KeepsCaches
    <2>7. PICK f : f = FrameOf(Top)
      OBVIOUS
    <2>8. QED
      BY <1>1, <1>4, <2>4, <2>5, <2>6, <2>7, ResumeStep DEF Works
  <1>11. ASSUME NEW new, new = Put(items, item) \/ (new = items /\ Holds(items, item.id)),
                Becomes([c EXCEPT !.coming = @ \ {n}, !.pool = new])
         PROVE  NInv'
    <2>1. e = [c EXCEPT !.coming = @ \ {n}, !.pool = new]
      BY <1>1, <1>4, <1>11, BecomesOne DEF IInv
    <2>2. /\ e.uri = c.uri /\ e.reading = c.reading /\ e.base = c.base /\ e.place = c.place
          /\ e.phase = "items" /\ e.todo = c.todo /\ e.coming = c.coming \ {n} /\ e.pool = new
          /\ e.primary = c.primary /\ e.constituent = c.constituent /\ e.warnings = c.warnings
      BY <1>3, <2>1 DEF Call
    <2>3. /\ Ids(new) = Ids(items) \cup {item.id} /\ (DistinctIds(items) => DistinctIds(new))
          /\ \A k \in DOMAIN new : new[k] = item \/ (k \in DOMAIN items /\ new[k] = items[k])
      <3>1. CASE new = Put(items, item)
        <4>1. Ids(new) = Ids(items) \cup {item.id} /\ (DistinctIds(items) => DistinctIds(new))
          BY <3>1, PutNames
        <4>2. \A k \in DOMAIN new : new[k] = item \/ (k \in DOMAIN items /\ new[k] = items[k])
          BY <3>1, PutTyped
        <4>3. QED
          BY <4>1, <4>2
      <3>2. CASE new = items /\ Holds(items, item.id)
        <4>1. item.id \in Ids(items)
          BY <3>2 DEF Holds, Ids
        <4>2. QED
          BY <3>2, <4>1
      <3>3. QED
        BY <1>11, <3>1, <3>2
    <2>4. PICK t : t = TextOf(c)
      OBVIOUS
    <2>5. TextOf(e) = t /\ FrameOf(e) = FrameOf(c)
      BY <2>2, <2>4 DEF TextOf, FrameOf
    <2>6. OwnWin(e)
      BY <1>3, <2>2, <2>4, <2>5 DEF Sound, Home, OwnWin, Own, Ended
    <2>7. DistinctIds(e.pool) /\ Unskipped(e)
      BY <1>3, <1>6, <2>2, <2>3, <2>5 DEF Sound, Home, Unskipped
    <2>8. settings.baseGiven => CallListed(e)
      <3>1. settings.baseGiven => AllListed(items) /\ Listed(item.source)
        BY <1>3, <1>5, <1>6 DEF Sound, CallListed, AllListed
      <3>2. settings.baseGiven => AllListed(new)
        BY <2>3, <3>1 DEF AllListed
      <3>3. QED
        BY <1>3, <2>2, <3>2 DEF Sound, CallListed
    <2>9. CallTraced(e, stack[1])
      <3>1. AllTraced(items, stack[1]) /\ Traced(item, stack[1])
        BY <1>3, <1>5, <1>6 DEF Sound, CallTraced, AllTraced
      <3>2. AllTraced(new, stack[1])
        BY <2>3, <3>1 DEF AllTraced
      <3>3. QED
        BY <1>3, <2>2, <3>2 DEF Sound, CallTraced
    <2>10. Whole(e, Under(Len(stack)))
      <3>1. PICK under : under = Under(Len(stack))
        OBVIOUS
      <3>2. Has(c) \subseteq Has(e)
        BY <1>3, <1>5, <1>6, <2>2, <2>3 DEF Has
      <3>3. ASSUME LossFree(e.warnings)
            PROVE  \E M \in SUBSET Uris : WholeBy(e, M, under)
        <4>1. PICK M \in SUBSET Uris : WholeBy(c, M, under)
          BY <1>3, <2>2, <3>1, <3>3 DEF Sound, Whole
        <4>2. \A k, j : Arrived(e, k, j) => Arrived(c, k, j)
          BY <1>3, <2>2, <2>5 DEF Arrived, IsNext
        <4>3. \A v \in M : /\ parseCache[v] # 0
                           /\ Defined(Text(v, parseCache[v])) \subseteq Has(e)
                           /\ AllSatisfied(Text(v, parseCache[v]), M \cup under)
          BY <3>2, <4>1 DEF WholeBy
        <4>4. WholeBy(e, M, under)
          BY <2>2, <2>4, <2>5, <4>1, <4>2, <4>3 DEF WholeBy
        <4>5. QED
          BY <4>4
      <3>4. QED
        BY <3>1, <3>3 DEF Whole
    <2>11. Sound(e, stack[1], Under(Len(stack)))
      BY <2>6, <2>7, <2>8, <2>9, <2>10 DEF Sound, Home
    <2>12. QED
      BY <1>1, <1>4, <2>11, StepSound
  <1>12. QED
    BY <1>9, <1>10, <1>11

-----------------------------------------------------------------------------
(***************************************************************************)
(* Calls that begin.                                                       *)
(***************************************************************************)
\* The files a text leads to are closed under imports of heads.
LEMMA ReachedIsClosed ==
    \A file :
        /\ Constituents(file) \subseteq ReachedFrom(file)
        /\ \A w \in ReachedFrom(file) : parseCache[w] # 0 =>
               Constituents(Text(w, parseCache[w])) \subseteq ReachedFrom(file)
  <1>1. ASSUME NEW file
        PROVE  Constituents(file) \subseteq Uris /\ Constituents(file) \subseteq ReachedFrom(file)
    BY DEF ReachedFrom, Constituents
  <1>2. ASSUME NEW file, NEW w \in ReachedFrom(file), parseCache[w] # 0,
               NEW u \in Constituents(Text(w, parseCache[w]))
        PROVE  u \in ReachedFrom(file)
    <2>1. u \in Uris
      BY <1>1
    <2>2. PICK C : C = Constituents(Text(w, parseCache[w]))
      OBVIOUS
    <2>3. ASSUME NEW S \in SUBSET Uris, Constituents(file) \subseteq S,
                 \A v \in S : parseCache[v] # 0 => Constituents(Text(v, parseCache[v])) \subseteq S
          PROVE  u \in S
      <3>1. w \in S
        BY <1>2, <2>3 DEF ReachedFrom
      <3>2. QED
        BY <1>2, <2>3, <3>1
    <2>4. QED
      BY <2>1, <2>3 DEF ReachedFrom
  <1>3. QED
    BY <1>1, <1>2

\* A call begins with nothing, and nothing is wrong with that.
LEMMA NewCallSound ==
    ASSUME NEW u, NEW base, NEW v, NEW call, call = NewCall(u, base, v), NEW root, NEW under,
           Known(u, v, root)', settings'.baseGiven => Listed(base)'
    PROVE  Sound(call, root, under)'
  <1>1. /\ call.uri = u /\ call.reading = v /\ call.base = base /\ call.phase = "frames"
        /\ call.place = 0 /\ call.pool = <<>> /\ call.primary = <<>> /\ call.constituent = <<>>
    BY DEF NewCall
  <1>2. DOMAIN call.pool = {} /\ DOMAIN call.primary = {} /\ DOMAIN call.constituent = {} /\ 1..0 = {}
    BY <1>1
  <1>3. Home(call)'
    BY <1>1, <1>2 DEF Home, OwnWin, Ended, DistinctIds, Unskipped
  <1>4. (settings.baseGiven => CallListed(call))'
    BY <1>1, <1>2 DEF CallListed, AllListed
  <1>5. CallTraced(call, root)'
    BY <1>1, <1>2 DEF CallTraced, AllTraced
  <1>6. Whole(call, under)'
    <2>1. \A k \in 1..call.place : FALSE
      BY <1>1
    <2>2. WholeBy(call, {}, under)'
      BY <2>1 DEF WholeBy
    <2>3. QED
      BY <2>2 DEF Whole
  <1>7. QED
    BY <1>3, <1>4, <1>5, <1>6 DEF Sound

\* A constituent's call begins, and the call below it waits.
LEMMA EnterSound ==
    ASSUME IInv, NInv, NEW i, NEW k, EnterConstituent(i, k)
    PROVE  NInv'
  <1>1. PICK d : d = FrameOf(Top).imports[i]
    OBVIOUS
  <1>2. PICK u : u = d.file
    OBVIOUS
  <1>3. PICK v : v = Source(u)
    OBVIOUS
  <1>4. PICK call : call = NewCall(u, u, v)
    OBVIOUS
  <1>5. /\ stack # <<>> /\ Top.phase = "directives" /\ Target(i, k) /\ IsNext(Top, i)
        /\ IsConstituent(i, k) /\ Remember(u) /\ v # 0
        /\ stack' = Append([stack EXCEPT ![Len(stack)].phase = "waiting"], call)
        /\ collected' = IF \E n \in DOMAIN collected : collected[n] = u THEN collected
                        ELSE Append(collected, u)
        /\ UNCHANGED <<library, settings, result>>
    BY <1>1, <1>2, <1>3, <1>4 DEF EnterConstituent, Target, In, files
  <1>6. PICK t : t = Text(u, parseCache[u])'
    OBVIOUS
  <1>7. /\ d \in Directive /\ u \in Uris /\ Kept /\ Grown /\ parseCache'[u] # 0
        /\ sourceCache'[u] = parseCache'[u] /\ t \in File
        /\ TargetFrame(i, k) = t.frames[k] /\ Finds(t, d.save, k)
    BY <1>1, <1>2, <1>5, <1>6, ReadTarget
  <1>8. d.mode = "Full" /\ t.frames[k].class = "Head"
    BY <1>1, <1>5, <1>7 DEF IsConstituent
  <1>9. parseCache'[u] = v
    BY <1>3, <1>5, <1>7 DEF Remember, Source, IInv, TypeOK, CachesAgree
  <1>10. PICK last : last = Len(stack)
    OBVIOUS
  <1>11. PICK c \in Call : c = Top /\ CallOK(c) /\ c = stack[last] /\ c.phase = "directives" /\ c.coming = {}
    BY <1>5, <1>10, TopSound DEF CallOK
  <1>12. PICK root : root = stack[1]
    OBVIOUS
  <1>13. PICK under : under = Under(last)
    OBVIOUS
  <1>14. Sound(c, root, under) /\ i \in c.todo /\ d = FrameOf(c).imports[i]
    BY <1>1, <1>5, <1>10, <1>11, <1>12, <1>13, TopSound DEF IsNext
  <1>15. PICK held : held = [c EXCEPT !.phase = "waiting"]
    OBVIOUS
  <1>16. /\ held \in Call /\ held.uri = c.uri /\ held.reading = c.reading /\ held.place = c.place
         /\ held.phase = "waiting" /\ held.todo = c.todo /\ held.coming = c.coming
         /\ held.base = c.base /\ held.warnings = c.warnings
         /\ held.pool = c.pool /\ held.primary = c.primary /\ held.constituent = c.constituent
    <2>1. "waiting" \in Phases
      BY DEF Phases
    <2>2. QED
      BY <1>15, <2>1 DEF Call
  <1>17. CallOK(held)
    BY <1>11, <1>16, SameFrame
  <1>18. /\ stack \in Seq(Call) /\ last \in Nat /\ last >= 1 /\ DOMAIN stack = 1..last
         /\ DOMAIN stack' = 1..last + 1 /\ stack'[last] = held /\ stack'[last + 1] = call
         /\ \A n \in 1..last : n # last => stack'[n] = stack[n]
    <2>1. stack \in Seq(Call) /\ last \in DOMAIN stack
      BY <1>5, <1>10, TopTyped DEF IInv, TypeOK
    <2>2. PICK T : T = Call \cup {held, call}
      OBVIOUS
    <2>3. PICK waiting : waiting = [stack EXCEPT ![last] = held]
      OBVIOUS
    <2>4. [stack EXCEPT ![Len(stack)].phase = "waiting"] = waiting
      BY <1>10, <1>11, <1>15, <2>3
    <2>5. /\ waiting \in Seq(T) /\ call \in T /\ Len(waiting) = last /\ DOMAIN waiting = DOMAIN stack
          /\ waiting[last] = held /\ \A n \in DOMAIN stack : n # last => waiting[n] = stack[n]
      BY <1>10, <2>1, <2>2, <2>3
    <2>6. stack' = Append(waiting, call)
      BY <1>5, <2>4
    <2>7. QED
      BY <1>10, <2>1, <2>5, <2>6
  <1>19. \A n \in 1..last : stack'[n].uri = stack[n].uri /\ stack'[n].reading = stack[n].reading
    BY <1>11, <1>16, <1>18
  <1>20. ListGrows /\ Listed(u)'
    <2>1. collected \in Seq(Uris)
      BY DEF IInv, TypeOK
    <2>2. CASE \E n \in DOMAIN collected : collected[n] = u
      BY <1>5, <2>2 DEF ListGrows, Listed
    <2>3. CASE ~\E n \in DOMAIN collected : collected[n] = u
      <3>1. collected' = Append(collected, u)
        BY <1>5, <2>3
      <3>2. /\ DOMAIN collected' = DOMAIN collected \cup {Len(collected) + 1}
            /\ \A n \in DOMAIN collected : collected'[n] = collected[n]
            /\ collected'[Len(collected) + 1] = u
        BY <1>7, <2>1, <3>1
      <3>3. QED
        BY <3>2 DEF ListGrows, Listed
    <2>4. QED
      BY <2>2, <2>3
  <1>21. u \in Constituents(TextOf(c))'
    <2>1. PICK file : file = TextOf(c)
      OBVIOUS
    <2>2. file \in File /\ c.place \in 1..Len(file.frames) /\ FrameOf(c) = file.frames[c.place]
      <3>1. file \in File
        BY <1>11, <2>1, FilesTyped DEF TextOf, IInv, TypeOK, CallOK, Call
      <3>2. QED
        BY <1>11, <2>1, <3>1 DEF TextOf, FrameOf, CallOK
    <2>3. c.place \in DOMAIN file.frames
      BY <2>2 DEF File
    <2>4. ~Skipped(file.frames[c.place])'
      <3>1. ~Skipped(file.frames[c.place])
        BY <1>11, <1>14, <2>2 DEF Sound, Home, Unskipped
      <3>2. QED
        BY <1>7, <3>1, TextsStay
    <2>5. i \in DOMAIN file.frames[c.place].imports /\ d = file.frames[c.place].imports[i]
      BY <1>11, <1>14, <2>2 DEF CallOK
    <2>6. k \in HeadsAt(u, d.save)'
      BY SMTT(30), <1>6, <1>7, <1>8 DEF HeadsAt, Finds
    <2>7. u \in Constituents(file)'
      BY <1>2, <1>7, <1>8, <2>3, <2>4, <2>5, <2>6 DEF Constituents
    <2>8. TextOf(c)' = file
      BY <1>7, <2>1, TextsStay DEF TextOf
    <2>9. QED
      BY <2>7, <2>8 DEF Constituents
  <1>22. Known(u, v, root)'
    <2>1. Known(c.uri, c.reading, root)'
      BY <1>7, <1>14, KnownGrows DEF Sound, CallTraced
    <2>2. (\A file :
              /\ Constituents(file) \subseteq ReachedFrom(file)
              /\ \A w \in ReachedFrom(file) : parseCache[w] # 0 =>
                     Constituents(Text(w, parseCache[w])) \subseteq ReachedFrom(file))'
      BY ReachedIsClosed, PTL
    <2>3. PICK C : C = Constituents(TextOf(c))'
      OBVIOUS
    <2>4. PICK R : R = ReachedFrom(TextOf(root))'
      OBVIOUS
    <2>5. Constituents(TextOf(root))' \subseteq R
      BY <2>2, <2>4
    <2>6. \A w \in R : parseCache'[w] # 0 => Constituents(Text(w, parseCache[w]))' \subseteq R
      BY <2>2, <2>4
    <2>7. CASE c.uri = root.uri /\ c.reading = root.reading
      <3>1. TextOf(c) = TextOf(root)
        BY <2>7 DEF TextOf
      <3>2. TextOf(c)' = TextOf(root)'
        BY <2>7 DEF TextOf
      <3>3. C = Constituents(TextOf(root))'
        BY <2>3, <3>2 DEF Constituents
      <3>4. QED
        BY <1>7, <1>9, <1>21, <2>3, <2>4, <2>5, <3>3 DEF Known
    <2>8. CASE c.uri \in R /\ c.reading = parseCache'[c.uri] /\ c.reading # 0
      <3>1. TextOf(c)' = Text(c.uri, parseCache[c.uri])'
        BY SMTT(30), <2>8 DEF TextOf, Text
      <3>2. C = Constituents(Text(c.uri, parseCache[c.uri]))'
        BY <2>3, <3>1 DEF Constituents
      <3>3. QED
        BY <1>7, <1>9, <1>21, <2>3, <2>4, <2>6, <2>8, <3>2 DEF Known
    <2>9. QED
      BY <2>1, <2>4, <2>7, <2>8 DEF Known
  <1>23. Sound(held, root, under)
    <2>1. FrameOf(held) = FrameOf(c) /\ TextOf(held) = TextOf(c)
      BY <1>16 DEF FrameOf, TextOf
    <2>2. Home(held)
      BY <1>11, <1>14, <1>16, <2>1 DEF Sound, Home, OwnWin, Own, Ended, Unskipped
    <2>3. settings.baseGiven => CallListed(held)
      BY <1>14, <1>16 DEF Sound, CallListed
    <2>4. CallTraced(held, root)
      BY <1>14, <1>16 DEF Sound, CallTraced
    <2>5. Has(held) = Has(c)
      BY <1>16 DEF Has
    <2>6. \A m, j : Arrived(held, m, j) => Arrived(c, m, j)
      BY <1>16 DEF Arrived
    <2>7. ASSUME NEW M \in SUBSET Uris, WholeBy(c, M, under)
          PROVE  WholeBy(held, M, under)
      BY <1>16, <2>1, <2>5, <2>6, <2>7 DEF WholeBy
    <2>8. Whole(held, under)
      BY <1>14, <1>16, <2>7 DEF Sound, Whole
    <2>9. QED
      BY <2>2, <2>3, <2>4, <2>8 DEF Sound
  <1>24. PICK other : other = stack'[1]
    OBVIOUS
  <1>25. other.uri = root.uri /\ other.reading = root.reading
    BY <1>12, <1>18, <1>19, <1>24
  <1>26. \A n \in 1..last : Under(n)' = Under(n)
    <2>1. ASSUME NEW n \in 1..last PROVE {stack'[m].uri : m \in 2..n} = {stack[m].uri : m \in 2..n}
      <3>1. \A m \in 2..n : stack'[m].uri = stack[m].uri
        BY <1>18, <1>19
      <3>2. QED
        BY <3>1, Zenon
    <2>2. QED
      BY <2>1 DEF Under
  <1>27. ASSUME NEW n \in DOMAIN stack'
         PROVE  Sound(stack[n], stack[1], Under(n))'
    <2>1. CASE n = last + 1
      <3>1. PICK above : above = Under(n)'
        OBVIOUS
      <3>2. settings'.baseGiven => Listed(u)'
        BY <1>20
      <3>3. Sound(call, root, above)'
        BY <1>4, <1>22, <3>2, NewCallSound
      <3>4. Sound(call, other, above)'
        BY <1>25, <3>3, SameRoot
      <3>5. stack'[n] = call
        BY <1>18, <2>1
      <3>6. QED
        BY <1>24, <3>1, <3>4, <3>5
    <2>2. CASE n = last
      <3>1. Sound(held, other, under)'
        BY <1>7, <1>16, <1>17, <1>20, <1>23, <1>25, SoundGrows
      <3>2. stack'[n] = held /\ Under(n)' = under
        BY <1>13, <1>18, <1>26, <2>2
      <3>3. QED
        BY <1>24, <3>1, <3>2
    <2>3. CASE n \in 1..last /\ n # last
      <3>1. PICK b \in Call : b = stack[n]
        BY <1>18, <2>3
      <3>2. PICK below : below = Under(n)
        OBVIOUS
      <3>3. n \in DOMAIN stack
        BY <1>18, <2>3
      <3>4. CallOK(b) /\ Sound(b, root, below)
        BY <1>12, <3>1, <3>2, <3>3 DEF NInv, IInv, TypeOK, CallsOK
      <3>5. Sound(b, other, below)'
        BY <1>7, <1>20, <1>25, <3>4, SoundGrows
      <3>6. stack'[n] = b /\ Under(n)' = below
        BY <1>18, <1>26, <2>3, <3>1, <3>2
      <3>7. QED
        BY <1>24, <3>5, <3>6
    <2>4. QED
      BY <1>18, <2>1, <2>2, <2>3
  <1>28. WaitsForNext'
    <2>1. ASSUME NEW n \in DOMAIN stack', n + 1 \in DOMAIN stack', NEW j \in stack'[n].todo,
                 IsNext(stack[n], j)'
          PROVE  FrameOf(stack[n])'.imports[j].file = stack'[n + 1].uri
      <3>1. PICK b : b = stack'[n]
        OBVIOUS
      <3>2. FrameOf(stack[n])' = FrameOf(b) /\ FrameOf(b)' = FrameOf(b)
        BY <1>7, <3>1, TextsStay DEF FrameOf
      <3>3. IsNext(b, j) /\ j \in b.todo
        BY <2>1, <3>1, <3>2 DEF IsNext
      <3>4. CASE n = last
        <4>1. b = held
          BY <1>18, <3>1, <3>4
        <4>2. IsNext(c, j) /\ IsNext(c, i)
          <5>1. FrameOf(held) = FrameOf(c) /\ held.todo = c.todo
            BY <1>16 DEF FrameOf
          <5>2. IsNext(held, j)
            BY <3>3, <4>1
          <5>3. IsNext(c, j)
            BY <5>1, <5>2 DEF IsNext
          <5>4. QED
            BY <1>5, <1>11, <5>3
        <4>3. j = i
          BY <1>11, <4>2, NextIsOne
        <4>4. FrameOf(b) = FrameOf(c)
          BY <1>16, <4>1 DEF FrameOf
        <4>5. stack'[n + 1] = call /\ call.uri = u
          BY <1>4, <1>18, <3>4 DEF NewCall
        <4>6. QED
          BY <1>2, <1>14, <3>2, <4>3, <4>4, <4>5
      <3>5. CASE n # last
        <4>1. n \in 1..last /\ n + 1 \in 1..last
          BY <1>18, <2>1, <3>5
        <4>2. b = stack[n]
          BY <1>18, <3>1, <3>5, <4>1
        <4>3. FrameOf(b).imports[j].file = stack[n + 1].uri
          BY <1>18, <3>3, <4>1, <4>2 DEF NInv, WaitsForNext
        <4>4. QED
          BY <1>19, <3>2, <4>1, <4>3
      <3>6. QED
        BY <3>4, <3>5
    <2>2. QED
      BY <2>1 DEF WaitsForNext
  <1>29. ResultWaits'
    BY <1>5 DEF NInv, ResultWaits
  <1>30. QED
    BY <1>27, <1>28, <1>29 DEF NInv

-----------------------------------------------------------------------------
(***************************************************************************)
(* Calls that return, and what the root's leaves.                          *)
(***************************************************************************)
\* A call that is done has all its file defines, and no other definitions of those names.
LEMMA DoneOwns ==
    ASSUME IInv, NEW c \in Call, CallOK(c), OwnWin(c),
           c.phase = "frames", c.place = Len(TextOf(c).frames), c.primary = <<>>
    PROVE  /\ Defined(TextOf(c)) \subseteq Ids(c.pool)
           /\ \A m \in DOMAIN c.pool : c.pool[m].id \in Defined(TextOf(c)) => Own(c.pool[m], c)
  <1>1. PICK t : t = TextOf(c)
    OBVIOUS
  <1>2. t \in File
    BY <1>1, FilesTyped DEF TextOf, IInv, TypeOK, CallOK, Call
  <1>3. DOMAIN t.frames = Ended(c)
    BY <1>1, <1>2 DEF File, Ended
  <1>4. \A id : ~Holds(c.primary, id)
    BY DEF Holds
  <1>5. ASSUME NEW id \in Defined(t)
        PROVE  Holds(c.pool, id) /\ \A m \in DOMAIN c.pool : c.pool[m].id = id => Own(c.pool[m], c)
    <2>1. PICK k \in DOMAIN t.frames : Extracted(t.frames[k]) /\ t.frames[k].id = id
      BY DEF Defined
    <2>2. QED
      BY <1>1, <1>3, <1>4, <2>1 DEF OwnWin
  <1>6. QED
    BY <1>1, <1>5 DEF Holds, Ids

\* With all directives of a text done or in hand, the files it imports heads of are at hand.
LEMMA SatisfiedLeads ==
    ASSUME NEW file, NEW S, AllSatisfied(file, S), Nothing \notin Uris
    PROVE  Constituents(file) \subseteq S
  <1>1. ASSUME NEW u \in Constituents(file)
        PROVE  u \in S
    <2>1. PICK k \in DOMAIN file.frames : \E i \in DOMAIN file.frames[k].imports :
            LET d == file.frames[k].imports[i] IN
            /\ ~Skipped(file.frames[k])
            /\ d.file = u /\ d.mode = "Full" /\ parseCache[u] # 0 /\ HeadsAt(u, d.save) # {}
      BY DEF Constituents
    <2>2. PICK i \in DOMAIN file.frames[k].imports :
            /\ ~Skipped(file.frames[k])
            /\ file.frames[k].imports[i].file = u /\ file.frames[k].imports[i].mode = "Full"
            /\ parseCache[u] # 0 /\ HeadsAt(u, file.frames[k].imports[i].save) # {}
      BY <2>1
    <2>3. u # Nothing
      BY DEF Constituents
    <2>4. Satisfied(file.frames[k].imports[i], S)
      BY <2>2 DEF AllSatisfied
    <2>5. QED
      BY <2>2, <2>3, <2>4 DEF Satisfied
  <1>2. QED
    BY <1>1

\* A call that is done has done all directives of its text.
LEMMA DoneSatisfied ==
    ASSUME IInv, NEW c \in Call, CallOK(c), c.phase = "frames", c.place = Len(TextOf(c).frames),
           NEW M, NEW under, WholeBy(c, M, under)
    PROVE  AllSatisfied(TextOf(c), M \cup under)
  <1>1. PICK t : t = TextOf(c)
    OBVIOUS
  <1>2. t \in File
    BY <1>1, FilesTyped DEF TextOf, IInv, TypeOK, CallOK, Call
  <1>3. DOMAIN t.frames = 1..c.place
    BY <1>1, <1>2 DEF File
  <1>4. \A k, i : Arrived(c, k, i)
    BY DEF Arrived
  <1>5. QED
    BY <1>1, <1>3, <1>4 DEF WholeBy, AllSatisfied

\* What the root's call has when it is done.
LEMMA RootIsWhole ==
    ASSUME IInv, NEW c \in Call, CallOK(c), c.phase = "frames", c.place = Len(TextOf(c).frames),
           c.primary = <<>>, Sound(c, c, {})
    PROVE  /\ LossFree(c.warnings) =>
                  Ids(c.pool) = Defined(TextOf(c)) \cup
                      UNION {Defined(Text(u, parseCache[u])) : u \in ReachedFrom(TextOf(c))}
           /\ \A k \in DOMAIN c.pool : c.pool[k].id \in Defined(TextOf(c)) => Own(c.pool[k], c)
           /\ \A k \in DOMAIN c.pool : TagToItem(c.pool, c.pool[k].id) = {k}
           /\ settings.baseGiven => AllListed(c.pool)
  <1>1. PICK t : t = TextOf(c)
    OBVIOUS
  <1>2. c.coming = {}
    BY DEF CallOK
  <1>3. /\ Defined(t) \subseteq Ids(c.pool)
        /\ \A k \in DOMAIN c.pool : c.pool[k].id \in Defined(t) => Own(c.pool[k], c)
    BY <1>1, DoneOwns DEF Sound, Home
  <1>4. ASSUME LossFree(c.warnings)
        PROVE  \A u \in ReachedFrom(t) : Defined(Text(u, parseCache[u])) \subseteq Ids(c.pool)
    <2>1. PICK M \in SUBSET Uris : WholeBy(c, M, {})
      BY <1>4 DEF Sound, Whole
    <2>2. Nothing \notin Uris
      BY LoaderAssumption
    <2>3. Constituents(t) \subseteq M
      <3>1. AllSatisfied(t, M \cup {})
        BY <1>1, <2>1, DoneSatisfied
      <3>2. QED
        BY <2>2, <3>1, SatisfiedLeads
    <2>4. ASSUME NEW v \in M
          PROVE  Constituents(Text(v, parseCache[v])) \subseteq M
      <3>1. AllSatisfied(Text(v, parseCache[v]), M \cup {})
        BY <2>1 DEF WholeBy
      <3>2. QED
        BY <2>2, <3>1, SatisfiedLeads
    <2>5. ReachedFrom(t) \subseteq M
      BY <2>3, <2>4 DEF ReachedFrom
    <2>6. Has(c) = Ids(c.pool)
      BY <1>2 DEF Has
    <2>7. QED
      BY <2>1, <2>5, <2>6 DEF WholeBy
  <1>5. \A k \in DOMAIN c.pool :
            \/ c.pool[k].id \in Defined(t)
            \/ \E u \in ReachedFrom(t) : c.pool[k].id \in Defined(Text(u, parseCache[u]))
    <2>1. ASSUME NEW k \in DOMAIN c.pool
          PROVE  \/ c.pool[k].id \in Defined(t)
                 \/ \E u \in ReachedFrom(t) : c.pool[k].id \in Defined(Text(u, parseCache[u]))
      <3>1. Traced(c.pool[k], c)
        BY DEF Sound, CallTraced, AllTraced
      <3>2. QED
        BY <1>1, <3>1 DEF Traced, Known, TextOf
    <2>2. QED
      BY <2>1
  <1>6. ASSUME NEW k \in DOMAIN c.pool
        PROVE  TagToItem(c.pool, c.pool[k].id) = {k}
    <2>1. Holds(c.pool, c.pool[k].id)
      BY DEF Holds
    <2>2. \A j \in DOMAIN c.pool : c.pool[j].id = c.pool[k].id => j = k
      BY DEF Sound, Home, DistinctIds
    <2>3. QED
      BY <2>1, <2>2 DEF TagToItem
  <1>7. LossFree(c.warnings) =>
            Ids(c.pool) = Defined(t) \cup UNION {Defined(Text(u, parseCache[u])) : u \in ReachedFrom(t)}
    <2>1. ASSUME LossFree(c.warnings), NEW id
          PROVE  id \in Ids(c.pool) <=>
                     id \in Defined(t) \/ \E u \in ReachedFrom(t) : id \in Defined(Text(u, parseCache[u]))
      <3>1. \A u \in ReachedFrom(t) : Defined(Text(u, parseCache[u])) \subseteq Ids(c.pool)
        BY <1>4, <2>1
      <3>2. QED
        BY <1>3, <1>5, <3>1 DEF Ids
    <2>2. QED
      BY <2>1
  <1>8. settings.baseGiven => AllListed(c.pool)
    BY DEF Sound, CallListed
  <1>9. QED
    BY <1>1, <1>3, <1>6, <1>7, <1>8

\* What a step leaves where the files and the parsed texts stay.
LEMMA SameTexts ==
    ASSUME UNCHANGED <<library, settings, parseCache>>
    PROVE  /\ Grown
           /\ \A u, v : Text(u, v)' = Text(u, v)
           /\ \A u : Text(u, parseCache[u])' = Text(u, parseCache[u])
           /\ \A file : Constituents(file)' = Constituents(file)
           /\ \A file : ReachedFrom(file)' = ReachedFrom(file)
  <1>1. Grown
    BY DEF Grown
  <1>2. \A u, v : Text(u, v)' = Text(u, v)
    BY DEF Text, Files
  <1>3. \A u : Text(u, parseCache[u])' = Text(u, parseCache[u])
    BY DEF Text, Files
  <1>4. \A u, name : HeadsAt(u, name)' = HeadsAt(u, name)
    BY <1>3 DEF HeadsAt
  <1>5. \A f : Skipped(f)' = Skipped(f)
    BY DEF Skipped
  <1>6. \A file : Constituents(file)' = Constituents(file)
    <2>1. ASSUME NEW file
          PROVE  Constituents(file)' = Constituents(file)
      <3> DEFINE Leads(u, k, i) ==
                     LET d == file.frames[k].imports[i] IN
                     /\ ~Skipped(file.frames[k])
                     /\ d.file = u /\ d.mode = "Full" /\ parseCache[u] # 0 /\ HeadsAt(u, d.save) # {}
      <3>1. \A u, k, i : Leads(u, k, i)' <=> Leads(u, k, i)
        BY <1>4, <1>5
      <3>2. Constituents(file) =
                {u \in Uris : \E k \in DOMAIN file.frames : \E i \in DOMAIN file.frames[k].imports : Leads(u, k, i)}
        BY DEF Constituents
      <3>3. Constituents(file)' =
                {u \in Uris : \E k \in DOMAIN file.frames : \E i \in DOMAIN file.frames[k].imports : Leads(u, k, i)'}
        BY DEF Constituents
      <3> HIDE DEF Leads
      <3>4. QED
        BY <3>1, <3>2, <3>3
    <2>2. QED
      BY <2>1
  <1>7. \A u : Constituents(Text(u, parseCache[u]))' = Constituents(Text(u, parseCache[u]))
    <2>1. ASSUME NEW u
          PROVE  Constituents(Text(u, parseCache[u]))' = Constituents(Text(u, parseCache[u]))
      <3>1. PICK t : t = Text(u, parseCache[u])
        OBVIOUS
      <3>2. Text(u, parseCache[u])' = t
        BY <1>3, <3>1
      <3>3. Constituents(Text(u, parseCache[u]))' = Constituents(t)'
        BY <3>2 DEF Constituents
      <3>4. QED
        BY <1>6, <3>1, <3>3
    <2>2. QED
      BY <2>1
  <1>8. \A file : ReachedFrom(file)' = ReachedFrom(file)
    BY <1>6, <1>7 DEF ReachedFrom
  <1>9. QED
    BY <1>1, <1>2, <1>3, <1>6, <1>8

\* A constituent's call hands its definitions to the call below it.
LEMMA ReturnSound ==
    ASSUME IInv, NInv, stack # <<>>, ReturnTop
    PROVE  NInv'
  <1>1. PICK last : last = Len(stack)
    OBVIOUS
  <1>2. PICK c \in Call : c = Top /\ CallOK(c) /\ c = stack[last] /\ c.coming = {} /\ c.phase = "frames"
                          /\ c.primary = <<>> /\ c.place = Len(TextOf(c).frames)
    <2>1. Top \in Call /\ CallOK(Top) /\ Top = stack[Len(stack)]
      BY TopSound
    <2>2. /\ Top.phase = "frames" /\ Top.primary = <<>> /\ Top.place = Len(TextOf(Top).frames)
      BY DEF ReturnTop, AllRead, In, TextOf
    <2>3. Top.coming = {}
      BY <2>1, <2>2 DEF CallOK
    <2>4. QED
      BY <1>1, <2>1, <2>2, <2>3
  <1>3. PICK root : root = stack[1]
    OBVIOUS
  <1>4. /\ stack \in Seq(Call) /\ last \in Nat /\ last >= 1 /\ DOMAIN stack = 1..last
    <2>1. stack \in Seq(Call) /\ last \in DOMAIN stack
      BY <1>1, TopTyped DEF IInv, TypeOK
    <2>2. QED
      BY <1>1, <2>1
  <1>5. UNCHANGED <<library, settings, sourceCache, parseCache, collected>>
    BY DEF ReturnTop, files
  <1>6. CASE last = 1
    <2>1. stack' = <<>>
      BY <1>1, <1>6 DEF ReturnTop
    <2>2. QED
      BY <2>1 DEF NInv, WaitsForNext, ResultWaits
  <1>7. CASE last # 1
    <2>1. PICK n \in Nat : n = last - 1 /\ n >= 1 /\ n \in 1..last /\ n # last /\ last = n + 1 /\ last \in 2..last
      BY <1>4, <1>7
    <2>2. PICK b \in Call : b = stack[n]
      BY <1>4, <2>1
    <2>3. CallOK(b) /\ b.phase = "waiting" /\ b.coming = {}
      <3>1. n \in DOMAIN stack /\ n # Len(stack)
        BY <1>1, <1>4, <2>1
      <3>2. CallOK(b) /\ b.phase = "waiting"
        BY <2>2, <3>1 DEF IInv, TypeOK, CallsOK
      <3>3. QED
        BY <3>2 DEF CallOK
    <2>4. PICK warnings : warnings = IF AliasCollision(Top.pool) THEN Warn(Top, {"alias"}).warnings ELSE Top.warnings
      OBVIOUS
    <2>5. warnings \in SUBSET Warning /\ c.warnings \subseteq warnings
      <3>1. {"alias"} \in SUBSET Kinds
        BY DEF Kinds
      <3>2. Warn(c, {"alias"}).warnings \in SUBSET Warning
        BY <3>1, WarnTyped
      <3>3. c.warnings \subseteq Warn(c, {"alias"}).warnings
        BY DEF Warn, Call
      <3>4. c.warnings \in SUBSET Warning
        BY DEF Call
      <3>5. QED
        BY <1>2, <2>4, <3>2, <3>3, <3>4
    <2>6. PICK pool \in Seq(Item) : pool = c.pool
      BY DEF Call
    <2>7. PICK back : back = [b EXCEPT !.phase = "items", !.constituent = pool, !.coming = DOMAIN pool,
                                       !.warnings = @ \cup warnings]
      OBVIOUS
    <2>8. /\ back \in Call /\ back.uri = b.uri /\ back.reading = b.reading /\ back.base = b.base
          /\ back.place = b.place /\ back.phase = "items" /\ back.todo = b.todo
          /\ back.constituent = pool /\ back.coming = DOMAIN pool /\ back.pool = b.pool
          /\ back.primary = b.primary /\ back.warnings = b.warnings \cup warnings
      <3>1. "items" \in Phases /\ DOMAIN pool \in SUBSET Nat
        BY DEF Phases
      <3>2. b.warnings \cup warnings \in SUBSET Warning
        BY <2>5 DEF Call
      <3>3. QED
        BY <2>7, <3>1, <3>2 DEF Call
    <2>9. CallOK(back)
      BY <2>3, <2>8, SameFrame
    <2>10. /\ DOMAIN stack' = 1..n /\ stack'[n] = back
           /\ \A m \in 1..n : m # n => stack'[m] = stack[m]
           /\ result' = result
      <3>1. PICK below : below = SubSeq(stack, 1, n)
        OBVIOUS
      <3>2. below \in Seq(Call) /\ Len(below) = n /\ DOMAIN below = 1..n /\ \A m \in 1..n : below[m] = stack[m]
        BY <1>1, <1>4, <2>1, <3>1
      <3>3. PICK t : t = IF AliasCollision(Top.pool) THEN Warn(Top, {"alias"}) ELSE Top
        OBVIOUS
      <3>4. t.pool = pool /\ t.warnings = warnings
        <4>1. Warn(c, {"alias"}).pool = c.pool
          BY DEF Warn, Call
        <4>2. QED
          BY <1>2, <2>4, <2>6, <3>3, <4>1
      <3>5. /\ stack' = [below EXCEPT ![n].phase = "items", ![n].constituent = t.pool,
                                      ![n].coming = DOMAIN t.pool, ![n].warnings = @ \cup t.warnings]
            /\ result' = result
        <4>1. Len(stack) - 1 = n /\ n # 0
          BY <1>1, <2>1
        <4>2. QED
          BY <3>1, <3>3, <4>1 DEF ReturnTop
      <3>6. stack' = [below EXCEPT ![n].phase = "items", ![n].constituent = pool,
                                   ![n].coming = DOMAIN pool, ![n].warnings = @ \cup warnings]
        BY <3>4, <3>5
      <3>7. n \in 1..n /\ below[n] = b
        BY <2>1, <2>2, <3>2
      <3>8. stack' = [below EXCEPT ![n] = back]
        BY <2>7, <3>2, <3>6, <3>7
      <3>9. QED
        BY <3>2, <3>5, <3>7, <3>8
    <2>11. \A m \in 1..n : stack'[m].uri = stack[m].uri /\ stack'[m].reading = stack[m].reading
      BY <2>2, <2>8, <2>10
    <2>12. PICK above : above = Under(last)
      OBVIOUS
    <2>13. PICK under : under = Under(n)
      OBVIOUS
    <2>14. above = under \cup {c.uri}
      <3>1. 2..last = (2..n) \cup {last}
        BY <2>1
      <3>2. QED
        BY <1>2, <2>12, <2>13, <3>1, Zenon DEF Under
    <2>15. Sound(c, root, above) /\ Sound(b, root, under)
      <3>1. last \in DOMAIN stack /\ n \in DOMAIN stack
        BY <1>4, <2>1
      <3>2. QED
        BY <1>2, <1>3, <2>2, <2>12, <2>13, <3>1 DEF NInv
    <2>16. PICK u \in Uris : u = c.uri
      BY DEF Call
    <2>17. parseCache[u] = c.reading /\ parseCache[u] # 0
      <3>1. c.reading = sourceCache[u]
        BY <1>1, <1>2, <2>1, <2>16 DEF IInv, ReadingsAgree
      <3>2. Files[u] \in Seq(File)
        BY FilesTyped DEF IInv, TypeOK
      <3>3. c.reading # 0
        BY <1>2, <2>16, <3>2 DEF CallOK
      <3>4. QED
        BY <3>1, <3>3 DEF IInv, CachesAgree
    <2>18. TextOf(c) = Text(u, parseCache[u])
      BY <2>16, <2>17 DEF TextOf
    <2>19. Defined(Text(u, parseCache[u])) \subseteq Ids(pool)
      BY <1>2, <2>6, <2>15, <2>18, DoneOwns DEF Sound, Home
    <2>20. TextOf(back) = TextOf(b) /\ FrameOf(back) = FrameOf(b)
      BY <2>8 DEF TextOf, FrameOf
    <2>21. Home(back)
      BY <2>3, <2>8, <2>15, <2>20 DEF Sound, Home, OwnWin, Own, Ended, Unskipped
    <2>22. settings.baseGiven => CallListed(back)
      BY <2>6, <2>8, <2>15 DEF Sound, CallListed
    <2>23. CallTraced(back, root)
      BY <2>6, <2>8, <2>15 DEF Sound, CallTraced
    <2>24. ASSUME LossFree(back.warnings)
           PROVE  \E M \in SUBSET Uris : WholeBy(back, M, under)
      <3>1. LossFree(b.warnings) /\ LossFree(c.warnings)
        BY <2>5, <2>8, <2>24 DEF LossFree
      <3>2. PICK Mb \in SUBSET Uris : WholeBy(b, Mb, under)
        BY <2>15, <3>1 DEF Sound, Whole
      <3>3. PICK Mc \in SUBSET Uris : WholeBy(c, Mc, above)
        BY <2>15, <3>1 DEF Sound, Whole
      <3>4. PICK M \in SUBSET Uris : M = Mb \cup Mc \cup {u}
        OBVIOUS
      <3>5. Mb \cup under \subseteq M \cup under /\ Mc \cup above \subseteq M \cup under
        BY <2>14, <2>16, <3>4
      <3>6. Has(b) \subseteq Has(back) /\ Has(c) \subseteq Has(back) /\ Ids(pool) \subseteq Has(back)
        BY <1>2, <2>3, <2>6, <2>8 DEF Has, Ids
      <3>7. ASSUME NEW d, NEW S, NEW T, S \subseteq T, Satisfied(d, S)
            PROVE  Satisfied(d, T)
        BY <3>7 DEF Satisfied
      <3>8. ASSUME NEW file, NEW S, NEW T, S \subseteq T, AllSatisfied(file, S)
            PROVE  AllSatisfied(file, T)
        BY <3>7, <3>8 DEF AllSatisfied
      <3>9. AllSatisfied(Text(u, parseCache[u]), Mc \cup above)
        BY <1>2, <2>18, <3>3, DoneSatisfied
      <3>10. ASSUME NEW v \in M
             PROVE  /\ parseCache[v] # 0
                    /\ Defined(Text(v, parseCache[v])) \subseteq Has(back)
                    /\ AllSatisfied(Text(v, parseCache[v]), M \cup under)
        <4>1. CASE v \in Mb
          <5>1. /\ parseCache[v] # 0 /\ Defined(Text(v, parseCache[v])) \subseteq Has(b)
                /\ AllSatisfied(Text(v, parseCache[v]), Mb \cup under)
            BY <3>2, <4>1 DEF WholeBy
          <5>2. AllSatisfied(Text(v, parseCache[v]), M \cup under)
            BY <3>5, <3>8, <5>1
          <5>3. QED
            BY <3>6, <5>1, <5>2
        <4>2. CASE v \in Mc
          <5>1. /\ parseCache[v] # 0 /\ Defined(Text(v, parseCache[v])) \subseteq Has(c)
                /\ AllSatisfied(Text(v, parseCache[v]), Mc \cup above)
            BY <3>3, <4>2 DEF WholeBy
          <5>2. AllSatisfied(Text(v, parseCache[v]), M \cup under)
            BY <3>5, <3>8, <5>1
          <5>3. QED
            BY <3>6, <5>1, <5>2
        <4>3. CASE v = u
          <5>1. AllSatisfied(Text(u, parseCache[u]), M \cup under)
            BY <3>5, <3>8, <3>9
          <5>2. QED
            BY <2>17, <2>19, <3>6, <4>3, <5>1
        <4>4. QED
          BY <3>4, <4>1, <4>2, <4>3
      <3>11. ASSUME NEW k \in 1..b.place, ~Skipped(TextOf(b).frames[k]),
                    NEW i \in DOMAIN TextOf(b).frames[k].imports, Arrived(back, k, i)
             PROVE  Satisfied(TextOf(b).frames[k].imports[i], M \cup under)
        <4>1. CASE Arrived(b, k, i)
          <5>1. Satisfied(TextOf(b).frames[k].imports[i], Mb \cup under)
            BY <3>2, <3>11, <4>1 DEF WholeBy
          <5>2. QED
            BY <3>5, <3>7, <5>1
        <4>2. CASE ~Arrived(b, k, i)
          <5>1. k = b.place /\ IsNext(back, i) /\ i \in b.todo
            BY SMTT(30), <2>8, <3>11, <4>2 DEF Arrived, Call
          <5>2. IsNext(b, i)
            BY <2>8, <2>20, <5>1 DEF IsNext
          <5>3. FrameOf(b).imports[i].file = u
            BY SMTT(30), <1>2, <1>4, <2>1, <2>2, <2>16, <5>1, <5>2 DEF NInv, WaitsForNext
          <5>4. TextOf(b).frames[k] = FrameOf(b)
            BY <5>1 DEF TextOf, FrameOf
          <5>5. QED
            BY <2>17, <3>4, <5>3, <5>4 DEF Satisfied
        <4>3. QED
          BY <4>1, <4>2
      <3>12. WholeBy(back, M, under)
        BY <2>8, <2>20, <3>10, <3>11 DEF WholeBy
      <3>13. QED
        BY <3>12
    <2>25. Sound(back, root, under)
      BY <2>21, <2>22, <2>23, <2>24 DEF Sound, Whole
    <2>26. Grown /\ ListGrows
      BY <1>5, SameTexts DEF ListGrows, Listed
    <2>27. PICK other : other = stack'[1]
      OBVIOUS
    <2>28. other.uri = root.uri /\ other.reading = root.reading
      <3>1. 1 \in 1..n
        BY <2>1
      <3>2. QED
        BY <1>3, <2>11, <2>27, <3>1
    <2>29. \A m \in 1..n : Under(m)' = Under(m)
      <3>1. ASSUME NEW m \in 1..n PROVE {stack'[j].uri : j \in 2..m} = {stack[j].uri : j \in 2..m}
        <4>1. \A j \in 2..m : stack'[j].uri = stack[j].uri
          BY <2>1, <2>11
        <4>2. QED
          BY <4>1, Zenon
      <3>2. QED
        BY <3>1 DEF Under
    <2>30. ASSUME NEW m \in DOMAIN stack'
           PROVE  Sound(stack[m], stack[1], Under(m))'
      <3>1. CASE m = n
        <4>1. Sound(back, other, under)'
          BY <2>8, <2>9, <2>25, <2>26, <2>28, SoundGrows
        <4>2. m \in 1..n
          BY <2>10
        <4>3. stack'[m] = back /\ Under(m)' = under
          BY <2>10, <2>13, <2>29, <3>1, <4>2
        <4>4. QED
          BY <2>27, <4>1, <4>3
      <3>2. CASE m # n
        <4>1. m \in 1..n /\ m \in DOMAIN stack
          BY <1>4, <2>1, <2>10
        <4>2. PICK a \in Call : a = stack[m]
          BY <1>4, <4>1
        <4>3. PICK below : below = Under(m)
          OBVIOUS
        <4>4. CallOK(a) /\ Sound(a, root, below)
          BY <1>3, <4>1, <4>2, <4>3 DEF NInv, IInv, TypeOK, CallsOK
        <4>5. Sound(a, other, below)'
          BY <2>26, <2>28, <4>4, SoundGrows
        <4>6. stack'[m] = a /\ Under(m)' = below
          BY <2>10, <2>29, <3>2, <4>1, <4>2, <4>3
        <4>7. QED
          BY <2>27, <4>5, <4>6
      <3>3. QED
        BY <3>1, <3>2
    <2>31. WaitsForNext'
      <3>1. ASSUME NEW m \in DOMAIN stack', m + 1 \in DOMAIN stack', NEW j \in stack'[m].todo,
                   IsNext(stack[m], j)'
            PROVE  FrameOf(stack[m])'.imports[j].file = stack'[m + 1].uri
        <4>1. m \in 1..n /\ m + 1 \in 1..n /\ m # n
          BY <2>1, <2>10, <3>1
        <4>2. PICK a : a = stack[m]
          OBVIOUS
        <4>3. stack'[m] = a
          BY <2>10, <4>1, <4>2
        <4>4. FrameOf(stack[m])' = FrameOf(a) /\ FrameOf(a)' = FrameOf(a)
          BY <2>26, <4>3, TextsStay DEF FrameOf
        <4>5. IsNext(a, j) /\ j \in a.todo
          BY <3>1, <4>3, <4>4 DEF IsNext
        <4>6. m \in DOMAIN stack /\ m + 1 \in DOMAIN stack
          BY <1>4, <2>1, <4>1
        <4>7. FrameOf(a).imports[j].file = stack[m + 1].uri
          BY <4>2, <4>5, <4>6 DEF NInv, WaitsForNext
        <4>8. QED
          BY <2>11, <4>1, <4>4, <4>7
      <3>2. QED
        BY <3>1 DEF WaitsForNext
    <2>32. ResultWaits'
      BY <2>10 DEF NInv, ResultWaits
    <2>33. QED
      BY <2>30, <2>31, <2>32 DEF NInv
  <1>8. QED
    BY <1>6, <1>7

\* The root's call leaves a dictionary that is whole.
LEMMA ReturnWhole ==
    ASSUME IInv, NInv, stack # <<>>, Len(stack) = 1, ReturnTop
    PROVE  DictionaryIsWhole'
  <1>1. PICK c \in Call : c = Top /\ CallOK(c) /\ c = stack[1] /\ c.phase = "frames"
                          /\ c.primary = <<>> /\ c.place = Len(TextOf(c).frames) /\ Sound(c, c, {})
    <2>1. Top \in Call /\ CallOK(Top) /\ Top = stack[1] /\ Sound(Top, Top, Under(1))
      BY TopSound
    <2>2. Under(1) = {}
      BY DEF Under
    <2>3. Top.phase = "frames" /\ Top.primary = <<>> /\ Top.place = Len(TextOf(Top).frames)
      BY DEF ReturnTop, AllRead, In, TextOf
    <2>4. QED
      BY <2>1, <2>2, <2>3
  <1>2. PICK t : t = IF AliasCollision(Top.pool) THEN Warn(Top, {"alias"}) ELSE Top
    OBVIOUS
  <1>3. t.uri = c.uri /\ t.reading = c.reading /\ t.pool = c.pool /\ c.warnings \subseteq t.warnings
    <2>1. PICK w : w = Warn(c, {"alias"})
      OBVIOUS
    <2>2. w.uri = c.uri /\ w.reading = c.reading /\ w.pool = c.pool /\ c.warnings \subseteq w.warnings
      BY <2>1 DEF Warn, Call
    <2>3. QED
      BY <1>1, <1>2, <2>1, <2>2
  <1>4. /\ result' = [uri |-> t.uri, base |-> t.base, reading |-> t.reading, items |-> t.pool,
                      warnings |-> t.warnings, sources |-> collected]
        /\ UNCHANGED <<library, settings, parseCache, collected>>
    BY <1>2 DEF ReturnTop, files
  <1>5. /\ result'.uri = c.uri /\ result'.reading = c.reading /\ result'.items = c.pool
        /\ c.warnings \subseteq result'.warnings /\ result'.sources = collected
    BY <1>3, <1>4
  <1>6. PICK text : text = TextOf(c)
    OBVIOUS
  <1>7. Root' = text /\ Reached' = ReachedFrom(text)
    <2>1. Root' = text
      BY <1>4, <1>5, <1>6, SameTexts DEF Root, TextOf, Text
    <2>2. Reached' = ReachedFrom(text)'
      BY <2>1 DEF Reached, ReachedFrom
    <2>3. QED
      BY <1>4, <2>1, <2>2, SameTexts
  <1>8. /\ LossFree(c.warnings) =>
               Ids(c.pool) = Defined(text) \cup
                   UNION {Defined(Text(u, parseCache[u])) : u \in ReachedFrom(text)}
        /\ \A k \in DOMAIN c.pool : c.pool[k].id \in Defined(text) => Own(c.pool[k], c)
        /\ \A k \in DOMAIN c.pool : TagToItem(c.pool, c.pool[k].id) = {k}
        /\ settings.baseGiven => AllListed(c.pool)
    BY <1>1, <1>6, RootIsWhole
  <1>9. Lossless' => Complete'
    <2>1. Lossless' => LossFree(c.warnings)
      BY <1>5 DEF Lossless, LossFree
    <2>2. \A u : Text(u, parseCache[u])' = Text(u, parseCache[u])
      BY <1>4, SameTexts
    <2>3. {item.id : item \in {c.pool[k] : k \in DOMAIN c.pool}} = Ids(c.pool)
      BY DEF Ids
    <2>4. Complete' = (Ids(c.pool) = Defined(text)
                           \cup UNION {Defined(Text(u, parseCache[u])) : u \in ReachedFrom(text)})
      <3>1. Defined(Root)' = Defined(text)
        BY <1>7 DEF Defined
      <3>2. \A u : Defined(Text(u, parseCache[u]))' = Defined(Text(u, parseCache[u]))
        BY <2>2 DEF Defined
      <3>3. {item.id : item \in {result.items[k] : k \in DOMAIN result.items}}' = Ids(c.pool)
        BY <1>5, <2>3
      <3>4. UNION {Defined(Text(u, parseCache[u])) : u \in Reached}'
                = UNION {Defined(Text(u, parseCache[u])) : u \in ReachedFrom(text)}
        BY <1>7, <3>2
      <3>5. QED
        BY <3>1, <3>3, <3>4 DEF Complete
    <2>5. QED
      BY <1>8, <2>1, <2>4
  <1>10. LocalFirst'
    BY <1>5, <1>7, <1>8 DEF LocalFirst, Own, Defined
  <1>11. NamesLeadHome'
    BY <1>5, <1>8 DEF NamesLeadHome
  <1>12. SourcesListed'
    BY <1>4, <1>5, <1>8 DEF SourcesListed, AllListed, Listed
  <1>13. QED
    BY <1>9, <1>10, <1>11, <1>12 DEF DictionaryIsWhole

\* A load begins with the root's call, or ends at once with an empty dictionary.
LEMMA LoadSound ==
    ASSUME IInv, NInv, NEW u \in Uris, Load(u)
    PROVE  NInv' /\ DictionaryIsWhole'
  <1>1. PICK v : v = version[u]
    OBVIOUS
  <1>2. PICK file : file = Text(u, v)
    OBVIOUS
  <1>3. PICK base : base = IF settings.baseGiven THEN u ELSE file.uri
    OBVIOUS
  <1>4. PICK call : call = NewCall(u, base, v)
    OBVIOUS
  <1>5. /\ stack = <<>> /\ v # 0 /\ collected' = IF settings.baseGiven THEN <<u>> ELSE <<>>
        /\ UNCHANGED <<library, settings, sourceCache, parseCache>>
    BY <1>1 DEF Load, files
  <1>6. CASE file.hasBlock
    <2>1. stack' = <<call>> /\ result' = Nothing
      BY <1>1, <1>2, <1>3, <1>4, <1>6 DEF Load
    <2>2. DOMAIN stack' = {1} /\ stack'[1] = call
      BY <2>1
    <2>3. call.uri = u /\ call.reading = v
      BY <1>4 DEF NewCall
    <2>4. Known(u, v, call)'
      BY <2>3 DEF Known
    <2>5. settings'.baseGiven => Listed(base)'
      BY <1>3, <1>5 DEF Listed
    <2>6. Sound(call, call, Under(1))'
      <3>1. PICK under : under = Under(1)'
        OBVIOUS
      <3>2. Sound(call, call, under)'
        BY <1>4, <2>4, <2>5, NewCallSound
      <3>3. QED
        BY <3>1, <3>2
    <2>7. QED
      BY <2>1, <2>2, <2>6 DEF NInv, WaitsForNext, ResultWaits, DictionaryIsWhole
  <1>7. CASE ~file.hasBlock
    <2>1. PICK warnings : warnings = Warn(call, {"no block"}).warnings
      OBVIOUS
    <2>2. /\ stack' = stack
          /\ result' = [uri |-> u, base |-> base, reading |-> v, items |-> <<>>,
                        warnings |-> warnings, sources |-> <<>>]
      BY <1>1, <1>2, <1>3, <1>4, <1>7, <2>1 DEF Load
    <2>3. NInv'
      BY <1>5, <2>2 DEF NInv, WaitsForNext, ResultWaits
    <2>4. file.frames = <<>>
      <3>1. library \in DOMAIN Libraries /\ Files[u] \in Seq(File) /\ v \in 0..Len(Files[u])
        BY <1>1, FilesTyped DEF IInv, TypeOK
      <3>2. v \in DOMAIN Libraries[library][u]
        BY <1>5, <3>1 DEF Files
      <3>3. QED
        BY <1>2, <1>7, <3>1, <3>2, FramesAssumption DEF Text, Files
    <2>5. Root' = file
      BY <1>2, <1>5, <2>2 DEF Root, Text, Files
    <2>6. Defined(file) = {} /\ Constituents(file)' = {} /\ DOMAIN file.frames = {}
      BY <2>4 DEF Defined, Constituents
    <2>7. Reached' = {}
      <3>1. Constituents(Root)' = {}
        BY <2>5, <2>6 DEF Constituents
      <3>2. QED
        BY <3>1 DEF Reached
    <2>8. result'.items = <<>> /\ DOMAIN result'.items = {}
      BY <2>2
    <2>9. Complete'
      <3>1. Defined(Root)' = {}
        BY <2>5, <2>6 DEF Defined
      <3>2. {item.id : item \in {result'.items[k] : k \in DOMAIN result'.items}} = {}
        BY <2>8
      <3>3. UNION {Defined(Text(w, parseCache[w]))' : w \in Reached'} = {}
        BY <2>7
      <3>4. QED
        BY <3>1, <3>2, <3>3 DEF Complete
    <2>10. LocalFirst' /\ NamesLeadHome' /\ SourcesListed'
      BY <2>8 DEF LocalFirst, NamesLeadHome, SourcesListed
    <2>11. QED
      BY <2>3, <2>9, <2>10 DEF DictionaryIsWhole
  <1>8. QED
    BY <1>6, <1>7

\* Where files change, or nothing happens, all stays as it was.
LEMMA StillSound ==
    ASSUME IInv, NInv, DictionaryIsWhole,
           UNCHANGED <<library, settings, parseCache, stack, collected, result>>
    PROVE  NInv' /\ DictionaryIsWhole'
  <1>1. /\ Grown
        /\ \A u, v : Text(u, v)' = Text(u, v)
        /\ \A u : Text(u, parseCache[u])' = Text(u, parseCache[u])
        /\ \A file : ReachedFrom(file)' = ReachedFrom(file)
    BY SameTexts
  <1>2. \A n \in DOMAIN stack' : Sound(stack[n], stack[1], Under(n))'
    <2>1. ASSUME NEW n \in DOMAIN stack
          PROVE  Sound(stack[n], stack[1], Under(n))'
      <3>1. PICK c \in Call : c = stack[n]
        BY DEF IInv, TypeOK
      <3>2. PICK root : root = stack[1]
        OBVIOUS
      <3>3. PICK under : under = Under(n)
        OBVIOUS
      <3>4. CallOK(c) /\ Sound(c, root, under)
        BY <3>1, <3>2, <3>3 DEF NInv, IInv, TypeOK, CallsOK
      <3>5. ListGrows
        BY DEF ListGrows, Listed
      <3>6. Sound(c, root, under)'
        BY <1>1, <3>4, <3>5, SoundGrows
      <3>7. stack'[n] = c /\ stack'[1] = root /\ Under(n)' = under
        BY <3>1, <3>2, <3>3 DEF Under
      <3>8. QED
        BY <3>6, <3>7
    <2>2. QED
      BY <2>1
  <1>3. WaitsForNext'
    <2>1. ASSUME NEW n \in DOMAIN stack, n + 1 \in DOMAIN stack, NEW j \in stack[n].todo,
                 IsNext(stack[n], j)'
          PROVE  FrameOf(stack[n])'.imports[j].file = stack[n + 1].uri
      <3>1. PICK c : c = stack[n]
        OBVIOUS
      <3>2. FrameOf(stack[n])' = FrameOf(c) /\ FrameOf(c)' = FrameOf(c)
        BY <1>1, <3>1 DEF FrameOf
      <3>3. IsNext(c, j)
        BY <2>1, <3>1, <3>2 DEF IsNext
      <3>4. QED
        BY <2>1, <3>1, <3>2, <3>3 DEF NInv, WaitsForNext
    <2>2. QED
      BY <2>1 DEF WaitsForNext
  <1>4. ResultWaits'
    BY DEF NInv, ResultWaits
  <1>5. DictionaryIsWhole'
    <2>1. PICK r : r = result
      OBVIOUS
    <2>2. PICK text : text = Text(r.uri, r.reading)
      OBVIOUS
    <2>3. Root = text /\ Root' = text
      BY <1>1, <2>1, <2>2 DEF Root
    <2>4. Reached = ReachedFrom(text)
      BY <2>3 DEF Reached, ReachedFrom
    <2>5. Reached' = ReachedFrom(text)
      <3>1. Reached' = ReachedFrom(text)'
        BY <2>3 DEF Reached, ReachedFrom
      <3>2. QED
        BY <1>1, <3>1
    <2>6. Defined(Root)' = Defined(Root)
      BY <2>3 DEF Defined
    <2>7. \A u : Defined(Text(u, parseCache[u]))' = Defined(Text(u, parseCache[u]))
      BY <1>1 DEF Defined
    <2>8. UNION {Defined(Text(u, parseCache[u])) : u \in Reached}'
              = UNION {Defined(Text(u, parseCache[u])) : u \in Reached}
      BY <2>4, <2>5, <2>7
    <2>9. Complete <=> Complete'
      <3>1. {item.id : item \in {result.items[k] : k \in DOMAIN result.items}}'
                = {item.id : item \in {result.items[k] : k \in DOMAIN result.items}}
        OBVIOUS
      <3>2. QED
        BY <2>6, <2>8, <3>1, Zenon DEF Complete
    <2>10. (LocalFirst <=> LocalFirst') /\ (NamesLeadHome <=> NamesLeadHome')
      <3>1. LocalFirst <=> LocalFirst'
        BY <2>6 DEF LocalFirst
      <3>2. NamesLeadHome <=> NamesLeadHome'
        BY DEF NamesLeadHome
      <3>3. QED
        BY <3>1, <3>2
    <2>11. SourcesListed <=> SourcesListed'
      BY DEF SourcesListed
    <2>12. Lossless <=> Lossless'
      BY DEF Lossless
    <2>13. QED
      BY <2>9, <2>10, <2>11, <2>12 DEF DictionaryIsWhole
  <1>6. QED
    BY <1>2, <1>3, <1>4, <1>5 DEF NInv

-----------------------------------------------------------------------------
(***************************************************************************)
(* Any step.                                                               *)
(***************************************************************************)
LEMMA DirectivesSound ==
    ASSUME IInv, NInv, stack # <<>>, Directives
    PROVE  NInv' /\ result' = result
  <1>1. PICK i \in Top.todo :
          \/ SkipDirective(i) \/ MissTarget(i) \/ MergeTag(i) \/ FinishDirective(i)
          \/ \E n \in Top.coming : MergeItem(i, n)
          \/ \E k \in UsablePlaces(FrameOf(Top).imports[i]) :
                 BlockConstituent(i, k) \/ RefuseConstituent(i, k) \/ EnterConstituent(i, k) \/ TakeFrame(i, k)
    BY Zenon DEF Directives
  <1>2. CASE SkipDirective(i)
    BY <1>2, SkipSound DEF SkipDirective, NoCallBegins
  <1>3. CASE MissTarget(i)
    BY <1>3, MissSound DEF MissTarget, NoCallBegins
  <1>4. CASE MergeTag(i)
    BY <1>4, MergeTagSound DEF MergeTag, NoCallBegins
  <1>5. CASE FinishDirective(i)
    BY <1>5, FinishSound DEF FinishDirective, NoCallBegins
  <1>6. ASSUME NEW n \in Top.coming, MergeItem(i, n)
        PROVE  NInv' /\ result' = result
    BY <1>6, MergeItemSound DEF MergeItem, NoCallBegins
  <1>7. ASSUME NEW k, BlockConstituent(i, k)
        PROVE  NInv' /\ result' = result
    BY <1>7, BlockSound DEF BlockConstituent, NoCallBegins
  <1>8. ASSUME NEW k, RefuseConstituent(i, k)
        PROVE  NInv' /\ result' = result
    BY <1>8, RefuseSound DEF RefuseConstituent, NoCallBegins
  <1>9. ASSUME NEW k, EnterConstituent(i, k)
        PROVE  NInv' /\ result' = result
    BY <1>9, EnterSound DEF EnterConstituent
  <1>10. ASSUME NEW k, TakeFrame(i, k)
         PROVE  NInv' /\ result' = result
    BY <1>10, TakeSound DEF TakeFrame, NoCallBegins
  <1>11. QED
    BY <1>1, <1>2, <1>3, <1>4, <1>5, <1>6, <1>7, <1>8, <1>9, <1>10, Zenon

\* All steps.
LEMMA NextSound ==
    ASSUME IInv, NInv, DictionaryIsWhole, [Next]_vars
    PROVE  NInv' /\ DictionaryIsWhole'
  <1>1. ASSUME stack # <<>>, result' = result
        PROVE  DictionaryIsWhole'
    BY <1>1 DEF NInv, ResultWaits, DictionaryIsWhole
  <1>2. CASE BeginFrame
    <2>1. stack # <<>> /\ result' = result
      BY <1>2 DEF BeginFrame, In, NoCallBegins
    <2>2. QED
      BY <1>1, <1>2, <2>1, BeginSound
  <1>3. CASE stack # <<>> /\ Directives
    BY <1>1, <1>3, DirectivesSound
  <1>4. CASE EndFrame
    <2>1. stack # <<>> /\ result' = result
      BY <1>4 DEF EndFrame, In, NoCallBegins
    <2>2. QED
      BY <1>1, <1>4, <2>1, EndSound
  <1>5. CASE Overlay
    <2>1. stack # <<>> /\ result' = result
      BY <1>5 DEF Overlay, AllRead, In, NoCallBegins
    <2>2. QED
      BY <1>1, <1>5, <2>1, OverlaySound
  <1>6. CASE ReturnTop
    <2>1. stack # <<>>
      BY <1>6 DEF ReturnTop, AllRead, In
    <2>2. NInv'
      BY <1>6, <2>1, ReturnSound
    <2>3. CASE Len(stack) = 1
      BY <1>6, <2>1, <2>2, <2>3, ReturnWhole
    <2>4. CASE Len(stack) # 1
      <3>1. Len(stack) - 1 # 0
        BY <2>1, <2>4 DEF IInv, TypeOK
      <3>2. result' = result
        BY <1>6, <3>1 DEF ReturnTop
      <3>3. QED
        BY <1>1, <2>1, <2>2, <3>2
    <2>5. QED
      BY <2>3, <2>4
  <1>7. ASSUME NEW u \in Uris, Load(u)
        PROVE  NInv' /\ DictionaryIsWhole'
    BY <1>7, LoadSound
  <1>8. ASSUME NEW u \in Editable, Change(u)
        PROVE  NInv' /\ DictionaryIsWhole'
    BY <1>8, StillSound DEF Change
  <1>9. CASE UNCHANGED vars
    BY <1>9, StillSound DEF vars, files
  <1>10. QED
    BY <1>2, <1>3, <1>4, <1>5, <1>6, <1>7, <1>8, <1>9 DEF Next, Step

\* What a load returns is whole, whatever dictionaries import each other, through chains,
\* diamonds and circles, and though files change meanwhile: without a warning of a loss it has
\* every definition of every file that imports of heads lead to and no other, the root's own
\* win, each name leads to its definition, and the files definitions come from are listed.
THEOREM DictionaryIsWholeCorrect == Spec => []DictionaryIsWhole
  <1>1. Init => NInv /\ DictionaryIsWhole
    BY DEF Init, NInv, WaitsForNext, ResultWaits, DictionaryIsWhole
  <1>2. IInv /\ NInv /\ DictionaryIsWhole /\ [Next]_vars => NInv' /\ DictionaryIsWhole'
    BY NextSound
  <1>3. QED
    BY <1>1, <1>2, LoaderInvariant, PTL DEF Spec
===============================================================================
