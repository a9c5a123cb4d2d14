------------------------------ MODULE VizService ------------------------------
(***************************************************************************)
(* What is true of a Viz object's calls, and that it is a RenderService.   *)
(***************************************************************************)
EXTENDS Viz, FiniteSets

WrapperTypeOK ==
    /\ wrapper \in {"none", "worker", "module"}
    /\ nextId \in Nat
    /\ DOMAIN listeners \subseteq Nat /\ \A id \in DOMAIN listeners : listeners[id] \in Calls
    /\ inbox \in Seq(Request) /\ outbox \in Seq(Answer)
    /\ instance \in Instance
    /\ workerUp \in BOOLEAN
    /\ state \in [Calls -> PromiseStates]
    /\ output \in [Calls -> Output \cup {Nothing}]

ClientTypeOK ==
    /\ vizLoaded \in BOOLEAN /\ renderInstalled \in BOOLEAN /\ fabricLoaded \in BOOLEAN
    /\ arrays \in [Arrays -> Seq(File)]
    /\ question \in [Calls -> Questions \cup {Nothing}]
    /\ stage \in [Calls -> Stages]
    /\ image \in [Calls -> Drawn \cup {Nothing}]

TypeOK == WrapperTypeOK /\ ClientTypeOK

-----------------------------------------------------------------------------
(***************************************************************************)
(* Numbers and listeners.                                                  *)
(***************************************************************************)
InFlight == outbox \o inbox

\* The messages under way and the calls still waiting for one pair up: each number in
\* flight is used once and its listener settles a pending call, and each pending call
\* has its number in flight.  So `listeners[id](...)` in the message handler of viz.js
\* always finds its function, and no answer goes to another call.
EveryWaiterHasItsMessage ==
    /\ \A i, j \in DOMAIN InFlight : InFlight[i].id = InFlight[j].id => i = j
    /\ \A i \in DOMAIN InFlight :
           /\ InFlight[i].id \in DOMAIN listeners
           /\ state[listeners[InFlight[i].id]] = "pending"
    /\ \A c \in Calls : state[c] = "pending" =>
           \E i \in DOMAIN InFlight : listeners[InFlight[i].id] = c

\* A listener whose call is not pending was set for a request that postMessage refused:
\* render() takes the number and sets the listener first, and nothing removes it.
OnlyRefusedListenersStay ==
    \A id \in DOMAIN listeners :
        LET c == listeners[id] IN state[c] # "pending" => state[c] = "rejected" /\ ~question[c].cloneable

-----------------------------------------------------------------------------
(***************************************************************************)
(* One instance of Graphviz behind many calls.                             *)
(***************************************************************************)
FormatOf(q) == IF q.kind = "string" THEN q.format ELSE IF q.kind = "json" THEN "json" ELSE "svg"
Rendered == {c \in Calls : state[c] = "fulfilled"}

\* Whatever other calls the instance served before, a text is drawn from the call's own
\* source, in its own format and orientation, and with its own nop unless that is 0.
OwnSettings ==
    \A c \in Rendered : LET q == question[c] IN
        /\ output[c].src = q.src /\ output[c].format = FormatOf(q)
        /\ output[c].yInvert = q.yInvert
        /\ q.nop # 0 => output[c].nop = q.nop

\* The images a call names have the sizes that call gave them while it is drawn, though
\* an earlier call, or the call's own files array, may name the same paths.
OwnImages ==
    \A c \in Rendered : LET images == question[c].images IN
        \A p \in {images[i].path : i \in DOMAIN images} :
            output[c].files[p] = Stubs(images)[LastAt(Stubs(images), p)].data

\* What an instance holds that a call did not bring, an earlier call left there: a file
\* stays, and so does the last nop other than 0.
LeftByACall ==
    \A c \in Rendered :
        /\ output[c].nop # 0 =>
               \E d \in Calls : question[d] # Nothing /\ question[d].nop = output[c].nop
        /\ \A p \in Paths : output[c].files[p] # Nothing =>
               \E d \in Calls : question[d] # Nothing /\
                  LET q == question[d] IN
                      \/ \E i \in DOMAIN q.images : q.images[i] = [path |-> p, size |-> output[c].files[p]]
                      \/ q.files # Nothing /\ \E i \in DOMAIN arrays[q.files] :
                             arrays[q.files][i] = [path |-> p, data |-> output[c].files[p]]

\* A source Graphviz can draw is refused only if postMessage refuses the request, or if
\* Graphviz failed for another call of the same instance, made by then: the message
\* pointer is then left as it is, and read again.
RefusedAfterAnError ==
    \A c \in Calls :
        state[c] = "rejected" /\ Takes[question[c].src] \in {"graph", "blank"} =>
            \/ wrapper = "worker" /\ ~question[c].cloneable
            \/ \E d \in Calls \ {c} : state[d] # "none" /\ Takes[question[d].src] \in {"error", "throws"}

-----------------------------------------------------------------------------
(***************************************************************************)
(* How calls end.                                                          *)
(***************************************************************************)
\* The worker is gone and the request is still in its queue.
Unanswerable(c) ==
    ~workerUp /\ state[c] = "pending" /\ \E i \in DOMAIN inbox : listeners[inbox[i].id] = c

Outcome(c) ==
    IF question[c] = Nothing THEN "idle"
    ELSE IF stage[c] \in {"resolved", "rejected"} THEN stage[c]
    ELSE IF stage[c] = "lost" \/ Unanswerable(c) THEN "abandoned"
    ELSE IF question[c].kind # "string" \/ state[c] = "pending" THEN "open"
    ELSE IF state[c] = "fulfilled" THEN "resolved" ELSE "rejected"

\* What of a question decides its answer, whatever was asked before.
Essence(q) == [src |-> q.src, format |-> FormatOf(q), yInvert |-> q.yInvert]
EssenceOf(out) == [src |-> out.src, format |-> out.format, yInvert |-> out.yInvert]

\* The Viz object is a RenderService: calls settle at most once, each with the drawing
\* that was asked for, in any interleaving with the other calls, and none stays open.
Service == INSTANCE RenderService WITH
    Questions <- {Essence(q) : q \in Questions},
    asked   <- [c \in Calls |-> IF question[c] = Nothing THEN Nothing ELSE Essence(question[c])],
    outcome <- [c \in Calls |-> Outcome(c)],
    result  <- [c \in Calls |-> IF Outcome(c) = "resolved" THEN EssenceOf(output[c]) ELSE Nothing]
ImplementsService == Service!Spec

\* Every promise is settled, unless the worker is gone or the canvas of an image could
\* not be encoded; nothing else that clients, Graphviz or the browser do leaves a
\* caller waiting.
PromisesSettle ==
    \A c \in Calls :
        question[c] # Nothing ~> \/ Outcome(c) \in {"resolved", "rejected"}
                                 \/ wrapper = "worker" /\ ~workerUp
                                 \/ stage[c] = "lost" /\ question[c].kind = "image"
=============================================================================
