------------------------------ MODULE VizWrapper ------------------------------
(***************************************************************************)
(* The two ways a Viz object reaches Graphviz (viz.js): ModuleWrapper      *)
(* calls render() inside the promise, WorkerWrapper posts the request to a *)
(* worker, remembers a listener under a number, and settles the promise    *)
(* when a message with that number comes back.                             *)
(***************************************************************************)
EXTENDS GraphvizInstance

CONSTANTS MaxCalls      \* calls made of the object
Calls == 1..MaxCalls    \* in the order they are made

VARIABLES
    wrapper,        \* "none" until the Viz object is constructed, then "worker" or "module"
    nextId,
    listeners,      \* this.listeners: the call each number settles
    inbox, outbox,  \* messages to and from the worker, in order
    instance,       \* the Graphviz instance of the wrapper or of its worker
    workerUp,       \* the worker still takes messages
    state,          \* of the promise `render` gave each call
    output          \* what that promise was fulfilled with

wrapperVars == <<wrapper, nextId, listeners, inbox, outbox, instance, workerUp, state, output>>

PromiseStates == {"none", "pending", "fulfilled", "rejected"}
Request == [id : Nat, src : Sources, options : Options]
Answer == [id : Nat, ok : BOOLEAN, output : Output \cup {Nothing}]

WrapperInit ==
    /\ wrapper = "none"
    /\ nextId = 0 /\ listeners = <<>>
    /\ inbox = <<>> /\ outbox = <<>>
    /\ instance = FreshInstance
    /\ workerUp = TRUE
    /\ state = [c \in Calls |-> "none"]
    /\ output = [c \in Calls |-> Nothing]

-----------------------------------------------------------------------------
\* The constructor's options; Viz.Module and Viz.render are there when full.render.js
\* was loaded after viz.js.
ConstructorOptions == [workerURL : BOOLEAN, worker : BOOLEAN, Module : BOOLEAN, render : BOOLEAN]
WrapperFor(o, installed) ==
    IF o.workerURL \/ o.worker THEN "worker"
    ELSE IF (o.Module /\ o.render) \/ installed THEN "module"
    ELSE "none"     \* throws: Must specify workerURL or worker option ...

Construct(o, installed) ==
    /\ wrapper = "none"
    /\ wrapper' = WrapperFor(o, installed)
    /\ UNCHANGED <<nextId, listeners, inbox, outbox, instance, workerUp, state, output>>

-----------------------------------------------------------------------------
With(f, x, y) == [z \in DOMAIN f \cup {x} |-> IF z = x THEN y ELSE f[z]]
\* Mutant of Without: the listener is not deleted.
Kept(f, x) == f
Without(f, x) == [z \in DOMAIN f \ {x} |-> f[z]]

\* A promise settles once; a second resolve or reject does nothing.
SettleWith(c, ok, out) ==
    /\ state' = [state EXCEPT ![c] = IF @ # "pending" THEN @ ELSE IF ok THEN "fulfilled" ELSE "rejected"]
    /\ output' = [output EXCEPT ![c] = IF state[c] # "pending" \/ ~ok THEN @ ELSE out]

\* Mutant of WorkerRender: the number is read and not advanced.
IdReused(c, src, o, cloneable) ==
    /\ wrapper = "worker"
    /\ nextId' = nextId
    /\ listeners' = With(listeners, nextId, c)
    /\ state' = [state EXCEPT ![c] = IF cloneable THEN "pending" ELSE "rejected"]
    /\ inbox' = IF cloneable THEN Append(inbox, [id |-> nextId, src |-> src, options |-> o]) ELSE inbox
    /\ UNCHANGED <<wrapper, outbox, instance, workerUp, output>>

\* WorkerWrapper.render: the number is taken and the listener set before postMessage,
\* which throws on what cannot be cloned; the executor's exception rejects the promise.
WorkerRender(c, src, o, cloneable) ==
    /\ wrapper = "worker"
    /\ nextId' = nextId + 1
    /\ listeners' = With(listeners, nextId, c)
    /\ state' = [state EXCEPT ![c] = IF cloneable THEN "pending" ELSE "rejected"]
    /\ inbox' = IF cloneable THEN Append(inbox, [id |-> nextId, src |-> src, options |-> o]) ELSE inbox
    /\ UNCHANGED <<wrapper, outbox, instance, workerUp, output>>

\* ModuleWrapper's render: done, one way or the other, when it returns.
ModuleRender(c, src, o) ==
    /\ wrapper = "module"
    /\ \E r \in Renders(instance, src, o) :
           /\ instance' = r.instance
           /\ state' = [state EXCEPT ![c] = IF r.ok THEN "fulfilled" ELSE "rejected"]
           /\ output' = [output EXCEPT ![c] = r.output]
    /\ UNCHANGED <<wrapper, nextId, listeners, inbox, outbox, workerUp>>

Render(c, src, o, cloneable) == WorkerRender(c, src, o, cloneable) \/ ModuleRender(c, src, o)

\* Mutant of WorkerOnMessage: an exception is not posted.
ErrorsUnanswered ==
    /\ workerUp /\ inbox # <<>>
    /\ LET m == Head(inbox) IN
       \E r \in Renders(instance, m.src, m.options) :
           /\ instance' = r.instance
           /\ outbox' = IF r.ok THEN Append(outbox, [id |-> m.id, ok |-> TRUE, output |-> r.output])
                        ELSE outbox
    /\ inbox' = Tail(inbox)
    /\ UNCHANGED <<wrapper, nextId, listeners, workerUp, state, output>>

\* onmessage in the worker: every request is answered, with a result or with an error.
WorkerOnMessage ==
    /\ workerUp /\ inbox # <<>>
    /\ LET m == Head(inbox) IN
       \E r \in Renders(instance, m.src, m.options) :
           /\ instance' = r.instance
           /\ outbox' = Append(outbox, [id |-> m.id, ok |-> r.ok, output |-> r.output])
    /\ inbox' = Tail(inbox)
    /\ UNCHANGED <<wrapper, nextId, listeners, workerUp, state, output>>

\* Mutant of OnMessage: answers come in order, so the oldest listener is taken.
OldestListener ==
    /\ outbox # <<>>
    /\ LET m == Head(outbox)
           id == CHOOSE i \in DOMAIN listeners : \A j \in DOMAIN listeners : i <= j IN
           /\ SettleWith(listeners[id], m.ok, m.output)
           /\ listeners' = Without(listeners, id)
    /\ outbox' = Tail(outbox)
    /\ UNCHANGED <<wrapper, nextId, inbox, instance, workerUp>>

\* The wrapper's 'message' listener.
OnMessage ==
    /\ outbox # <<>>
    /\ LET m == Head(outbox) IN
           /\ SettleWith(listeners[m.id], m.ok, m.output)
           /\ listeners' = Without(listeners, m.id)
    /\ outbox' = Tail(outbox)
    /\ UNCHANGED <<wrapper, nextId, inbox, instance, workerUp>>

\* The script is not found, or the worker is terminated: only 'message' is listened to.
WorkerDies ==
    /\ wrapper = "worker" /\ workerUp
    /\ workerUp' = FALSE
    /\ UNCHANGED <<wrapper, nextId, listeners, inbox, outbox, instance, state, output>>
===============================================================================
