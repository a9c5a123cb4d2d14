---------------------------- MODULE RenderService ----------------------------
(***************************************************************************)
(* What a Viz object promises to its callers: every call is a question of  *)
(* its own, its promise settles at most once, and an answer is the answer  *)
(* to that question, whatever the other calls do.  A call is abandoned     *)
(* when nothing is left that could settle it.                              *)
(***************************************************************************)
CONSTANTS Calls, Questions, Nothing

VARIABLES
    asked,      \* the question of each call
    outcome,    \* "idle", "open", or how the call ended
    result      \* the question a resolved call has the answer to

vars == <<asked, outcome, result>>

Init ==
    /\ asked = [c \in Calls |-> Nothing]
    /\ outcome = [c \in Calls |-> "idle"]
    /\ result = [c \in Calls |-> Nothing]

Ends == {"resolved", "rejected", "abandoned"}

\* c is put to the service, which may settle it on the spot.
Ask(c, q) ==
    /\ outcome[c] = "idle"
    /\ asked' = [asked EXCEPT ![c] = q]
    /\ \E o \in Ends \cup {"open"} :
           /\ outcome' = [outcome EXCEPT ![c] = o]
           /\ result' = IF o = "resolved" THEN [result EXCEPT ![c] = q] ELSE result

Settle(c) ==
    /\ outcome[c] = "open"
    /\ \/ /\ outcome' = [outcome EXCEPT ![c] = "resolved"]
          /\ result' = [result EXCEPT ![c] = asked[c]]
       \/ /\ outcome' = [outcome EXCEPT ![c] = "rejected"]
          /\ UNCHANGED result
    /\ UNCHANGED asked

Abandon(lost) ==
    /\ \A c \in lost : outcome[c] = "open"
    /\ outcome' = [c \in Calls |-> IF c \in lost THEN "abandoned" ELSE outcome[c]]
    /\ UNCHANGED <<asked, result>>

Next ==
    \/ \E c \in Calls, q \in Questions : Ask(c, q)
    \/ \E c \in Calls : Settle(c)
    \/ \E lost \in SUBSET Calls : Abandon(lost)

End(c) == Settle(c) \/ \E lost \in SUBSET Calls : c \in lost /\ Abandon(lost)

Spec == Init /\ [][Next]_vars /\ \A c \in Calls : WF_vars(End(c))
=============================================================================
