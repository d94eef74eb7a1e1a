------------------------------- MODULE WorkLedger ------------------------------
(***************************************************************************)
(* What the bus promises whoever gives it work (orchestrator/bus.py, and   *)
(* the Today page's "failed after 3 attempts"), and nothing of how it      *)
(* keeps it: no worker, no rows that say 'running', no crashes, backoff or *)
(* live calls.  Accepted work is owed until it was done from beginning to  *)
(* end or every attempt is spent; then it is parked where the seller sees  *)
(* it.  EventBus implements it with the server's worker.                   *)
(***************************************************************************)
EXTENDS Naturals

CONSTANTS
    Jobs,
    OfCall,         \* those that run the pipeline of one call
    CallEnded,      \* of these, the ones its end has put there
    MaxAttempts

VARIABLES
    says,           \* "none", "owed", "done" or "parked"
    tried,          \* attempts spent since it was accepted or taken up again
    worked          \* jobs whose work was once done from beginning to end

vars == <<says, tried, worked>>

Init ==
    /\ says = [j \in Jobs |-> "none"]
    /\ tried = [j \in Jobs |-> 0]
    /\ worked = {}

Becomes(j, word) == says' = [says EXCEPT ![j] = word]

Accept(j) ==
    /\ says[j] = "none" /\ Becomes(j, "owed")
    /\ UNCHANGED <<tried, worked>>

(* An attempt is spent when it begins; one that was refused for want of    *)
(* quota is given back.                                                    *)
Try(j) ==
    /\ says[j] = "owed" /\ tried[j] < MaxAttempts
    /\ tried' = [tried EXCEPT ![j] = @ + 1]
    /\ UNCHANGED <<says, worked>>

GiveBack(j) ==
    /\ says[j] = "owed" /\ tried[j] > 0
    /\ tried' = [tried EXCEPT ![j] = @ - 1]
    /\ UNCHANGED <<says, worked>>

(* The work is done.  A run of the call's pipeline settles what it gave up *)
(* on before, and its end that waits to be heard of.                       *)
Settles(j, d) == /\ j \in OfCall /\ d # j
                 /\ \/ d \in OfCall /\ says[d] = "parked"
                    \/ d \in CallEnded /\ says[d] = "owed"
Work(j) ==
    /\ says[j] = "owed"
    /\ worked' = worked \cup {j}
    /\ says' = [d \in Jobs |-> IF Settles(j, d) THEN "done" ELSE says[d]]
    /\ UNCHANGED tried

Finish(j) ==
    /\ says[j] = "owed" /\ j \in worked /\ Becomes(j, "done")
    /\ UNCHANGED <<tried, worked>>

Park(j) ==
    /\ says[j] = "owed" /\ tried[j] = MaxAttempts /\ Becomes(j, "parked")
    /\ UNCHANGED <<tried, worked>>

TakeUp(j) ==
    /\ says[j] = "parked" /\ Becomes(j, "owed")
    /\ tried' = [tried EXCEPT ![j] = 0]
    /\ UNCHANGED worked

Next == \E j \in Jobs : \/ Accept(j) \/ Try(j) \/ GiveBack(j) \/ Work(j)
                        \/ Finish(j) \/ Park(j) \/ TakeUp(j)

Spec == Init /\ [][Next]_vars
=============================================================================
