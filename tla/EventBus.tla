------------------------------- MODULE EventBus -------------------------------
(***************************************************************************)
(* The persistent workflow bus (orchestrator/bus.py) and whoever drains    *)
(* it: the server's worker thread (orchestrator/worker.py, Worker.run) and *)
(* any number of `salescoach work` processes (worker.drain).  Both may die *)
(* at any point; the table survives.                                       *)
(*                                                                         *)
(* An event is named by its row id, so publishing takes the next number    *)
(* and "the oldest" is the smallest.  A BEGIN IMMEDIATE block and a single *)
(* UPDATE are one step; the SELECT and the UPDATE of bus.fail are two.     *)
(* The clock is the set `cooling` of events whose not-before time has not  *)
(* come.                                                                   *)
(*                                                                         *)
(* An operator named ...Slip is a plausible slip in the code that the      *)
(* operator below it models; the README says which property notices it.    *)
(***************************************************************************)
EXTENDS Naturals

CONSTANTS
    NumEvents,      \* how many events are published
    Pipeline,       \* those of type CALL_ENDED or PROCESS_CALL, of one call
    CallEnded,      \* those of type CALL_ENDED
    Worker,         \* the server's worker thread
    Drainers,       \* `salescoach work` processes
    RetryFrom,      \* statuses a Retry click may find its event in
    MaxAttempts,    \* bus.MAX_ATTEMPTS
    MaxRetries,     \* bound: Retry clicks
    MaxDefers,      \* bound: quota refusals
    MaxLive,        \* bound: live calls during a behaviour
    MaxErrors       \* bound: database errors in the idle loop

Events    == 1..NumEvents
Consumers == {Worker} \cup Drainers
Statuses  == {"absent", "pending", "running", "done", "failed"}

BusConstants ==
    /\ NumEvents \in Nat /\ MaxAttempts \in Nat \ {0}
    /\ Pipeline \subseteq Events /\ CallEnded \subseteq Pipeline
    /\ Worker \notin Drainers
    /\ RetryFrom \subseteq Statuses \ {"absent"}
    /\ {MaxRetries, MaxDefers, MaxLive, MaxErrors} \subseteq Nat
VARIABLES
    status,     \* wf_events.status
    attempts,   \* wf_events.attempts
    cooling,    \* events that may not be claimed before a later time
    pc,         \* where each consumer is
    job,        \* the event a consumer took
    read,       \* bus.fail: the attempts it read
    live,       \* a live capture is running (Worker.live_busy)
    handled,    \* history: events whose handler ran to the end
    resolved,   \* history: events retired because the call was processed
    retries, defers, calls, errors   \* what is left of each bound

table  == <<status, attempts, cooling>>
bounds == <<retries, defers, calls, errors>>
past   == <<handled, resolved>>
vars   == <<table, pc, job, read, live, past, bounds>>

NoEvent == 0
Places  == {"down", "idle", "ready", "handling", "completing", "raised", "failing"}

Init ==
    /\ status = [e \in Events |-> "absent"]
    /\ attempts = [e \in Events |-> 0]
    /\ cooling = {}
    /\ pc = [c \in Consumers |-> "down"]
    /\ job = [c \in Consumers |-> NoEvent]
    /\ read = [c \in Consumers |-> 0]
    /\ live = FALSE
    /\ handled = {} /\ resolved = {}
    /\ retries = MaxRetries /\ defers = MaxDefers
    /\ calls = MaxLive /\ errors = MaxErrors

Goto(c, place) == pc' = [pc EXCEPT ![c] = place]

(* Consumer c lets its event go.                                           *)
Leave(c, place) ==
    /\ Goto(c, place)
    /\ job' = [job EXCEPT ![c] = NoEvent]
    /\ read' = [read EXCEPT ![c] = 0]

Row(e, s, n) ==
    /\ status' = [status EXCEPT ![e] = s]
    /\ attempts' = [attempts EXCEPT ![e] = n]

----------------------------------------------------------------------------
(* Producers.                                                              *)

(* bus.publish of a new dedupe_key; a key published before changes nothing *)
(* whatever its row's status is.                                           *)
Publish(e) ==
    /\ status[e] = "absent"
    /\ \A d \in Events : d < e => status[d] # "absent"
    /\ status' = [status EXCEPT ![e] = "pending"]
    /\ UNCHANGED <<attempts, cooling, pc, job, read, live, past, bounds>>

(* POST /events/{id}/retry: whatever the row says, back to the start.      *)
Retry(e) ==
    /\ retries > 0
    /\ status[e] \in RetryFrom
    /\ Row(e, "pending", 0)
    /\ cooling' = cooling \ {e}
    /\ retries' = retries - 1
    /\ UNCHANGED <<pc, job, read, live, past, defers, calls, errors>>

(* The not-before time of an event comes.                                  *)
Cool(e) ==
    /\ e \in cooling
    /\ cooling' = cooling \ {e}
    /\ UNCHANGED <<status, attempts, pc, job, read, live, past, bounds>>

CallStarts ==
    /\ ~live /\ calls > 0
    /\ live' = TRUE /\ calls' = calls - 1
    /\ UNCHANGED <<table, pc, job, read, past, retries, defers, errors>>

CallStops ==
    /\ live
    /\ live' = FALSE
    /\ UNCHANGED <<table, pc, job, read, past, bounds>>

----------------------------------------------------------------------------
(* bus.recover_running, on start and on every reconnect of the worker.     *)

RecoveredSlip(e) == "pending"
Recovered(e) == IF attempts[e] >= MaxAttempts THEN "failed" ELSE "pending"

Running == {e \in Events : status[e] = "running"}

ConnectSlip ==
    /\ pc[Worker] = "down"
    /\ Goto(Worker, "idle")
    /\ UNCHANGED <<table, job, read, live, past, bounds>>

Connect ==
    /\ pc[Worker] = "down"
    /\ status' = [e \in Events |-> IF e \in Running THEN Recovered(e) ELSE status[e]]
    /\ cooling' = cooling \cup Running
    /\ Goto(Worker, "idle")
    /\ UNCHANGED <<attempts, job, read, live, past, bounds>>

(* `salescoach work` starts: no recovery, no waiting for a live call.      *)
StartDrain(c) ==
    /\ pc[c] = "down"
    /\ Goto(c, "ready")
    /\ UNCHANGED <<table, job, read, live, past, bounds>>

(* The worker's loop waits while a live call is running.                   *)
SeeNoCall ==
    /\ pc[Worker] = "idle"
    /\ ~live
    /\ Goto(Worker, "ready")
    /\ UNCHANGED <<table, job, read, live, past, bounds>>

----------------------------------------------------------------------------
(* bus.claim_next.                                                         *)

Claimable(e) == status[e] = "pending" /\ attempts[e] < MaxAttempts /\ e \notin cooling

(* Where c looks for its next event.                                       *)
Again(c) == IF c = Worker THEN "idle" ELSE "ready"

Claim(c, e) ==
    /\ pc[c] = "ready"
    /\ Claimable(e)
    /\ \A d \in Events : d < e => ~Claimable(d)
    /\ Row(e, "running", attempts[e] + 1)
    /\ Goto(c, "handling")
    /\ job' = [job EXCEPT ![c] = e]
    /\ UNCHANGED <<cooling, read, live, past, bounds>>

(* Nothing to claim: the worker sleeps and looks again, a drain ends.      *)
NothingToDo(c) ==
    /\ pc[c] = "ready"
    /\ \A e \in Events : ~Claimable(e)
    /\ Goto(c, IF c = Worker THEN "idle" ELSE "down")
    /\ UNCHANGED <<table, job, read, live, past, bounds>>

----------------------------------------------------------------------------
(* The handler.                                                            *)

(* It ran to the end and committed its own work.  A pipeline run also      *)
(* retires the call's earlier failures and a CALL_ENDED still queued       *)
(* (workflow._resolve_stale_failures, in the run's last commit).           *)
RetiresSlip(e, d) == e \in Pipeline /\ d # e /\ d \in Pipeline /\ status[d] \in {"failed", "pending"}
Retires(e, d) == /\ e \in Pipeline /\ d # e
                 /\ \/ d \in Pipeline /\ status[d] = "failed"
                    \/ d \in CallEnded /\ status[d] = "pending"

Succeed(c) ==
    LET e == job[c] IN
    /\ pc[c] = "handling"
    /\ status' = [d \in Events |-> IF Retires(e, d) THEN "done" ELSE status[d]]
    /\ resolved' = resolved \cup {d \in Events : Retires(e, d)}
    /\ handled' = handled \cup {e}
    /\ Goto(c, "completing")
    /\ UNCHANGED <<attempts, cooling, job, read, live, bounds>>

RaiseSlip(c) ==
    /\ pc[c] \in {"handling", "completing"}
    /\ Goto(c, "completing")
    /\ UNCHANGED <<table, job, read, live, past, bounds>>

(* The handler, or bus.complete after it, raised.                          *)
Raise(c) ==
    /\ pc[c] \in {"handling", "completing"}
    /\ Goto(c, "raised")
    /\ UNCHANGED <<table, job, read, live, past, bounds>>

(* bus.complete.                                                           *)
Complete(c) ==
    /\ pc[c] = "completing"
    /\ status' = [status EXCEPT ![job[c]] = "done"]
    /\ Leave(c, Again(c))
    /\ UNCHANGED <<attempts, cooling, live, past, bounds>>

(* bus.fail: SELECT attempts ...                                           *)
FailRead(c) ==
    /\ pc[c] = "raised"
    /\ read' = [read EXCEPT ![c] = attempts[job[c]]]
    /\ Goto(c, "failing")
    /\ UNCHANGED <<table, job, live, past, bounds>>

(* ... and UPDATE.                                                         *)
AfterFailureSlip(n) == IF n + 1 >= MaxAttempts THEN "failed" ELSE "pending"
AfterFailure(n) == IF n >= MaxAttempts THEN "failed" ELSE "pending"

FailWrite(c) ==
    /\ pc[c] = "failing"
    /\ status' = [status EXCEPT ![job[c]] = AfterFailure(read[c])]
    /\ cooling' = cooling \cup {job[c]}
    /\ Leave(c, Again(c))
    /\ UNCHANGED <<attempts, live, past, bounds>>

(* bus.defer: a quota refusal gives the attempt back.                      *)
RefundedSlip(n) == n - 1
Refunded(n) == IF n = 0 THEN 0 ELSE n - 1

Defer(c) ==
    /\ pc[c] = "raised"
    /\ defers > 0
    /\ Row(job[c], "pending", Refunded(attempts[job[c]]))
    /\ cooling' = cooling \cup {job[c]}
    /\ defers' = defers - 1
    /\ Leave(c, Again(c))
    /\ UNCHANGED <<live, past, retries, calls, errors>>

----------------------------------------------------------------------------
(* A database error outside the handler, and the process killed, both      *)
(* leave the row as it is and the consumer down: the worker reconnects or  *)
(* the server is restarted; a drain is gone.                               *)
Busy == {"handling", "completing", "raised", "failing"}

Die(c) ==
    /\ pc[c] \in Busy
    /\ Leave(c, "down")
    /\ UNCHANGED <<table, live, past, bounds>>

IdleError(c) ==
    /\ pc[c] \in {"idle", "ready"}
    /\ errors > 0
    /\ errors' = errors - 1
    /\ Goto(c, "down")
    /\ UNCHANGED <<table, job, read, live, past, retries, defers, calls>>

----------------------------------------------------------------------------
Step(c) ==
    \/ \E e \in Events : Claim(c, e)
    \/ NothingToDo(c)
    \/ Succeed(c) \/ Raise(c)
    \/ Complete(c) \/ FailRead(c) \/ FailWrite(c) \/ Defer(c)

WorkerStep == Step(Worker) \/ Connect \/ SeeNoCall

Next ==
    \/ WorkerStep
    \/ \E c \in Drainers : StartDrain(c) \/ Step(c)
    \/ \E c \in Consumers : Die(c) \/ IdleError(c)
    \/ \E e \in Events : Publish(e) \/ Retry(e) \/ Cool(e)
    \/ CallStarts \/ CallStops

Spec == Init /\ [][Next]_vars

(* The worker thread keeps running and the server is restarted when it     *)
(* dies; time passes; calls end.  Nothing is promised of handlers (they    *)
(* may fail, or kill the process, every time), of clicks or of drains.     *)
Fairness ==
    /\ WF_vars(WorkerStep)
    /\ \A e \in Events : WF_vars(Cool(e))
    /\ WF_vars(CallStops)

FairSpec == Spec /\ Fairness

----------------------------------------------------------------------------
TypeOK ==
    /\ status \in [Events -> Statuses]
    /\ attempts \in [Events -> 0..MaxAttempts]
    /\ cooling \subseteq Events
    /\ pc \in [Consumers -> Places]
    /\ job \in [Consumers -> Events \cup {NoEvent}]
    /\ read \in [Consumers -> 0..MaxAttempts]
    /\ live \in BOOLEAN
    /\ handled \subseteq Events /\ resolved \subseteq Events
    /\ retries \in 0..MaxRetries /\ defers \in 0..MaxDefers
    /\ calls \in 0..MaxLive /\ errors \in 0..MaxErrors

(* No event is stranded: one that waits can still be claimed, so a crash,  *)
(* a failure or a retry never leaves a row no query picks up.              *)
PendingClaimable == \A e \in Events : status[e] = "pending" => attempts[e] < MaxAttempts

(* A row says 'running' only while somebody runs it or until the worker's  *)
(* next start: when the worker is between events, nothing is left running. *)
NothingLeftRunning == pc[Worker] \in {"idle", "ready"} => Running = {}

(* 'done' is the truth: the event's handler ran to the end, or a run of    *)
(* its call did.                                                           *)
DoneIsTrue == \A e \in Events : status[e] = "done" => e \in handled \cup resolved

(* The Today page's "failed after 3 attempts".                             *)
ParkedOnlyWhenSpent ==
    \A e \in Events : status[e] = "failed" => attempts[e] = MaxAttempts

(* No event is stranded, abandoned or parked early, whatever crashes, is   *)
(* refused, fails or is retried (bus.claim, bus.fail, recover_running).    *)
NothingStranded == PendingClaimable /\ NothingLeftRunning /\ ParkedOnlyWhenSpent

(* bus.recover_running: "anything left 'running' died with the previous    *)
(* process".                                                               *)
RecoveredDied ==
    [][Connect => \A c \in Consumers : job[c] \in Running => pc[c] = "down"]_vars

(* Every published event is eventually handled or parked, although a       *)
(* handler may raise or kill the process each time it runs: no event and   *)
(* no crash loop holds up the ones behind it for ever.                     *)
Settles == \A e \in Events : status[e] = "pending" ~> status[e] \in {"done", "failed"}
=============================================================================
