----------------------------- MODULE DealOutcome -----------------------------
(***************************************************************************)
(* The seller says how a deal stands (learning/outcomes.py,                *)
(* set_deal_outcome; learning/web.py): its status, stage and why it was    *)
(* lost, from browser tabs that may show an older state of the deal.  A    *)
(* save reads the deal, decides what changes, and writes that and a row of *)
(* deal_stage_history, which the weekly digest counts deals by             *)
(* (learning/weekly.py).                                                   *)
(***************************************************************************)
EXTENDS Integers, Sequences, SequencesExt, FiniteSets

CONSTANTS
    Tabs,           \* browser tabs
    Stages, Reasons, NoReason,
    MaxSaves        \* bound: saves

DealOutcomeConstants == NoReason \notin Reasons /\ MaxSaves \in Nat

VARIABLES
    deal,       \* its stage, status and lost_reason
    hist,       \* deal_stage_history
    save,       \* the save each tab has under way: what it read, what it writes
    saves,
    raced,      \* history: a save went by a deal another save had changed since
    told        \* history: how often the deal was closed

vars == <<deal, hist, save, saves, raced, told>>

Closed   == {"won", "lost"}
Statuses == {"active", "paused"} \cup Closed
Idle == [read |-> {}, wants |-> {}]

Init ==
    /\ deal \in {[stage |-> s, status |-> "active", reason |-> NoReason] : s \in Stages}
    /\ hist = <<>> /\ save = [t \in Tabs |-> Idle] /\ saves = 0 /\ raced = FALSE /\ told = 0

(* What the form submits once it is cleaned: the status always, a reason   *)
(* only with "lost".  A refused form writes nothing.                       *)
Forms == {f \in [stage : Stages, status : Statuses, reason : Reasons \cup {NoReason}, confirmed : BOOLEAN] :
            f.status # "lost" => f.reason = NoReason}

ReasonSlip(f, d) == IF f.reason # NoReason THEN f.reason ELSE d.reason
Reason(f, d) ==
    IF f.status # "lost" THEN NoReason ELSE IF f.reason # NoReason THEN f.reason ELSE d.reason

Allowed(f, d) ==
    /\ f.status \in Closed /\ f.status # d.status => f.confirmed
    /\ f.status = "lost" => Reason(f, d) # NoReason

Reads(t) ==
    /\ save[t] = Idle /\ saves < MaxSaves /\ saves' = saves + 1
    /\ \E f \in Forms :
        /\ Allowed(f, deal)
        /\ save' = [save EXCEPT ![t] = [read |-> {deal},
                        wants |-> {[stage |-> f.stage, status |-> f.status, reason |-> Reason(f, deal)]}]]
    /\ UNCHANGED <<deal, hist, raced, told>>

(* The fields that differ from what was read, in one transaction with the  *)
(* row, which says what it was changed from.                               *)
MovedSlip(d, w) == d.status # w.status
Moved(d, w) == d.stage # w.stage \/ d.status # w.status

Writes(t) ==
    /\ save[t] # Idle /\ save' = [save EXCEPT ![t] = Idle]
    /\ \E d \in save[t].read, w \in save[t].wants :
        /\ deal' = [f \in DOMAIN deal |-> IF w[f] # d[f] THEN w[f] ELSE deal[f]]
        /\ hist' = IF Moved(d, w)
                   THEN Append(hist, [from |-> [stage |-> d.stage, status |-> d.status],
                                      to |-> [stage |-> w.stage, status |-> w.status],
                                      reason |-> w.reason])
                   ELSE hist
        /\ raced' = (raced \/ d # deal)
        /\ told' = IF deal'.status \in Closed /\ deal'.status # deal.status THEN told + 1 ELSE told
    /\ UNCHANGED saves

Next == \E t \in Tabs : Reads(t) \/ Writes(t)
Spec == Init /\ [][Next]_vars

(* weekly.py, _deals_closed, over all of the history.                      *)
ClosedBy(h) == h.to.status \in Closed /\ h.from.status # h.to.status
DealsClosed == Cardinality({i \in DOMAIN hist : ClosedBy(hist[i])})

----------------------------------------------------------------------------
TypeOK ==
    /\ deal.stage \in Stages /\ deal.status \in Statuses /\ deal.reason \in Reasons \cup {NoReason}
    /\ saves \in 0..MaxSaves /\ told \in Nat /\ raced \in BOOLEAN

(* The history tells how the deal came to stand as it does: each row       *)
(* starts where the one before it ended, the last one ends at the deal,    *)
(* the digest counts every closing once, and a deal has a reason for being *)
(* lost exactly while it is.                                               *)
Tells ==
    /\ \A i \in 2..Len(hist) : hist[i].from = hist[i - 1].to
    /\ hist # <<>> => Last(hist).to = [stage |-> deal.stage, status |-> deal.status]
    /\ DealsClosed = told
    /\ (deal.status = "lost") = (deal.reason # NoReason)
HistoryTells == ~raced => Tells

(* The same whatever two tabs do at once.                                  *)
HistoryAlwaysTells == Tells
=============================================================================
