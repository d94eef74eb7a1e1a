----------------------------- MODULE DealStrategy -----------------------------
(***************************************************************************)
(* The deal strategist of one deal (salescoach/intel/strategist.py,        *)
(* tables.py, reconcile.py, methodology.py, history.py, web.py and         *)
(* plugins/intelligence.py): a run reads the deal, asks a model for        *)
(* minutes, and applies the answer in one transaction; the reconciler then *)
(* asks a model again about what the call's analyst saw differently.       *)
(*                                                                         *)
(* The worker runs the step of the pipeline and the queued requests, the   *)
(* command line runs beside it, the seller edits and switches methodology, *)
(* and either process may die.  One assessment stands for the four         *)
(* subjects, one element for those a methodology lists, one risk for all.  *)
(***************************************************************************)
EXTENDS Integers, FiniteSets

CONSTANTS
    Methods,            \* keys of the library
    First,              \* the one in use at first
    Listing,            \* those that list the element
    MaxRuns, MaxAnalyses, MaxEdits, MaxSwitches, MaxDeaths      \* bounds

ASSUME StrategyConstants ==
    /\ First \in Methods /\ Listing \subseteq Methods
    /\ {MaxRuns, MaxAnalyses, MaxEdits, MaxSwitches, MaxDeaths} \subseteq Nat

VARIABLES
    active,     \* methodology.yaml: the active one
    switching,  \* switch() has written the file and not yet queued the runs
    inputs,     \* what a prompt is made of, the methodology apart
    assessed,   \* the call's assessments: the analyst's, the strategist's
    verdicts,   \* reconciliations: the ids each cites
    risk, element,      \* gated rows: a value and its confidence
    health,     \* deal_health: score, its confidence, and the cap of the latest run
    strategy,   \* the newest strategy artifact that is not a failure
    failed,     \* the newest of all is a failure
    due,        \* the worker's pending events
    run,        \* what each process does
    left, ids,  \* bounds; the last assessment id
    word,       \* history: what the seller last set, by row
    settled,    \* history: pairs the reconciler found to agree, or died over
    late        \* history: a run of the command line outlived a switch

rows == <<risk, element, health>>
record == <<assessed, verdicts, strategy, failed, ids>>
vars == <<active, switching, inputs, record, rows, due, run, left, word, settled, late>>

Runners == {"worker", "cli"}
None == [id |-> 0, stance |-> "none"]
User == 4
Unset == [value |-> "none", conf |-> 0]
Idle == [at |-> "idle", job |-> "none", method |-> First, sha |-> <<>>, pair |-> <<>>]

Init ==
    /\ active = First /\ switching = FALSE
    /\ inputs = [analysis |-> 0, people |-> 0, edits |-> 0]
    /\ assessed = [analyst |-> None, strategist |-> None] /\ verdicts = {} /\ ids = 0
    /\ risk = Unset /\ element = Unset /\ health = [score |-> 0, conf |-> 0, cap |-> 0]
    /\ strategy = [sha |-> <<>>, method |-> First, stance |-> "none"] /\ failed = FALSE
    /\ due = {} /\ run = [p \in Runners |-> Idle]
    /\ left = [runs |-> MaxRuns, analyses |-> MaxAnalyses, edits |-> MaxEdits,
               switches |-> MaxSwitches, deaths |-> MaxDeaths]
    /\ word = [risk |-> "none", element |-> "none"] /\ settled = {} /\ late = FALSE

Spend(what) == left[what] > 0 /\ left' = [left EXCEPT ![what] = @ - 1]
Stances == {"weak", "strong"}

(* The hash of the rendered prompt, which names the elements.              *)
ShaSlip(m) == <<inputs.analysis, inputs.people, inputs.edits>>
Sha(m) == <<m, inputs.analysis, inputs.people, inputs.edits>>
Stored == strategy.sha # <<>>

(* gate.propose, and the first write of a row.                             *)
Propose(r, v, c) ==
    IF r.conf = 0 THEN [value |-> v, conf |-> c]
    ELSE IF r.value = v THEN [r EXCEPT !.conf = IF c > @ THEN c ELSE @]
    ELSE IF c < r.conf THEN r       \* parked as a conflict
    ELSE [value |-> v, conf |-> c]

(* A risk the strategist no longer raises is proposed as cleared, at the   *)
(* confidence it has; one the seller opened is left to him.                *)
ClearedSlip(r) == IF r.value = "open" THEN Propose(r, "cleared", r.conf) ELSE r
Cleared(r) == IF r.value = "open" /\ r.conf # User THEN Propose(r, "cleared", r.conf) ELSE r

----------------------------------------------------------------------------
(* The analyst's step replaces every assessment of the call; the           *)
(* strategist's step follows in the same pipeline run.                     *)
Analyse ==
    /\ run["worker"].at = "idle" /\ "step" \notin due /\ Spend("analyses")
    /\ \E changed \in BOOLEAN, stance \in Stances :
          /\ changed \/ (inputs.analysis > 0 /\ stance = assessed.analyst.stance)
          /\ inputs' = [inputs EXCEPT !.analysis = IF changed THEN @ + 1 ELSE @]
          /\ assessed' = [analyst |-> [id |-> ids + 1, stance |-> stance], strategist |-> None]
    /\ ids' = ids + 1
    /\ due' = due \cup {"step"}
    /\ UNCHANGED <<active, switching, verdicts, strategy, failed, rows, run, word, settled, late>>

(* The button of the deal page.                                            *)
Press ==
    /\ inputs.analysis > 0 /\ "button" \notin due
    /\ due' = due \cup {"button"}
    /\ UNCHANGED <<active, switching, inputs, record, rows, run, left, word, settled, late>>

(* methodology.switch: the file, then a request for an open deal with an   *)
(* analysed call.  The one in use cannot be chosen again.                  *)
SwitchWrites(m) ==
    /\ m # active /\ ~switching /\ Spend("switches")
    /\ active' = m /\ switching' = TRUE
    /\ late' = (late \/ run["cli"].at = "model")
    /\ UNCHANGED <<inputs, record, rows, due, run, word, settled>>

SwitchQueues ==
    /\ switching /\ switching' = FALSE
    /\ due' = IF inputs.analysis > 0 THEN due \cup {"switch"} ELSE due
    /\ UNCHANGED <<active, inputs, record, rows, run, left, word, settled, late>>

(* The seller edits an element of the active methodology, or a risk.       *)
SellerSets ==
    /\ Spend("edits")
    /\ inputs' = [inputs EXCEPT !.edits = @ + 1]
    /\ \/ \E v \in {"open", "dismissed"} :
             /\ risk.conf > 0
             /\ risk' = Propose(risk, v, User) /\ word' = [word EXCEPT !.risk = v]
             /\ UNCHANGED element
       \/ \E v \in {"known", "unknown"} :
             /\ active \in Listing
             /\ element' = Propose(element, v, User) /\ word' = [word EXCEPT !.element = v]
             /\ UNCHANGED risk
    /\ UNCHANGED <<active, switching, record, health, due, run, settled, late>>

----------------------------------------------------------------------------
(* A run.  Its jobs: "step", "switch", "button" (forced), "cli".           *)

Pair(as) == IF as.analyst # None /\ as.strategist # None /\ as.analyst.stance # as.strategist.stance
            THEN <<as.analyst.id, as.strategist.id>> ELSE <<>>

(* apply_assessments, and the first half of reconcile.run.                 *)
Assesses(p, job, stance) ==
    /\ ids' = ids + 1
    /\ assessed' = [assessed EXCEPT !.strategist = [id |-> ids + 1, stance |-> stance]]
    /\ verdicts' = {v \in verdicts : v[2] # assessed.strategist.id}
    /\ run' = [run EXCEPT ![p] = IF Pair(assessed') = <<>> THEN Idle
                                 ELSE [@ EXCEPT !.at = "reconcile", !.job = job, !.pair = Pair(assessed')]]

(* _ensure_materialized: a cached strategy whose assessments were deleted  *)
(* is written back.                                                        *)
MaterializedSlip == TRUE
Materialized == assessed.strategist # None

Starts(p, job) ==
    /\ run[p].at = "idle" /\ inputs.analysis > 0
    /\ IF p = "cli" THEN job = "cli" ELSE job \in due
    /\ due' = due \ {job}
    /\ \E force \in IF job = "cli" THEN BOOLEAN ELSE {job = "button"} :
          IF ~force /\ Stored /\ strategy.sha = Sha(active)
          THEN /\ UNCHANGED <<strategy, failed, left>>
               /\ IF Materialized THEN UNCHANGED <<assessed, verdicts, ids, run>>
                  ELSE Assesses(p, job, strategy.stance)
          ELSE /\ Spend("runs")
               /\ run' = [run EXCEPT ![p] = [at |-> "model", job |-> job, method |-> active,
                                             sha |-> Sha(active), pair |-> <<>>]]
               /\ UNCHANGED record
    /\ UNCHANGED <<active, switching, inputs, rows, word, settled, late>>

(* No answer; a quota refusal leaves the event to be tried again.          *)
Fails(p) ==
    /\ run[p].at = "model"
    /\ failed' = TRUE
    /\ run' = [run EXCEPT ![p] = Idle]
    /\ due' \in {due} \cup IF p = "worker" THEN {due \cup {run[p].job}} ELSE {}
    /\ UNCHANGED <<active, switching, inputs, assessed, verdicts, strategy, ids, rows, left,
                   word, settled, late>>

(* validate and apply; when a row cannot be written, all is rolled back    *)
(* and the failure stored, which is Fails without its retry.               *)
Applies(p) ==
    /\ run[p].at = "model"
    /\ \E stance \in Stances :
          /\ Assesses(p, run[p].job, stance)
          /\ strategy' = [sha |-> run[p].sha, method |-> run[p].method, stance |-> stance]
    /\ failed' = FALSE
    /\ \E raises \in BOOLEAN, conf \in {2, 3} :
          risk' = IF raises THEN Propose(risk, "open", conf) ELSE Cleared(risk)
    /\ IF run[p].method \in Listing
       THEN \E v \in {"known", "unknown"}, conf \in {1, 3} : element' = Propose(element, v, conf)
       ELSE UNCHANGED element
    /\ \E score \in 1..2, cap \in 1..2, conf \in {1, 3} :
          /\ score <= cap
          /\ health' = IF health.conf = 0 \/ conf >= health.conf
                       THEN [score |-> score, conf |-> conf, cap |-> cap]
                       ELSE [health EXCEPT !.cap = cap]
    /\ \E new \in {0, 1} : inputs' = [inputs EXCEPT !.people = IF new = 1 THEN 1 ELSE @]
    /\ UNCHANGED <<active, switching, due, left, word, settled, late>>

(* The verdict of the model, or of the fallback when it is down; or no     *)
(* disagreement after all.                                                 *)
Reconciles(p) ==
    /\ run[p].at = "reconcile"
    /\ \/ verdicts' = verdicts \cup {run[p].pair} /\ UNCHANGED settled
       \/ settled' = settled \cup {run[p].pair} /\ UNCHANGED verdicts
    /\ run' = [run EXCEPT ![p] = Idle]
    /\ UNCHANGED <<active, switching, inputs, assessed, strategy, failed, ids, rows, due, left,
                   word, late>>

(* The process dies: the worker's event is pending again on its return.    *)
Dies(p) ==
    /\ run[p].at # "idle" \/ (p = "worker" /\ switching)
    /\ Spend("deaths")
    /\ run' = [run EXCEPT ![p] = Idle]
    /\ due' = IF p = "worker" /\ run[p].at # "idle" THEN due \cup {run[p].job} ELSE due
    /\ switching' = (switching /\ p # "worker")
    /\ settled' = IF run[p].at = "reconcile" THEN settled \cup {run[p].pair} ELSE settled
    /\ late' = (late \/ (switching /\ p = "worker"))
    /\ UNCHANGED <<active, inputs, record, rows, word>>

Next ==
    \/ Analyse \/ Press \/ SwitchQueues \/ SellerSets
    \/ \E m \in Methods : SwitchWrites(m)
    \/ \E p \in Runners : \/ \E job \in {"step", "switch", "button", "cli"} : Starts(p, job)
                          \/ Fails(p) \/ Applies(p) \/ Reconciles(p) \/ Dies(p)

Spec == Init /\ [][Next]_vars

----------------------------------------------------------------------------
TypeOK ==
    /\ active \in Methods /\ switching \in BOOLEAN /\ failed \in BOOLEAN /\ late \in BOOLEAN
    /\ due \subseteq {"step", "switch", "button"}
    /\ \A p \in Runners : run[p].at \in {"idle", "model", "reconcile"}
    /\ risk.conf \in 0..User /\ element.conf \in 0..User

(* "The strategist can never overwrite" what the seller set: neither by a  *)
(* later run, nor by the sweep that clears risks, nor by a run under       *)
(* another methodology.                                                    *)
SellersWord ==
    /\ word.risk # "none" => risk.value = word.risk
    /\ word.element # "none" => element.value = word.element

(* A disagreement of the analyst and the strategist is being reconciled or *)
(* has been, unless the process died over it; and unless the last run      *)
(* failed, the strategist's side of it is there once the pipeline is done  *)
(* with the call, though the analyst's step deletes both.                  *)
NoDisagreementLost ==
    /\ Pair(assessed) # <<>> =>
          \/ Pair(assessed) \in verdicts \cup settled
          \/ \E p \in Runners : run[p].pair = Pair(assessed)
    /\ Stored /\ ~failed /\ "step" \notin due /\ run["worker"].at = "idle" =>
          assessed.strategist # None

(* After a switch the deal is read again with the new methodology, or a    *)
(* failed run is shown: never the old reading with nothing to come.        *)
SwitchReaches ==
    Stored /\ strategy.method # active =>
        \/ switching \/ failed \/ late
        \/ "switch" \in due \/ run["worker"].at = "model"

(* "the health score is capped by facts": statements of the code's         *)
(* comments that do not hold follow.                                       *)
HealthCapped == health.score <= health.cap

(* "The prompt must not contain anything the strategist's own last run     *)
(* wrote": run again on the same analysis it is served from the cache.     *)
RerunIsCached ==
    Stored /\ strategy.method = active /\ strategy.sha[2] = inputs.analysis
           /\ strategy.sha[4] = inputs.edits => strategy.sha = Sha(active)

(* "A reconciliations row that cites both": of assessments that are there. *)
VerdictsStand ==
    \A v \in verdicts : v = <<assessed.analyst.id, assessed.strategist.id>>
=============================================================================
