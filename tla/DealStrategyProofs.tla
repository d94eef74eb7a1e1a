-------------------------- MODULE DealStrategyProofs --------------------------
(* Theorems about DealStrategy, for any library of methodologies and any   *)
(* numbers of runs, analyses, edits, switches and deaths; and about what   *)
(* else is kept of a deal (Methodology, DealOutcome, Learning, Outcomes).  *)
EXTENDS MCDealStrategy, TLAPS, WellFoundedInduction, FiniteSetTheorems

Queued == {"step", "switch", "button"}
Jobs == Queued \cup {"none", "cli"}
Shas == Methods \X Nat \X Nat \X Nat
Pairs == Nat \X Nat
Values == {"none", "open", "cleared", "dismissed", "known", "unknown"}
Runs == [at : {"idle", "model", "reconcile"}, job : Jobs, method : Methods,
         sha : {<<>>} \cup Shas, pair : {<<>>} \cup Pairs]
Side == [id : Nat, stance : Stances \cup {"none"}]

Typed ==
    /\ active \in Methods /\ switching \in BOOLEAN /\ failed \in BOOLEAN /\ late \in BOOLEAN
    /\ inputs \in [analysis : Nat, people : Nat, edits : Nat]
    /\ ids \in Nat /\ assessed \in [analyst : Side, strategist : Side]
    /\ strategy \in [sha : {<<>>} \cup Shas, method : Methods, stance : Stances \cup {"none"}]
    /\ due \subseteq Queued
    /\ run \in [Runners -> Runs]

(* What the seller set has his confidence, which no run has.               *)
Ranked(r, said) ==
    /\ r \in [value : Values, conf : 0..User]
    /\ said # "none" => r.value = said /\ r.conf = User
WordHeld ==
    /\ word \in [risk : Values, element : Values]
    /\ Ranked(risk, word.risk) /\ Ranked(element, word.element)

(* A run has read a deal with an analysed call, and what its prompt names  *)
(* is its methodology; what it reconciles it has from its assessments.     *)
RunsOK ==
    /\ \A p \in Runners :
          /\ run[p].at # "reconcile" => run[p].pair = <<>>
          /\ run[p].at = "model" => run[p].sha # <<>> /\ run[p].sha[1] = run[p].method
          /\ run[p].at # "idle" => inputs.analysis > 0
    /\ run["worker"].at # "idle" => run["worker"].job \in Queued
    /\ Stored => inputs.analysis > 0 /\ strategy.sha[1] = strategy.method

(* A disagreement of the two sides is settled or somebody is at it.        *)
Heeded ==
    Pair(assessed) # <<>> =>
        \/ Pair(assessed) \in verdicts \cup settled
        \/ \E p \in Runners : run[p].pair = Pair(assessed)

(* The strategist's side is there, or its step is to come or under way.    *)
SideKept ==
    Stored /\ ~failed =>
        \/ assessed.strategist # None
        \/ "step" \in due
        \/ run["worker"].at = "model" /\ run["worker"].job = "step"

(* A run whose methodology is no longer in use is followed by another one. *)
Reached(method) == method = active \/ switching \/ late \/ "switch" \in due
SwitchFollows ==
    /\ run["worker"].at = "model" => Reached(run["worker"].method)
    /\ run["cli"].at = "model" => run["cli"].method = active \/ late
    /\ Stored => \/ Reached(strategy.method) \/ failed
                 \/ run["worker"].at = "model" /\ run["worker"].job = "switch"

(* The inductive invariant.                                                *)
IInv == Typed /\ WordHeld /\ RunsOK /\ Heeded /\ SideKept /\ SwitchFollows

----------------------------------------------------------------------------
LEMMA ConstantsFacts ==
    /\ First \in Methods /\ MaxRuns \in Nat /\ MaxAnalyses \in Nat /\ MaxEdits \in Nat
    /\ MaxSwitches \in Nat /\ MaxDeaths \in Nat
  BY StrategyConstants

LEMMA InitIInv == Init => IInv
<1> SUFFICES ASSUME Init PROVE IInv
  OBVIOUS
<1> USE ConstantsFacts DEF Init, None, Idle, Unset, User, Runners, Stances, Stored
<1>1. Typed
  BY DEF Typed, Side, Runs, Jobs, Queued
<1>2. WordHeld
  BY DEF WordHeld, Ranked, Values
<1>3. RunsOK /\ Heeded /\ SideKept /\ SwitchFollows
  BY DEF RunsOK, Heeded, SideKept, SwitchFollows, Pair
<1> QED
  BY <1>1, <1>2, <1>3 DEF IInv

----------------------------------------------------------------------------
(* gate.propose never lets a run past what the seller set, and he prevails.*)
LEMMA RunProposes ==
    ASSUME NEW r, NEW said, Ranked(r, said), NEW v \in Values, NEW c \in 1..3
    PROVE  Ranked(Propose(r, v, c), said)
  BY DEF Ranked, Propose, User

LEMMA RunClears ==
    ASSUME NEW r, NEW said, Ranked(r, said) PROVE Ranked(Cleared(r), said)
  BY DEF Ranked, Cleared, Propose, User, Values

LEMMA SellerProposes ==
    ASSUME NEW r, NEW said, Ranked(r, said), NEW v \in Values
    PROVE  Ranked(Propose(r, v, User), v)
  BY DEF Ranked, Propose, User

(* What apply_assessments leaves behind: the strategist's side, with ids   *)
(* of its own, and a run that reconciles any disagreement there is.        *)
LEMMA Assessing ==
    ASSUME Typed, RunsOK, inputs.analysis > 0,
           NEW p \in Runners, NEW job \in Jobs, NEW stance \in Stances \cup {"none"},
           Assesses(p, job, stance), run[p].at # "reconcile"
    PROVE  /\ ids' \in Nat /\ assessed' \in [analyst : Side, strategist : Side]
           /\ run' \in [Runners -> Runs]
           /\ assessed'.strategist # None
           /\ \A q \in Runners : q # p => run'[q] = run[q]
           /\ run'[p].at \in {"idle", "reconcile"}
           /\ run'[p].at = "idle" => run'[p].pair = <<>>
           /\ run'[p].at = "reconcile" => run'[p].job = job
           /\ Pair(assessed') # <<>> => run'[p].pair = Pair(assessed')
<1>1. ids' \in Nat /\ assessed' \in [analyst : Side, strategist : Side] /\ assessed'.strategist # None
  BY DEF Assesses, Typed, Side, None
<1>2. Pair(assessed') \in {<<>>} \cup Pairs
  BY <1>1 DEF Pair, Pairs, Side
<1>3. Idle \in Runs /\ Idle.at = "idle" /\ Idle.pair = <<>>
  BY ConstantsFacts DEF Idle, Runs, Jobs, Queued
<1>4. run[p] \in Runs
  BY DEF Typed
<1>5. CASE Pair(assessed') = <<>>
  <2>1. run' = [run EXCEPT ![p] = Idle]
    BY <1>5 DEF Assesses
  <2> QED
    BY <1>1, <1>3, <1>5, <2>1 DEF Typed
<1>6. CASE Pair(assessed') # <<>>
  <2>1. run' = [run EXCEPT ![p] = [@ EXCEPT !.at = "reconcile", !.job = job, !.pair = Pair(assessed')]]
    BY <1>6 DEF Assesses
  <2>2. [run[p] EXCEPT !.at = "reconcile", !.job = job, !.pair = Pair(assessed')] \in Runs
    BY <1>2, <1>4 DEF Runs
  <2> QED
    BY <1>1, <1>4, <2>1, <2>2 DEF Typed, Runs
<1> QED
  BY <1>5, <1>6

----------------------------------------------------------------------------
LEMMA AnalyseIInv == ASSUME IInv, Analyse PROVE IInv'
<1> USE DEF IInv, Analyse, rows, record
<1>1. Typed'
  BY DEF Typed, Side, None, Stances, Queued
<1>2. WordHeld'
  BY DEF WordHeld
<1>3. RunsOK'
  BY DEF RunsOK, Typed, Stored
<1>4. Heeded' /\ SideKept' /\ SwitchFollows'
  BY DEF Heeded, Pair, SideKept, SwitchFollows, Stored, Reached
<1> QED
  BY <1>1, <1>2, <1>3, <1>4

LEMMA PressIInv == ASSUME IInv, Press PROVE IInv'
  BY DEF IInv, Press, rows, record, Typed, Queued, WordHeld, RunsOK, Heeded, SideKept, SwitchFollows, Stored, Reached

LEMMA SwitchWritesIInv == ASSUME IInv, NEW m \in Methods, SwitchWrites(m) PROVE IInv'
<1> USE DEF IInv, SwitchWrites, rows, record
<1>1. Typed' /\ WordHeld'
  BY DEF Typed, WordHeld
<1>2. RunsOK' /\ Heeded' /\ SideKept'
  BY DEF RunsOK, Heeded, SideKept, Stored
<1>3. SwitchFollows'
  BY DEF SwitchFollows, Reached
<1> QED
  BY <1>1, <1>2, <1>3

(* A request is queued when there is a call to read: there is none before  *)
(* a first run either.                                                     *)
LEMMA SwitchQueuesIInv == ASSUME IInv, SwitchQueues PROVE IInv'
<1> USE DEF IInv, SwitchQueues, rows, record
<1>1. Typed' /\ WordHeld'
  BY DEF Typed, WordHeld, Queued
<1>2. RunsOK' /\ Heeded' /\ SideKept'
  BY DEF RunsOK, Heeded, SideKept, Stored
<1>3. SwitchFollows'
  BY DEF SwitchFollows, Reached, RunsOK, Stored, Typed, Runners
<1> QED
  BY <1>1, <1>2, <1>3

LEMMA SellerSetsIInv == ASSUME IInv, SellerSets PROVE IInv'
<1> USE DEF IInv, record
<1>1. Typed' /\ RunsOK' /\ Heeded' /\ SideKept' /\ SwitchFollows'
  BY DEF SellerSets, Typed, RunsOK, Stored, Heeded, SideKept, SwitchFollows, Reached
<1>2. WordHeld'
  <2>1. ASSUME NEW v \in {"open", "dismissed"}, risk' = Propose(risk, v, User),
               word' = [word EXCEPT !.risk = v], element' = element
        PROVE  WordHeld'
    <3>1. v \in Values
      BY DEF Values
    <3> QED
      BY <2>1, <3>1, SellerProposes DEF WordHeld
  <2>2. ASSUME NEW v \in {"known", "unknown"}, element' = Propose(element, v, User),
               word' = [word EXCEPT !.element = v], risk' = risk
        PROVE  WordHeld'
    <3>1. v \in Values
      BY DEF Values
    <3> QED
      BY <2>2, <3>1, SellerProposes DEF WordHeld
  <2> QED
    BY <2>1, <2>2 DEF SellerSets
<1> QED
  BY <1>1, <1>2

----------------------------------------------------------------------------
(* A run is served from the cache, and the assessments are written back if *)
(* the analyst's step deleted them, or the model is asked.                 *)
LEMMA StartsIInv == ASSUME IInv, NEW p \in Runners, NEW job \in Queued \cup {"cli"}, Starts(p, job) PROVE IInv'
<1> USE DEF IInv, rows, record
<1>1. /\ run[p].at = "idle" /\ inputs.analysis > 0 /\ due' = due \ {job}
      /\ p = "cli" <=> job = "cli"
      /\ UNCHANGED <<active, switching, inputs, risk, element, health, word, settled, late>>
  BY DEF Starts, Typed, Runners, Queued
<1>2. WordHeld'
  BY <1>1 DEF WordHeld
<1>3. CASE Stored /\ strategy.sha = Sha(active) /\ Materialized
           /\ UNCHANGED <<strategy, failed, left, assessed, verdicts, ids, run>>
  <2>1. strategy.method = active
    BY <1>3 DEF RunsOK, Sha
  <2>2. Typed' /\ RunsOK' /\ Heeded'
    BY <1>1, <1>3 DEF Typed, RunsOK, Stored, Heeded, Pair
  <2>3. SideKept' /\ SwitchFollows'
    BY <1>1, <1>3, <2>1 DEF SideKept, SwitchFollows, Reached, Materialized, Stored, Runners, Jobs, Queued
  <2> QED
    BY <1>2, <2>2, <2>3
<1>4. CASE Stored /\ strategy.sha = Sha(active) /\ Assesses(p, job, strategy.stance)
           /\ UNCHANGED <<strategy, failed, left>>
  <2>1. strategy.method = active
    BY <1>4 DEF RunsOK, Sha
  <2>2. /\ ids' \in Nat /\ assessed' \in [analyst : Side, strategist : Side]
        /\ run' \in [Runners -> Runs]
        /\ assessed'.strategist # None
        /\ \A q \in Runners : q # p => run'[q] = run[q]
        /\ run'[p].at \in {"idle", "reconcile"}
        /\ run'[p].at = "idle" => run'[p].pair = <<>>
        /\ run'[p].at = "reconcile" => run'[p].job = job
        /\ Pair(assessed') # <<>> => run'[p].pair = Pair(assessed')
    BY <1>1, <1>4, Assessing DEF Typed, Jobs
  <2>3. Typed'
    BY <1>1, <1>4, <2>2 DEF Typed, Stored
  <2>6. RunsOK'
    BY <1>1, <1>4, <2>2 DEF Typed, RunsOK, Stored, Runners, Queued
  <2>4. Heeded' /\ SideKept'
    BY <2>2 DEF Heeded, SideKept
  <2>5. SwitchFollows'
    BY <1>1, <1>4, <2>1, <2>2 DEF SwitchFollows, Reached, Stored, Runners, Jobs, Queued
  <2> QED
    BY <1>2, <2>3, <2>4, <2>5, <2>6
<1>5. CASE /\ run' = [run EXCEPT ![p] = [at |-> "model", job |-> job, method |-> active,
                                         sha |-> Sha(active), pair |-> <<>>]]
           /\ UNCHANGED <<assessed, verdicts, strategy, failed, ids>>
  <2>1. Sha(active) \in Shas /\ Sha(active)[1] = active /\ Sha(active) # <<>>
    BY DEF Sha, Shas, Typed
  <2>2. [at |-> "model", job |-> job, method |-> active, sha |-> Sha(active), pair |-> <<>>] \in Runs
    BY <2>1 DEF Runs, Typed, Jobs
  <2>3. Typed'
    BY <1>1, <1>5, <2>2 DEF Typed
  <2>4. RunsOK'
    BY <1>1, <1>5, <2>1 DEF RunsOK, Stored, Typed
  <2>5. Heeded'
    BY <1>1, <1>5 DEF Heeded, Pair, RunsOK, Typed
  <2>6. SideKept' /\ SwitchFollows'
    BY <1>1, <1>5 DEF SideKept, SwitchFollows, Reached, Stored, Runners, Typed
  <2> QED
    BY <1>2, <2>3, <2>4, <2>5, <2>6
<1> QED
  BY <1>3, <1>4, <1>5 DEF Starts

LEMMA FailsIInv == ASSUME IInv, NEW p \in Runners, Fails(p) PROVE IInv'
<1> USE DEF IInv, rows, Fails
<1>1. Idle \in Runs /\ Idle.at = "idle" /\ Idle.pair = <<>>
  BY ConstantsFacts DEF Idle, Runs, Jobs, Queued
<1>2. due \subseteq due' /\ due' \subseteq Queued
  BY DEF RunsOK, Typed, Queued
<1>3. Typed' /\ WordHeld'
  BY <1>1, <1>2 DEF Typed, WordHeld
<1>4. RunsOK' /\ Heeded'
  BY <1>1 DEF RunsOK, Stored, Heeded, Pair, Typed
<1>5. SideKept' /\ SwitchFollows'
  BY <1>1, <1>2 DEF SideKept, SwitchFollows, Reached, Stored, Runners, Typed
<1> QED
  BY <1>3, <1>4, <1>5

LEMMA AppliesIInv == ASSUME IInv, NEW p \in Runners, Applies(p) PROVE IInv'
<1> USE DEF IInv
<1>1. PICK stance \in Stances : /\ Assesses(p, run[p].job, stance)
                                /\ strategy' = [sha |-> run[p].sha, method |-> run[p].method, stance |-> stance]
  BY DEF Applies
<1>2. /\ run[p].at = "model" /\ failed' = FALSE
      /\ UNCHANGED <<active, switching, due, left, word, settled, late>>
  BY DEF Applies
<1>3. run[p] \in Runs /\ run[p].job \in Jobs /\ inputs.analysis > 0 /\ run[p].sha # <<>>
      /\ run[p].sha[1] = run[p].method
  BY <1>2 DEF Typed, RunsOK, Runs
<1>4. /\ ids' \in Nat /\ assessed' \in [analyst : Side, strategist : Side]
      /\ run' \in [Runners -> Runs]
      /\ assessed'.strategist # None
      /\ \A q \in Runners : q # p => run'[q] = run[q]
      /\ run'[p].at \in {"idle", "reconcile"}
      /\ run'[p].at = "idle" => run'[p].pair = <<>>
      /\ run'[p].at = "reconcile" => run'[p].job = run[p].job
      /\ Pair(assessed') # <<>> => run'[p].pair = Pair(assessed')
  BY <1>1, <1>2, <1>3, Assessing
<1>5. inputs' \in [analysis : Nat, people : Nat, edits : Nat] /\ inputs'.analysis = inputs.analysis
  BY DEF Applies, Typed
<1>6. Typed'
  BY <1>1, <1>2, <1>3, <1>4, <1>5 DEF Typed, Runs
<1>7. WordHeld'
  <2>1. Ranked(risk', word.risk)
    <3>1. \E raises \in BOOLEAN, conf \in {2, 3} :
              risk' = IF raises THEN Propose(risk, "open", conf) ELSE Cleared(risk)
      BY DEF Applies
    <3>2. "open" \in Values
      BY DEF Values
    <3>3. Ranked(risk, word.risk) /\ {2, 3} \subseteq 1..3
      BY DEF WordHeld
    <3>4. \A conf \in {2, 3} : Ranked(Propose(risk, "open", conf), word.risk)
      BY <3>2, <3>3, RunProposes
    <3>5. Ranked(Cleared(risk), word.risk)
      BY <3>3, RunClears
    <3> QED
      BY <3>1, <3>4, <3>5, Zenon
  <2>2. Ranked(element', word.element)
    <3>1. \/ element' = element
          \/ \E v \in {"known", "unknown"}, conf \in {1, 3} : element' = Propose(element, v, conf)
      BY DEF Applies
    <3>2. {"known", "unknown"} \subseteq Values
      BY DEF Values
    <3>3. Ranked(element, word.element) /\ {1, 3} \subseteq 1..3
      BY DEF WordHeld
    <3>4. \A v \in {"known", "unknown"}, conf \in {1, 3} : Ranked(Propose(element, v, conf), word.element)
      BY <3>2, <3>3, RunProposes
    <3> QED
      BY <3>1, <3>3, <3>4, Zenon
  <2> QED
    BY <1>2, <2>1, <2>2 DEF WordHeld
<1>8. RunsOK'
  BY <1>1, <1>2, <1>3, <1>4, <1>5 DEF RunsOK, Stored, Runners
<1>9. Heeded' /\ SideKept'
  BY <1>4 DEF Heeded, SideKept
<1>10. SwitchFollows'
  BY <1>1, <1>2, <1>3, <1>4 DEF SwitchFollows, Reached, Runners
<1> QED
  BY <1>6, <1>7, <1>8, <1>9, <1>10

LEMMA ReconcilesIInv == ASSUME IInv, NEW p \in Runners, Reconciles(p) PROVE IInv'
<1> USE DEF IInv, rows, Reconciles
<1>1. Idle \in Runs /\ Idle.at = "idle" /\ Idle.pair = <<>>
  BY ConstantsFacts DEF Idle, Runs, Jobs, Queued
<1>2. Typed' /\ WordHeld'
  BY <1>1 DEF Typed, WordHeld
<1>3. RunsOK' /\ Heeded'
  BY <1>1 DEF RunsOK, Stored, Heeded, Pair, Typed
<1>4. SideKept' /\ SwitchFollows'
  BY <1>1 DEF SideKept, SwitchFollows, Reached, Stored, Runners, Typed
<1> QED
  BY <1>2, <1>3, <1>4

(* The worker's event is pending again, with the methodology of then.      *)
LEMMA DiesIInv == ASSUME IInv, NEW p \in Runners, Dies(p) PROVE IInv'
<1> USE DEF IInv, rows, record, Dies
<1>1. Idle \in Runs /\ Idle.at = "idle" /\ Idle.pair = <<>>
  BY ConstantsFacts DEF Idle, Runs, Jobs, Queued
<1>2. due \subseteq due' /\ due' \subseteq Queued
  BY DEF RunsOK, Typed, Runners
<1>3. Typed' /\ WordHeld'
  BY <1>1, <1>2 DEF Typed, WordHeld
<1>4. RunsOK' /\ Heeded'
  BY <1>1 DEF RunsOK, Stored, Heeded, Pair, Typed
<1>5. SideKept' /\ SwitchFollows'
  BY <1>1, <1>2 DEF SideKept, SwitchFollows, Reached, Stored, Runners, Typed
<1> QED
  BY <1>3, <1>4, <1>5

----------------------------------------------------------------------------
LEMMA StepIInv == IInv /\ [Next]_vars => IInv'
<1> SUFFICES ASSUME IInv, [Next]_vars PROVE IInv'
  OBVIOUS
<1>1. CASE Analyse \/ Press \/ SwitchQueues \/ SellerSets
  BY <1>1, AnalyseIInv, PressIInv, SwitchQueuesIInv, SellerSetsIInv
<1>2. ASSUME NEW m \in Methods, SwitchWrites(m) PROVE IInv'
  BY <1>2, SwitchWritesIInv
<1>3. ASSUME NEW p \in Runners, NEW job \in {"step", "switch", "button", "cli"}, Starts(p, job) PROVE IInv'
  BY <1>3, StartsIInv DEF Queued
<1>4. ASSUME NEW p \in Runners, Fails(p) \/ Applies(p) \/ Reconciles(p) \/ Dies(p) PROVE IInv'
  BY <1>4, FailsIInv, AppliesIInv, ReconcilesIInv, DiesIInv
<1>5. CASE UNCHANGED vars
  BY <1>5 DEF vars, rows, record, IInv, Typed, WordHeld, RunsOK, Heeded, Pair, SideKept, SwitchFollows,
              Stored, Reached
<1> QED
  BY <1>1, <1>2, <1>3, <1>4, <1>5 DEF Next

LEMMA Invariance == Spec => []IInv
  BY InitIInv, StepIInv, PTL DEF Spec

(* The state stays of its type: an event that waits is one of the worker's.*)
THEOREM TypeCorrect == Spec => []TypeOK
<1>1. IInv => TypeOK
  BY DEF IInv, Typed, TypeOK, Queued, Runs, WordHeld, Ranked
<1> QED
  BY <1>1, Invariance, PTL

(* No run of the strategist overwrites what the seller set, whichever      *)
(* process runs it, under whichever methodology (gate.propose,             *)
(* strategist.apply_assessments).                                          *)
THEOREM HisWordStands == Spec => []SellersWord
<1>1. IInv => SellersWord
  BY DEF IInv, WordHeld, Ranked, SellersWord
<1> QED
  BY <1>1, Invariance, PTL

(* A disagreement is reconciled and its sides written back, and a switch   *)
(* of the methodology reaches the deal, whoever dies or fails meanwhile    *)
(* (_ensure_materialized, reconcile.run, methodology.switch).              *)
THEOREM NothingIsMissed == Spec => []NothingMissed
<1>1. IInv => NoDisagreementLost
  BY DEF IInv, Heeded, SideKept, NoDisagreementLost
<1>2. IInv => SwitchReaches
  BY DEF IInv, SwitchFollows, Reached, SwitchReaches
<1> QED
  BY <1>1, <1>2, Invariance, PTL DEF NothingMissed

----------------------------------------------------------------------------
(* Of the methodology as data, for any library.                            *)

(* Whatever the two files hold there is a methodology in use; no form      *)
(* takes it away or replaces it by another than the one it saves, and the  *)
(* one chosen is in use (methodology._library, save, delete, switch).      *)
THEOREM OneIsInUse == InUseStays
<1> SUFFICES ASSUME NEW t \in Files, NEW o \in Overlay, NEW k \in Library
             PROVE  LET u == Active(t, o) IN
                    /\ u \in Found(t, o)
                    /\ MayDelete(t, o, k) => Active(t, Delete(t, o, k)) = u
                    /\ MaySave(t, o, k) => Active(t, Save(t, o, k)) \in {u, k}
                    /\ MayChoose(t, o, k) => Active(t, Chosen(t, o, k)) = k
  BY DEF InUseStays
<1> USE MethodologyConstants DEF Files, Overlay
<1>1. Active(t, o) \in Found(t, o) /\ Found(t, o) \subseteq Library /\ "meddpicc" \in Found(t, o)
  BY DEF Active, Found, BuiltIn, Custom
<1>2. ASSUME MayDelete(t, o, k) PROVE Active(t, Delete(t, o, k)) = Active(t, o)
  <2>1. /\ Delete(t, o, k).active = IF o.active = "none" THEN "meddpicc" ELSE o.active
        /\ Delete(t, o, k).custom = [o.custom EXCEPT ![k] = "absent"]
    BY DEF Delete, SaveActive
  <2>2. Found(t, o) \ {k} \subseteq Found(t, Delete(t, o, k))
    BY <2>1 DEF Found, BuiltIn, Custom
  <2>3. Found(t, Delete(t, o, k)) \subseteq Found(t, o)
    BY <2>1 DEF Found, BuiltIn, Custom
  <2>4. k # Active(t, o)
    BY <1>2 DEF MayDelete
  <2> QED
    BY <1>1, <2>1, <2>2, <2>3, <2>4 DEF Active
<1>3. ASSUME MaySave(t, o, k) PROVE Active(t, Save(t, o, k)) \in {Active(t, o), k}
  <2>1. /\ Save(t, o, k).active = IF o.active = "none" THEN "meddpicc" ELSE o.active
        /\ Save(t, o, k).custom = [o.custom EXCEPT ![k] = "valid"]
    BY DEF Save, SaveActive
  <2>2. Found(t, Save(t, o, k)) = Found(t, o) \cup {k}
    BY <1>3, <2>1 DEF Found, BuiltIn, Custom, MaySave
  <2> QED
    BY <1>1, <2>1, <2>2 DEF Active
<1>4. ASSUME MayChoose(t, o, k) PROVE Active(t, Chosen(t, o, k)) = k
  <2>1. Chosen(t, o, k) = [active |-> k, custom |-> o.custom]
    BY DEF Chosen, SaveActive
  <2> QED
    BY <1>4, <2>1 DEF MayChoose, Active, Found, BuiltIn, Custom
<1> QED
  BY <1>1, <1>2, <1>3, <1>4

LEMMA LeastNumber == ASSUME NEW T, T \subseteq Nat, T # {} PROVE Min(T) \in T /\ \A y \in T : Min(T) <= y
<1> DEFINE Less == {ss \in Nat \X Nat : ss[1] < ss[2]}
<1>1. OpToRel(<, Nat) = Less
  BY DEF OpToRel
<1>2. IsWellFoundedOn(Less, Nat)
  BY <1>1, NatLessThanWellFounded
<1>3. PICK x \in T : \A y \in T : ~ (<<y, x>> \in Less)
  <2> HIDE DEF Less
  <2> QED
    BY <1>2, WFMin
<1>4. ASSUME NEW y \in T PROVE x <= y
  <2>1. x \in Nat /\ y \in Nat /\ <<y, x>> \in Nat \X Nat
    OBVIOUS
  <2>2. ~ (y < x)
    BY <1>3, <2>1
  <2> QED
    BY <2>1, <2>2
<1> QED
  BY <1>4 DEF Min

(* A claim with a quote that is not there is low, one with a doubtful      *)
(* quote at most medium.                                                   *)
LEMMA JudgedLevels ==
    ASSUME NEW conf \in 1..3, NEW how
    PROVE  /\ Judged(conf, how) \in 1..3
           /\ Judged(conf, how) >= 2 => conf >= 2 /\ IsFound(how)
<1>1. Min({conf, 2}) \in {conf, 2} /\ Min({conf, 2}) <= conf
  BY LeastNumber
<1> QED
  BY <1>1 DEF Judged, IsFound

LEMMA KnownIsBorne ==
    ASSUME NEW item, item.conf \in 1..3, Status(item) = "known"
    PROVE  Borne(item)
<1>1. /\ item.status = "known" /\ Entries(item) >= 2
      /\ \E h \in item.quotes : IsFound(h)
  BY DEF Status
<1> DEFINE Levels == {Judged(item.conf, h) : h \in item.quotes}
<1>2. Levels # {} /\ Levels \subseteq Nat
  BY <1>1, JudgedLevels
<1>3. Entries(item) = Min(Levels)
  BY <1>1 DEF Entries
<1>4. \A h \in item.quotes : Judged(item.conf, h) >= 2
  <2> HIDE DEF Levels
  <2>1. ASSUME NEW l \in Levels PROVE l >= 2
    <3>1. Min(Levels) \in Levels /\ Min(Levels) <= l
      BY <1>2, LeastNumber
    <3>2. Min(Levels) >= 2
      BY <1>1, <1>3, Zenon
    <3>3. Min(Levels) \in Nat /\ l \in Nat
      BY <1>2, <3>1
    <3> QED
      BY <3>1, <3>2, <3>3
  <2> QED
    BY <2>1 DEF Levels
<1>5. item.conf >= 2 /\ \A h \in item.quotes : IsFound(h)
  BY <1>1, <1>4, JudgedLevels
<1> QED
  BY <1>1, <1>5 DEF Borne, IsFound

(* The guard against false optimism, for any methodology, deal and numbers *)
(* of an install: an element that the quotes of the calls do not bear out  *)
(* is not known, and if it is critical the score stays under its cap       *)
(* (strategist.validate, health_caps).                                     *)
THEOREM NoFalseOptimism ==
    ASSUME NEW m, NEW answer, NEW facts, NEW tuning, NEW e \in m.elements,
           \A x \in m.elements : x.critical => x.cap \in Nat,
           m.known # <<>> => m.known.cap \in Nat,
           \A r \in DOMAIN tuning : tuning[r] \in Nat,
           answer.score \in Nat,
           \A k \in DOMAIN answer.items : answer.items[k].conf \in 1..3,
           e.key \in DOMAIN answer.items => ~Borne(answer.items[e.key])
    PROVE  /\ Validate(m, answer, facts, tuning).status[e.key] # "known"
           /\ e.critical => Validate(m, answer, facts, tuning).score <= Tuned(e.rule, e.cap, tuning)
<1> DEFINE status == StatusesOf(m, answer)
           caps == Caps(m, status, facts, tuning)
<1>1. status[e.key] # "known"
  <2>1. status[e.key] = Status(IF e.key \in DOMAIN answer.items THEN answer.items[e.key] ELSE Missing)
    BY DEF StatusesOf
  <2>2. CASE e.key \in DOMAIN answer.items
    BY <2>1, <2>2, KnownIsBorne
  <2>3. CASE e.key \notin DOMAIN answer.items
    BY <2>1, <2>3 DEF Status, Missing
  <2> QED
    BY <2>2, <2>3
<1> HIDE DEF status
<1>2. \A x \in m.elements : x.critical => Tuned(x.rule, x.cap, tuning) \in Nat
  BY DEF Tuned
<1>3. m.known # <<>> => Tuned(m.known.rule, m.known.cap, tuning) \in Nat
  BY DEF Tuned
<1>4. caps \subseteq Nat
  BY <1>2, <1>3 DEF Caps
<1>5. e.critical => Tuned(e.rule, e.cap, tuning) \in caps
  BY <1>1 DEF Caps
<1> HIDE DEF caps
<1>6. \A y \in {answer.score} \cup caps : Min({answer.score} \cup caps) <= y
  BY <1>4, LeastNumber
<1>7. /\ Validate(m, answer, facts, tuning).status = status
      /\ Validate(m, answer, facts, tuning).score = Min({answer.score} \cup caps)
  BY DEF Validate, status, caps
<1> QED
  BY <1>1, <1>5, <1>6, <1>7

(* Induction over the numbers, from the least one that a set lacks.        *)
LEMMA Induction ==
  ASSUME NEW N \in Nat, NEW S, 0 \in S, \A n \in 1..N : n - 1 \in S => n \in S
  PROVE  0..N \subseteq S
<1> SUFFICES ASSUME (0..N) \ S # {} PROVE FALSE
  OBVIOUS
<1>1. PICK m \in (0..N) \ S : \A k \in (0..N) \ S : m <= k
  <2>1. (0..N) \ S \subseteq Nat
    OBVIOUS
  <2> QED
    BY <2>1, LeastNumber
<1>2. m \in 1..N /\ m - 1 \in 0..N /\ ~(m <= m - 1)
  BY <1>1
<1> QED
  BY <1>1, <1>2

(* The comprehension is a function of how much of the list it has read.    *)
KeptSoFar(keys, wanted, N, f) ==
    f = [i \in 0..N |-> IF i = 0 THEN <<>>
                        ELSE IF keys[i] \in wanted THEN Append(f[i - 1], keys[i]) ELSE f[i - 1]]

LEMMA KeptSteps ==
  ASSUME NEW keys, NEW wanted, NEW N \in Nat, NEW f, KeptSoFar(keys, wanted, N, f)
  PROVE  /\ f[0] = <<>>
         /\ \A n \in 1..N : f[n] = IF keys[n] \in wanted THEN Append(f[n - 1], keys[n]) ELSE f[n - 1]
<1> DEFINE Entry(i) == IF i = 0 THEN <<>>
                       ELSE IF keys[i] \in wanted THEN Append(f[i - 1], keys[i]) ELSE f[i - 1]
<1>1. f = [i \in 0..N |-> Entry(i)]
  BY DEF KeptSoFar
<1> HIDE DEF Entry
<1>2. \A i \in 0..N : f[i] = Entry(i)
  BY <1>1
<1>3. 0 \in 0..N /\ \A n \in 1..N : n \in 0..N /\ n # 0
  OBVIOUS
<1> QED
  BY <1>2, <1>3, Zenon DEF Entry

LEMMA KeptExists ==
  ASSUME NEW keys, NEW wanted, NEW N \in Nat
  PROVE  \E f : KeptSoFar(keys, wanted, N, f)
<1> DEFINE S == {n \in 0..N : \E f : KeptSoFar(keys, wanted, n, f)}
<1>1. 0 \in S
  <2> DEFINE z == [i \in 0..0 |-> <<>>]
  <2>1. z = [i \in 0..0 |-> z[i]] /\ \A i \in 0..0 : z[i] = <<>> /\ i = 0
    OBVIOUS
  <2> HIDE DEF z
  <2>3. \A i \in 0..0 : z[i] = IF i = 0 THEN <<>> ELSE IF keys[i] \in wanted
                                               THEN Append(z[i - 1], keys[i]) ELSE z[i - 1]
    BY <2>1
  <2>2. KeptSoFar(keys, wanted, 0, z)
    BY <2>1, <2>3 DEF KeptSoFar
  <2> QED
    BY <2>2
<1>2. ASSUME NEW n \in 1..N, n - 1 \in S PROVE n \in S
  <2>1. PICK f : KeptSoFar(keys, wanted, n - 1, f)
    BY <1>2
  <2> DEFINE last == IF keys[n] \in wanted THEN Append(f[n - 1], keys[n]) ELSE f[n - 1]
             g == [i \in 0..n |-> IF i = n THEN last ELSE f[i]]
  <2>2. \A i \in 0..(n - 1) : g[i] = f[i]
    OBVIOUS
  <2>0. n - 1 \in Nat
    OBVIOUS
  <2>3. \A i \in 1..(n - 1) :
            f[i] = IF keys[i] \in wanted THEN Append(f[i - 1], keys[i]) ELSE f[i - 1]
    BY <2>0, <2>1, KeptSteps
  <2>4. f[0] = <<>>
    BY <2>0, <2>1, KeptSteps
  <2>5. \A i \in 1..n : g[i] = IF keys[i] \in wanted THEN Append(g[i - 1], keys[i]) ELSE g[i - 1]
    <3>1. g[n] = last /\ n - 1 \in 0..(n - 1)
      OBVIOUS
    <3>2. \A i \in 1..n : i = n \/ (i \in 1..(n - 1) /\ i - 1 \in 0..(n - 1) /\ i \in 0..(n - 1))
      OBVIOUS
    <3> HIDE DEF g
    <3> QED
      BY <2>2, <2>3, <3>1, <3>2, Zenon
  <2>6. g[0] = <<>> /\ g = [i \in 0..n |-> g[i]]
    BY <2>2, <2>4
  <2> HIDE DEF g
  <2>8. \A i \in 0..n : g[i] = IF i = 0 THEN <<>> ELSE IF keys[i] \in wanted
                                               THEN Append(g[i - 1], keys[i]) ELSE g[i - 1]
    <3>1. \A i \in 0..n : i = 0 \/ i \in 1..n
      OBVIOUS
    <3> QED
      BY <2>5, <2>6, <3>1
  <2>7. KeptSoFar(keys, wanted, n, g)
    BY <2>6, <2>8 DEF KeptSoFar
  <2> QED
    BY <2>7
<1> HIDE DEF S
<1>3. 0..N \subseteq S
  BY <1>1, <1>2, Induction
<1> QED
  BY <1>3 DEF S

(* What a comprehension keeps: the wanted ones, each as often as listed.   *)
LEMMA KeptIs ==
  ASSUME NEW K, NEW keys \in Seq(K), NEW wanted
  PROVE  /\ Kept(keys, wanted) \in Seq(K)
         /\ ToSet(Kept(keys, wanted)) = ToSet(keys) \cap wanted
         /\ IsInjective(keys) => IsInjective(Kept(keys, wanted))
<1> DEFINE N == Len(keys)
           f == CHOOSE f : KeptSoFar(keys, wanted, N, f)
<1>1. N \in Nat
  OBVIOUS
<1>2. KeptSoFar(keys, wanted, N, f)
  BY <1>1, KeptExists
<1>3. Kept(keys, wanted) = f[N]
  BY DEF Kept, KeptSoFar
<1> HIDE DEF f
<1> HIDE DEF N
<1>4. f[0] = <<>>
  BY <1>1, <1>2, KeptSteps
<1>5. \A n \in 1..N : f[n] = IF keys[n] \in wanted THEN Append(f[n - 1], keys[n]) ELSE f[n - 1]
  BY <1>1, <1>2, KeptSteps
<1>11. DOMAIN keys = 1..N /\ \A n \in 1..N : keys[n] \in K
  BY DEF N
<1> DEFINE Read(n) == {keys[i] : i \in 1..n}
           Right(n) == /\ f[n] \in Seq(K)
                       /\ \A k : (\E j \in DOMAIN f[n] : f[n][j] = k) <=> k \in wanted /\ k \in Read(n)
                       /\ IsInjective(keys) => IsInjective(f[n])
           S == {n \in 0..N : Right(n)}
<1>6. Right(0)
  BY <1>4 DEF IsInjective
<1>7. ASSUME NEW n \in 1..N, Right(n - 1) PROVE Right(n)
  <2>1. /\ n - 1 \in Nat /\ keys[n] \in K
        /\ Read(n) = Read(n - 1) \cup {keys[n]}
    <3>1. 1..n = (1..(n - 1)) \cup {n} /\ n - 1 \in Nat
      BY <1>1
    <3>2. Read(n) = Read(n - 1) \cup {keys[n]}
      BY <3>1, Zenon
    <3> QED
      BY <1>11, <3>1, <3>2
  <2>2. CASE keys[n] \notin wanted
    <3>1. f[n] = f[n - 1]
      BY <1>5, <2>2
    <3> HIDE DEF Read
    <3> QED
      BY <1>7, <2>1, <2>2, <3>1
  <2>3. CASE keys[n] \in wanted
    <3>1. f[n] = Append(f[n - 1], keys[n])
      BY <1>5, <2>3
    <3>2. /\ f[n] \in Seq(K) /\ Len(f[n]) = Len(f[n - 1]) + 1 /\ f[n][Len(f[n])] = keys[n]
          /\ \A j \in 1..Len(f[n - 1]) : f[n][j] = f[n - 1][j]
          /\ DOMAIN f[n] = 1..Len(f[n]) /\ DOMAIN f[n - 1] = 1..Len(f[n - 1])
          /\ Len(f[n - 1]) \in Nat
      BY <1>7, <2>1, <3>1
    <3>3. ASSUME NEW k PROVE (\E j \in DOMAIN f[n] : f[n][j] = k) <=> k \in wanted /\ k \in Read(n)
      <4>1. (\E j \in DOMAIN f[n] : f[n][j] = k) <=> (\E j \in DOMAIN f[n - 1] : f[n - 1][j] = k) \/ k = keys[n]
        <5> HIDE DEF f
        <5>1. \A j \in DOMAIN f[n] : j \in DOMAIN f[n - 1] \/ j = Len(f[n])
          BY <3>2
        <5>2. \A j \in DOMAIN f[n - 1] : j \in DOMAIN f[n] /\ f[n][j] = f[n - 1][j]
          BY <3>2
        <5>3. Len(f[n]) \in DOMAIN f[n]
          BY <3>2
        <5> QED
          BY <3>2, <5>1, <5>2, <5>3, Zenon
      <4>2. (\E j \in DOMAIN f[n - 1] : f[n - 1][j] = k) <=> k \in wanted /\ k \in Read(n - 1)
        BY <1>7
      <4> HIDE DEF Read
      <4> QED
        BY <2>1, <2>3, <4>1, <4>2
    <3>4. ASSUME IsInjective(keys) PROVE IsInjective(f[n])
      <4>1. keys[n] \notin Read(n - 1)
        BY <1>1, <1>11, <3>4 DEF IsInjective
      <4>2. \A j \in DOMAIN f[n - 1] : f[n - 1][j] # keys[n]
        BY <1>7, <4>1
      <4>3. \A i, j \in DOMAIN f[n - 1] : f[n - 1][i] = f[n - 1][j] => i = j
        BY <1>7, <3>4 DEF IsInjective
      <4>4. \A i, j \in DOMAIN f[n] : f[n][i] = f[n][j] => i = j
        <5>1. \A j \in DOMAIN f[n] : j \in DOMAIN f[n - 1] \/ j = Len(f[n])
          BY <3>2
        <5>2. \A j \in DOMAIN f[n - 1] : f[n][j] = f[n - 1][j]
          BY <3>2
        <5> QED
          BY <3>2, <4>2, <4>3, <5>1, <5>2, Zenon
      <4> QED
        BY <4>4 DEF IsInjective
    <3> QED
      BY <3>2, <3>3, <3>4
  <2> QED
    BY <2>2, <2>3
<1> HIDE DEF Right
<1>8. 0 \in S /\ \A n \in 1..N : n - 1 \in S => n \in S
  BY <1>1, <1>6, <1>7
<1> HIDE DEF S
<1>9. 0..N \subseteq S
  BY <1>1, <1>8, Induction
<1>10. Right(N)
  BY <1>1, <1>9 DEF S
<1> QED
  BY <1>3, <1>10, <1>11 DEF Right, ToSet

(* The gaps of a deal are ranked whatever a valid definition lists: what   *)
(* ranks them names every element once (methodology.build).                *)
LEMMA GapsAreRanked ==
  ASSUME NEW K, NEW d, d.elements \in Seq(K), NEW Names, d.order \in Seq(Names), Valid(d)
  PROVE  IsInjective(Build(d).order) /\ ToSet(Build(d).order) = {e.key : e \in Build(d).elements}
<1> DEFINE keys == KeysOf(d)
           Keys == {e.key : e \in K}
           first == IF d.order # <<>> THEN d.order ELSE Critical(d)
           rest == Rest(first, keys)
<1>1. /\ keys \in Seq(Keys) /\ DOMAIN keys = DOMAIN d.elements
      /\ \A i \in DOMAIN d.elements : keys[i] = d.elements[i].key
  BY DEF KeysOf
<1>2. IsInjective(keys)
  BY DEF Valid
<1>3. ToSet(keys) = {e.key : e \in ToSet(d.elements)}
  BY <1>1 DEF ToSet
<1>4. {e.key : e \in Build(d).elements} = {e.key : e \in ToSet(d.elements)}
  <2> DEFINE Built(e) == [key |-> e.key, critical |-> e.critical, cap |-> e.cap, risk |-> e.risk,
                          rule |-> IF ~e.critical THEN <<>>
                                   ELSE IF e.rule # <<>> THEN e.rule ELSE <<"not_known", e.key>>]
  <2>1. Build(d).elements = {Built(e) : e \in ToSet(d.elements)}
    BY DEF Build
  <2>2. \A e : Built(e).key = e.key
    OBVIOUS
  <2> HIDE DEF Built
  <2> QED
    BY <2>1, <2>2
<1> HIDE DEF keys
<1>5. IsInjective(first) /\ ToSet(first) \subseteq ToSet(keys) /\ first \in Seq(Names) \cup Seq(Keys)
  <2>1. CASE d.order = <<>>
    <3>1. first = Kept(keys, {e.key : e \in {e \in ToSet(d.elements) : e.critical}})
      BY <2>1 DEF Critical, keys
    <3> QED
      BY <1>1, <1>2, <3>1, KeptIs
  <2>2. CASE d.order # <<>>
    <3>1. first = d.order /\ IsInjective(d.order) /\ ToSet(d.order) \subseteq ToSet(keys)
      BY <2>2 DEF Valid, keys
    <3> QED
      BY <3>1
  <2> QED
    BY <2>1, <2>2
<1>6. /\ IsInjective(rest) /\ rest \in Seq(Keys)
      /\ ToSet(rest) = ToSet(keys) \ ToSet(first)
  <2>1. rest = Kept(keys, ToSet(keys) \ ToSet(first))
    BY DEF Rest
  <2> HIDE DEF first
  <2> QED
    BY <1>1, <1>2, <2>1, KeptIs
<1>7. Build(d).order = first \o rest
  BY DEF Build, keys
<1> HIDE DEF first, rest
<1>8. /\ DOMAIN (first \o rest) = 1..(Len(first) + Len(rest))
      /\ \A i \in 1..Len(first) : (first \o rest)[i] = first[i]
      /\ \A i \in (Len(first) + 1)..(Len(first) + Len(rest)) : (first \o rest)[i] = rest[i - Len(first)]
      /\ Len(first) \in Nat /\ Len(rest) \in Nat
      /\ DOMAIN first = 1..Len(first) /\ DOMAIN rest = 1..Len(rest)
  BY <1>5, <1>6
<1> DEFINE all == first \o rest
<1> HIDE DEF all
<1>9. ToSet(all) = ToSet(keys)
  <2>1. \A k \in ToSet(all) : k \in ToSet(first) \cup ToSet(rest)
    BY <1>8 DEF ToSet, all
  <2>2. \A i \in DOMAIN first : first[i] = all[i] /\ i \in DOMAIN all
    BY <1>8 DEF all
  <2>3. \A i \in DOMAIN rest : rest[i] = all[i + Len(first)] /\ i + Len(first) \in DOMAIN all
    BY <1>8 DEF all
  <2>4. ToSet(first) \cup ToSet(rest) \subseteq ToSet(all)
    BY <2>2, <2>3 DEF ToSet
  <2> QED
    BY <1>5, <1>6, <2>1, <2>4
<1>10. IsInjective(all)
  <2> SUFFICES ASSUME NEW i \in DOMAIN all, NEW j \in DOMAIN all, all[i] = all[j] PROVE i = j
    BY DEF IsInjective
  <2>1. \A x \in DOMAIN first, y \in DOMAIN rest : first[x] # rest[y]
    BY <1>6 DEF ToSet
  <2>2. i \in 1..Len(first) \/ i - Len(first) \in 1..Len(rest)
    BY <1>8 DEF all
  <2>3. j \in 1..Len(first) \/ j - Len(first) \in 1..Len(rest)
    BY <1>8 DEF all
  <2>4. \A x, y \in DOMAIN first : first[x] = first[y] => x = y
    BY <1>5 DEF IsInjective
  <2>5. \A x, y \in DOMAIN rest : rest[x] = rest[y] => x = y
    BY <1>6 DEF IsInjective
  <2> QED
    BY <1>8, <2>1, <2>2, <2>3, <2>4, <2>5 DEF all
<1> QED
  BY <1>3, <1>4, <1>7, <1>9, <1>10 DEF all

(* Of the gaps, the methodology in use and the score, for any definitions, *)
(* files and answers of the install (methodology.build, _library,          *)
(* strategist.validate).                                                   *)
THEOREM ReadingIsSound == AllSpec => []ReadingHolds
<1>1. GapsTotal
  <2>1. \A d \in ValidOnes : /\ d.elements \in Seq(Element) /\ d.order \in Seq(ElementKeys)
                               /\ Valid(d)
    <3> SUFFICES ASSUME NEW d \in Definition
                 PROVE  d.elements \in Seq(Element) /\ d.order \in Seq(ElementKeys)
      BY DEF ValidOnes
    <3>1. PICK n \in 1..2 : d.elements \in [1..n -> Element]
      BY DEF Definition
    <3>2. d.order = <<>> \/ \E k \in ElementKeys : d.order = <<k>>
      BY DEF Definition
    <3>3. d.order \in Seq(ElementKeys)
      <4>1. ASSUME NEW k \in ElementKeys PROVE <<k>> \in Seq(ElementKeys)
        OBVIOUS
      <4>2. <<>> \in Seq(ElementKeys)
        OBVIOUS
      <4> QED
        BY <3>2, <4>1, <4>2, Zenon
    <3> QED
      BY <3>1, <3>3
  <2> QED
    BY <2>1, GapsAreRanked DEF GapsTotal
<1>2. LibraryHolds
  BY <1>1, OneIsInUse DEF LibraryHolds
<1>3. OptimismGuarded
  <2> SUFFICES ASSUME NEW d \in ValidOnes, NEW a \in Answers(ToSet(KeysOf(d))),
                      NEW e \in Build(d).elements, ~Borne(a.items[e.key])
               PROVE  LET v == Validate(Build(d), a, [buyers |-> 2, dated |-> TRUE], <<>>) IN
                      /\ e.critical => v.score <= e.cap
                      /\ v.status[e.key] # "known"
    BY DEF OptimismGuarded
  <2> DEFINE b == Build(d)
             facts == [buyers |-> 2, dated |-> TRUE]
  <2>1. d \in Definition /\ Valid(d)
    BY DEF ValidOnes
  <2>2. \A x \in ToSet(d.elements) : x.critical => x.cap \in Nat
    <3>1. \A i \in DOMAIN d.elements : LET x == d.elements[i] IN x.critical => x.cap \in 0..100
      BY <2>1 DEF Valid
    <3> QED
      BY <3>1 DEF ToSet
  <2>3. \A x \in b.elements : x.critical => x.cap \in Nat
    BY <2>2 DEF Build
  <2>4. b.known # <<>> => b.known.cap \in Nat
    <3>1. d.known = <<>> \/ d.known \in [count : 1..2, cap : {50}, rule : {<<>>}]
      BY <2>1 DEF Definition
    <3>2. d.known = <<>> => b.known = <<>>
      BY DEF Build
    <3>3. d.known \in [count : 1..2, cap : {50}, rule : {<<>>}] /\ d.known # <<>> => b.known.cap = 50
      BY DEF Build
    <3> QED
      BY <3>1, <3>2, <3>3
  <2>5. a.score \in Nat /\ \A k \in DOMAIN a.items : a.items[k].conf \in 1..3
    BY DEF Answers, Item
  <2>6. DOMAIN <<>> = {}
    OBVIOUS
  <2> HIDE DEF b
  <2>7. /\ Validate(b, a, facts, <<>>).status[e.key] # "known"
        /\ e.critical => Validate(b, a, facts, <<>>).score <= Tuned(e.rule, e.cap, <<>>)
    <3>1. e \in b.elements
      BY DEF b
    <3> HIDE DEF facts
    <3> QED
      BY <2>3, <2>4, <2>5, <2>6, <3>1, NoFalseOptimism
  <2>8. Tuned(e.rule, e.cap, <<>>) = e.cap
    BY <2>6 DEF Tuned
  <2> QED
    BY <2>7, <2>8 DEF b
<1>4. ReadingHolds
  BY <1>2, <1>3 DEF ReadingHolds
<1> QED
  BY <1>4, PTL

----------------------------------------------------------------------------
(* Of a deal's stage, for any tabs, stages, reasons and saves.             *)

Reasoned(d) == d.status = "lost" <=> d.reason # NoReason
DealRow == [stage : Stages, status : D!Statuses, reason : Reasons \cup {NoReason}]
Standing(d) == [stage |-> d.stage, status |-> d.status]
Standings == [stage : Stages, status : D!Statuses]
Moves == [from : Standings, to : Standings, reason : Reasons \cup {NoReason}]

(* What a save read and is to write; and as long as no save went by a deal *)
(* changed since, the history tells how the deal came to stand.            *)
StageOK ==
    /\ deal \in DealRow /\ hist \in Seq(Moves) /\ saves \in 0..MaxSaves
    /\ told \in Nat /\ raced \in BOOLEAN
    /\ save \in [Tabs -> [read : SUBSET DealRow, wants : SUBSET DealRow]]
    /\ \A t \in Tabs : \A w \in save[t].wants : Reasoned(w)
    /\ ~raced => D!Tells

LEMMA Counted ==
    ASSUME NEW h \in Seq(Moves), NEW m \in Moves
    PROVE  Cardinality({i \in DOMAIN Append(h, m) : D!ClosedBy(Append(h, m)[i])})
             = Cardinality({i \in DOMAIN h : D!ClosedBy(h[i])}) + (IF D!ClosedBy(m) THEN 1 ELSE 0)
<1> DEFINE old == {i \in DOMAIN h : D!ClosedBy(h[i])}
           new == {i \in DOMAIN Append(h, m) : D!ClosedBy(Append(h, m)[i])}
<1>1. IsFiniteSet(old) /\ Cardinality(old) \in Nat
  <2>1. old \subseteq 1..Len(h) /\ IsFiniteSet(1..Len(h))
    BY FS_Interval
  <2> QED
    BY <2>1, FS_Subset, FS_CardinalityType
<1>2. new = IF D!ClosedBy(m) THEN old \cup {Len(h) + 1} ELSE old
  OBVIOUS
<1>3. Len(h) + 1 \notin old
  OBVIOUS
<1> HIDE DEF old, new
<1> QED
  <2>1. Cardinality(new) = Cardinality(old) + (IF D!ClosedBy(m) THEN 1 ELSE 0)
    <3>1. Cardinality(old \cup {Len(h) + 1}) = Cardinality(old) + 1
      BY <1>1, <1>3, FS_AddElement
    <3> QED
      BY <1>1, <1>2, <3>1
  <2> QED
    BY <2>1 DEF old, new

LEMMA StageInit == D!DealOutcomeConstants /\ D!Init => StageOK
<1> SUFFICES ASSUME D!DealOutcomeConstants, D!Init PROVE StageOK
  OBVIOUS
<1> USE DEF D!Init, D!DealOutcomeConstants
<1>1. deal \in DealRow /\ deal.status = "active" /\ deal.reason = NoReason
  BY DEF DealRow, D!Statuses
<1>2. save \in [Tabs -> [read : SUBSET DealRow, wants : SUBSET DealRow]] /\ \A t \in Tabs : save[t].wants = {}
  BY DEF D!Idle
<1>3. D!DealsClosed = 0
  <2> DEFINE none == {i \in DOMAIN hist : D!ClosedBy(hist[i])}
  <2>1. none = {}
    OBVIOUS
  <2>2. D!DealsClosed = Cardinality(none)
    BY DEF D!DealsClosed, D!Cardinality, Cardinality
  <2> QED
    BY <2>1, <2>2, FS_EmptySet
<1>4. D!Tells
  BY <1>1, <1>3 DEF D!Tells
<1>5. hist \in Seq(Moves) /\ saves \in 0..MaxSaves /\ told \in Nat
  OBVIOUS
<1>7. raced \in BOOLEAN
  BY Zenon
<1>6. \A t \in Tabs : \A w \in save[t].wants : Reasoned(w)
  BY <1>2
<1> HIDE DEF D!Init
<1> QED
  BY <1>1, <1>2, <1>4, <1>5, <1>6, <1>7, Zenon DEF StageOK

LEMMA StageReads == ASSUME D!DealOutcomeConstants, StageOK, NEW t \in Tabs, D!Reads(t) PROVE StageOK'
<1>1. PICK f \in D!Forms :
        /\ D!Allowed(f, deal)
        /\ save' = [save EXCEPT ![t] = [read |-> {deal},
                       wants |-> {[stage |-> f.stage, status |-> f.status, reason |-> D!Reason(f, deal)]}]]
  BY DEF D!Reads
<1> DEFINE w == [stage |-> f.stage, status |-> f.status, reason |-> D!Reason(f, deal)]
<1>2. w \in DealRow /\ Reasoned(w)
  BY <1>1 DEF D!Forms, D!Allowed, D!Reason, DealRow, Reasoned, StageOK
<1>3. /\ save' \in [Tabs -> [read : SUBSET DealRow, wants : SUBSET DealRow]]
      /\ \A u \in Tabs : \A x \in save'[u].wants : Reasoned(x)
  <2> HIDE DEF w
  <2>1. [read |-> {deal}, wants |-> {w}] \in [read : SUBSET DealRow, wants : SUBSET DealRow]
    BY <1>2 DEF StageOK
  <2>2. save' = [save EXCEPT ![t] = [read |-> {deal}, wants |-> {w}]]
    BY <1>1 DEF w
  <2> QED
    BY <1>2, <2>1, <2>2 DEF StageOK
<1>4. UNCHANGED <<deal, hist, raced, told>> /\ saves' \in 0..MaxSaves
  BY DEF D!Reads, StageOK, D!DealOutcomeConstants
<1>5. D!Tells => D!Tells'
  BY <1>4 DEF D!Tells, D!DealsClosed
<1> QED
  BY <1>3, <1>4, <1>5 DEF StageOK

(* A save that goes by the deal as it stands appends what changed; one     *)
(* that goes by an older one is no longer accounted for.                   *)
LEMMA StageWrites == ASSUME D!DealOutcomeConstants, StageOK, NEW t \in Tabs, D!Writes(t) PROVE StageOK'
<1>1. PICK d \in save[t].read, w \in save[t].wants :
        /\ deal' = [f \in DOMAIN deal |-> IF w[f] # d[f] THEN w[f] ELSE deal[f]]
        /\ hist' = IF D!Moved(d, w)
                   THEN Append(hist, [from |-> Standing(d), to |-> Standing(w), reason |-> w.reason])
                   ELSE hist
        /\ raced' = (raced \/ d # deal)
        /\ told' = IF deal'.status \in D!Closed /\ deal'.status # deal.status THEN told + 1 ELSE told
  BY DEF D!Writes, Standing
<1>2. d \in DealRow /\ w \in DealRow /\ Reasoned(w) /\ deal \in DealRow
  BY <1>1 DEF StageOK
<1>3. deal' \in DealRow
  BY <1>1, <1>2 DEF DealRow
<1>4. [from |-> Standing(d), to |-> Standing(w), reason |-> w.reason] \in Moves
  BY <1>2 DEF Moves, Standing, Standings, DealRow
<1>5. hist' \in Seq(Moves) /\ told' \in Nat /\ raced' \in BOOLEAN /\ saves' = saves
  BY <1>1, <1>4 DEF StageOK, D!Writes
<1>6. /\ save' \in [Tabs -> [read : SUBSET DealRow, wants : SUBSET DealRow]]
      /\ \A u \in Tabs : \A x \in save'[u].wants : Reasoned(x)
  BY DEF D!Writes, D!Idle, StageOK
<1>7. ASSUME ~raced' PROVE D!Tells'
  <2>1. ~raced /\ d = deal /\ D!Tells
    BY <1>1, <1>7 DEF StageOK
  <2>2. deal' = w
    BY <1>1, <1>2, <2>1 DEF DealRow
  <2>3. D!Closed' = D!Closed /\ deal'.status = w.status /\ deal'.stage = w.stage
    BY <2>2
  <2>4. CASE D!Moved(d, w)
    <3> DEFINE m == [from |-> Standing(d), to |-> Standing(w), reason |-> w.reason]
    <3>1. m \in Moves /\ hist \in Seq(Moves) /\ hist' = Append(hist, m)
      BY <1>1, <1>4, <2>4 DEF StageOK
    <3>2. m.from = Standing(deal) /\ m.to = Standing(w)
      BY <2>1
    <3>3. D!DealsClosed' = told'
      <4>1. D!DealsClosed' = D!DealsClosed + (IF D!ClosedBy(m) THEN 1 ELSE 0)
        <5> DEFINE Count(h) == Cardinality({i \in DOMAIN h : D!ClosedBy(h[i])})
        <5>1. D!DealsClosed = Count(hist) /\ D!DealsClosed' = Count(hist')
          BY DEF D!DealsClosed, D!Cardinality, Cardinality
        <5>2. Count(Append(hist, m)) = Count(hist) + (IF D!ClosedBy(m) THEN 1 ELSE 0)
          BY <3>1, Counted
        <5> QED
          BY <3>1, <5>1, <5>2
      <4>2. D!ClosedBy(m) <=> deal'.status \in D!Closed /\ deal'.status # deal.status
        BY <2>1, <2>2 DEF D!ClosedBy, Standing
      <4> QED
        BY <1>1, <2>1, <4>1, <4>2 DEF D!Tells, StageOK
    <3> HIDE DEF m
    <3>4. \A i \in 2..Len(hist') : hist'[i].from = hist'[i - 1].to
      BY <2>1, <3>1, <3>2 DEF D!Tells, D!Last, Standing
    <3>5. hist' # <<>> /\ hist'[Len(hist')].to = Standing(deal')
      BY <2>2, <3>1, <3>2
    <3> QED
      BY <1>2, <2>2, <3>3, <3>4, <3>5 DEF D!Tells, D!Last, Reasoned, Standing
  <2>5. CASE ~ D!Moved(d, w)
    <3>1. hist' = hist /\ Standing(deal') = Standing(deal) /\ told' = told
      BY <1>1, <2>1, <2>2, <2>5 DEF D!Moved, Standing
    <3> QED
      BY <1>2, <2>1, <2>2, <3>1 DEF D!Tells, D!DealsClosed, D!Last, Reasoned, Standing
  <2> QED
    BY <2>4, <2>5
<1> QED
  BY <1>3, <1>5, <1>6, <1>7 DEF StageOK

LEMMA StageStep == D!DealOutcomeConstants /\ StageOK /\ [D!Next]_(D!vars) => StageOK'
  BY StageReads, StageWrites DEF D!Next, D!vars, StageOK, D!Tells, D!DealsClosed, Reasoned

(* As long as no save went by a deal another one had changed, the history  *)
(* tells how the deal came to stand, and the digest counts its closings    *)
(* (outcomes.set_deal_outcome, weekly._deals_closed).                      *)
THEOREM HistoryIsTold == AllSpec => []HistoryTells
<1> DEFINE Inv == part = "stage" => StageOK
<1>1. AllInit => Inv
  BY PartConstants, StageInit DEF AllInit
<1>2. Inv /\ [AllNext]_<<part, vars, lvars, ovars, dvars>> => Inv'
  <2> SUFFICES ASSUME Inv, [AllNext]_<<part, vars, lvars, ovars, dvars>>, part' = "stage" PROVE StageOK'
    OBVIOUS
  <2>1. part = "stage" /\ [D!Next]_(D!vars)
    BY DEF AllNext, dvars, D!vars
  <2> QED
    BY <2>1, PartConstants, StageStep
<1>3. Inv => HistoryTells
  BY DEF HistoryTells, StageOK, DealRow, D!TypeOK, D!HistoryTells
<1> QED
  BY <1>1, <1>2, <1>3, PTL DEF AllSpec
----------------------------------------------------------------------------
(* What is learned (Learning), for any tags, pairs that read alike, calls, *)
(* deals and bounds.                                                       *)

LCalls == 1..MaxCalls
Users == {"none", "confirmed", "wrong", "retired"}
Statuses == {"absent", "candidate", "active", "dormant", "retired"}
Pattern == [status : Statuses, label : {"none", "emerging", "established"}, seen : SUBSET LCalls,
            returned : BOOLEAN, user : Users, merged : Tags \cup {"none"}, hidden : BOOLEAN]
Word == [user : Users, merged : Tags \cup {"none"}, hidden : BOOLEAN]
Ask == [open : BOOLEAN, decided : Int]

LearnTyped ==
    /\ calls \in [LCalls -> Tags \cup {"none", "todo"}]
    /\ obs \in [Tags -> SUBSET LCalls] /\ wrong \in [Tags -> SUBSET LCalls]
    /\ row \in [Tags -> Pattern]
    /\ proposal \in [L!Subjects -> Ask]
    /\ nudges \in [shown : Nat, bad : Nat, shownSince : Nat, badSince : Nat]
    /\ weight \in Nat /\ offered \in Nat
    /\ lWord \in [Tags -> Word] /\ evidence \in [L!Subjects -> Int]

(* A pattern's row carries the seller's word; one that is deleted had none.*)
SaidIsKept ==
    \A t \in Tags : /\ L!Said(row[t]) = lWord[t]
                    /\ row[t].status = "absent" => row[t] = L!Absent
                    /\ row[t].user \in {"wrong", "retired"} => row[t].status = "retired"

(* What is excluded of a tag is all of it or nothing, as he last said.     *)
WrongIsOut == \A t \in Tags : wrong[t] = IF row[t].user = "wrong" THEN obs[t] ELSE {}

(* A call is observed under one tag, and what is not excluded is in the    *)
(* pattern at the end of the tag's merges and in no other.                 *)
OneTagEach == \A t, u \in Tags : obs[t] \cap obs[u] # {} => t = u
InOnePattern ==
    \A t \in Tags, c \in LCalls : c \in obs[t] =>
        /\ c \notin wrong[t] => \E u \in Tags : \A v \in Tags : c \in row[v].seen <=> v = u
        /\ c \in wrong[t] => \A v \in Tags : c \notin row[v].seen
        /\ c \notin wrong[t] /\ row[t].merged = "none" => c \in row[t].seen

(* What is kept of a decision is at least what spoke for it.               *)
DecidedOnAll == \A s \in L!Subjects : proposal[s].decided >= evidence[s]

LearnInv == LearnTyped /\ SaidIsKept /\ WrongIsOut /\ OneTagEach /\ InOnePattern /\ DecidedOnAll

LEMMA LearnFacts ==
  /\ L!LearningConstants /\ "none" \notin Tags /\ "todo" \notin Tags
  /\ MaxCalls \in Nat /\ Floor \in Nat /\ Weight \in Nat /\ Factor \in Nat /\ Factor > 1
  /\ IsFiniteSet(LCalls) /\ IsFiniteSet(Tags) /\ Cardinality(Tags) \in Nat
  /\ \A s \in Similar : s[1] \in Tags /\ s[2] \in Tags
<1>1. L!LearningConstants
  BY PartConstants
<1>2. MaxCalls \in Nat /\ Floor \in Nat /\ Weight \in Nat /\ Factor \in Nat /\ Factor > 1
  BY <1>1 DEF L!LearningConstants
<1>3. IsFiniteSet(Tags) /\ Cardinality(Tags) \in Nat
  <2>1. IsFiniteSet(Tags)
    BY <1>1 DEF L!LearningConstants, L!IsFiniteSet, IsFiniteSet
  <2> QED
    BY <2>1, FS_CardinalityType
<1>4. IsFiniteSet(LCalls)
  BY <1>2, FS_Interval DEF LCalls
<1>5. \A s \in Similar : s[1] \in Tags /\ s[2] \in Tags
  BY <1>1 DEF L!LearningConstants
<1> QED
  BY <1>1, <1>2, <1>3, <1>4, <1>5 DEF L!LearningConstants

LEMMA SameCardinality == \A S : L!Cardinality(S) = Cardinality(S)
  BY DEF L!Cardinality, Cardinality

(* A function can be applied over and over again.                          *)
LEMMA Chains ==
  ASSUME NEW f \in [Tags -> Tags], NEW t \in Tags
  PROVE  \A n \in Nat : \E h \in [0..n -> Tags] :
             h[0] = t /\ \A k \in 1..n : h[k] = f[h[k - 1]]
<1> DEFINE Fit(n, h) == h[0] = t /\ \A k \in 1..n : h[k] = f[h[k - 1]]
           Bad == {n \in Nat : ~\E h \in [0..n -> Tags] : Fit(n, h)}
<1> SUFFICES ASSUME Bad # {} PROVE FALSE
  OBVIOUS
<1>1. PICK n \in Bad : \A m \in Bad : n <= m
  <2>1. Bad \subseteq Nat
    OBVIOUS
  <2> HIDE DEF Bad
  <2> QED
    BY <2>1, LeastNumber
<1>2. CASE n = 0
  <2> DEFINE h == [k \in 0..0 |-> t]
  <2>1. h \in [0..0 -> Tags] /\ Fit(0, h)
    OBVIOUS
  <2> QED
    BY <1>1, <1>2, <2>1
<1>3. CASE n # 0
  <2>1. n \in Nat /\ n - 1 \in Nat /\ n - 1 \notin Bad
    <3>1. n \in Nat
      OBVIOUS
    <3> HIDE DEF Bad
    <3> QED
      BY <1>1, <1>3, <3>1
  <2>2. PICK h \in [0..n - 1 -> Tags] : Fit(n - 1, h)
    BY <2>1
  <2> DEFINE g == [k \in 0..n |-> IF k = n THEN f[h[n - 1]] ELSE h[k]]
  <2>3. h[n - 1] \in Tags
    BY <2>1, <2>2
  <2>4. g \in [0..n -> Tags]
    BY <2>1, <2>2, <2>3
  <2>5. Fit(n, g)
    <3>1. g[0] = t
      BY <1>3, <2>1, <2>2
    <3>2. ASSUME NEW k \in 1..n PROVE g[k] = f[g[k - 1]]
      <4>1. g[k - 1] = h[k - 1]
        BY <2>1
      <4>2. CASE k = n
        BY <2>1, <4>1, <4>2
      <4>3. CASE k # n
        <5>1. k \in 1..n - 1 /\ g[k] = h[k]
          BY <2>1, <4>3
        <5> QED
          BY <2>2, <4>1, <5>1
      <4> QED
        BY <4>2, <4>3
    <3> QED
      BY <3>1, <3>2
  <2> HIDE DEF g
  <2> QED
    BY <1>1, <2>4, <2>5
<1> QED
  BY <1>2, <1>3

(* Where a pattern's observations end up: a tag, which is at its own end;  *)
(* and the tag itself if it is merged into none.                           *)
LEMMA TargetFacts ==
  ASSUME NEW r \in [Tags -> Pattern], NEW t \in Tags
  PROVE  /\ L!Target(r, t) \in Tags
         /\ ~L!Into(r, t) => L!Target(r, t) = t
         /\ L!Target(r, L!Target(r, t)) = L!Target(r, t)
<1> DEFINE f == [x \in Tags |-> IF L!Into(r, x) THEN r[x].merged ELSE x]
           N == L!Cardinality(Tags)
<1>1. ASSUME NEW x \in Tags
      PROVE  \E last \in Tags : /\ L!Target(r, x) = IF L!Into(r, last) THEN x ELSE last
                                /\ ~L!Into(r, x) => last = x
  <2> DEFINE Chain(h) == h = [k \in 0..N |-> IF k = 0 THEN x ELSE IF L!Into(r, h[k - 1])
                                                               THEN r[h[k - 1]].merged
                                                               ELSE h[k - 1]]
             hop == CHOOSE h : Chain(h)
  <2>1. f \in [Tags -> Tags]
    BY DEF L!Into
  <2>2. \E h : Chain(h)
    <3>1. N \in Nat
      BY LearnFacts, SameCardinality
    <3> HIDE DEF N
    <3>2. PICK h \in [0..N -> Tags] : h[0] = x /\ \A k \in 1..N : h[k] = f[h[k - 1]]
      <4> HIDE DEF f
      <4> QED
        BY <2>1, <3>1, Chains
    <3>3. \A k \in 0..N : h[k] = IF k = 0 THEN x ELSE IF L!Into(r, h[k - 1])
                                                      THEN r[h[k - 1]].merged ELSE h[k - 1]
      <4> TAKE k \in 0..N
      <4>1. k # 0 => k \in 1..N /\ h[k - 1] \in Tags
        BY <3>1
      <4> QED
        BY <3>2, <4>1
    <3>4. Chain(h)
      BY <3>3
    <3> QED
      BY <3>4
  <2>3. Chain(hop)
    BY <2>2
  <2>4. L!Target(r, x) = IF L!Into(r, hop[N]) THEN x ELSE hop[N]
    BY DEF L!Target
  <2> HIDE DEF hop
  <2>5. \A k \in 0..N : hop[k] = IF k = 0 THEN x ELSE IF L!Into(r, hop[k - 1])
                                                      THEN r[hop[k - 1]].merged ELSE hop[k - 1]
    BY <2>3
  <2> HIDE DEF N, Chain
  <2>6. \A k \in 0..N : hop[k] \in Tags /\ (~L!Into(r, x) => hop[k] = x)
    <3> DEFINE Bad == {k \in 0..N : ~(hop[k] \in Tags /\ (~L!Into(r, x) => hop[k] = x))}
    <3> SUFFICES ASSUME Bad # {} PROVE FALSE
      OBVIOUS
    <3>1. PICK k \in Bad : \A m \in Bad : k <= m
      <4>1. Bad \subseteq Nat
        OBVIOUS
      <4> HIDE DEF Bad
      <4> QED
        BY <4>1, LeastNumber
    <3>2. N \in Nat /\ k \in 0..N
      BY LearnFacts, SameCardinality DEF N
    <3>3. k # 0
      BY <2>5, <3>2
    <3>4. k - 1 \in 0..N /\ k - 1 \notin Bad
      <4> HIDE DEF Bad
      <4> QED
        BY <3>1, <3>2, <3>3
    <3>5. hop[k - 1] \in Tags /\ (~L!Into(r, x) => hop[k - 1] = x)
      BY <3>4
    <3>6. hop[k] = IF L!Into(r, hop[k - 1]) THEN r[hop[k - 1]].merged ELSE hop[k - 1]
      BY <2>5, <3>2, <3>3
    <3>7. L!Into(r, hop[k - 1]) => r[hop[k - 1]].merged \in Tags
      BY DEF L!Into
    <3> QED
      BY <3>1, <3>5, <3>6, <3>7
  <2>7. N \in 0..N
    BY LearnFacts, SameCardinality DEF N
  <2> QED
    BY <2>4, <2>6, <2>7
<1>2. PICK last \in Tags : /\ L!Target(r, t) = IF L!Into(r, last) THEN t ELSE last
                           /\ ~L!Into(r, t) => last = t
  BY <1>1
<1>3. \A x \in Tags : ~L!Into(r, x) => L!Target(r, x) = x
  BY <1>1
<1> QED
  BY <1>2, <1>3

LEMMA AbsentFacts ==
  /\ L!Absent \in Pattern /\ L!Absent.status = "absent" /\ L!Absent.seen = {}
  /\ L!Absent.user = "none" /\ L!Absent.merged = "none" /\ L!Absent.hidden = FALSE
  BY DEF L!Absent, L!None, Pattern, Statuses, Users

(* A row that is counted keeps the seller's word, and has what was seen of *)
(* the tags that end in it.                                                *)
LEMMA CountedRow ==
  ASSUME NEW r \in [Tags -> Pattern], NEW o \in [Tags -> SUBSET LCalls], NEW w \in [Tags -> SUBSET LCalls],
         NEW t \in Tags, r[t].status = "absent" => r[t] = L!Absent
  PROVE  /\ L!Counted(r, o, w, t) \in Pattern
         /\ L!Said(L!Counted(r, o, w, t)) = L!Said(r[t])
         /\ L!Counted(r, o, w, t).status = "absent" => L!Counted(r, o, w, t) = L!Absent
         /\ L!Counted(r, o, w, t).user \in {"wrong", "retired"}
                => L!Counted(r, o, w, t).status = "retired"
         /\ \A d : d \in L!Counted(r, o, w, t).seen
                   <=> /\ L!Target(r, t) = t
                       /\ \E s \in Tags : L!Target(r, s) = t /\ d \in o[s] \ w[s]
<1> DEFINE c == L!Counted(r, o, w, t)
           from == {s \in Tags : L!Target(r, s) = t}
           seen == UNION {o[s] \ w[s] : s \in from}
           there == (\E s \in from : o[s] # {}) \/ (r[t].status # "absent" /\ L!Stays(r, o, t))
<1>1. r[t] \in Pattern /\ seen \in SUBSET LCalls
      /\ \A d : d \in seen <=> \E s \in Tags : L!Target(r, s) = t /\ d \in o[s] \ w[s]
  OBVIOUS
<1>2. CASE there
  <2> DEFINE merged == L!Target(r, t) # t
             label == IF L!Absence(seen) # "none" THEN "none" ELSE L!Promote(seen)
             status == IF merged \/ r[t].user \in {"wrong", "retired"} THEN "retired"
                       ELSE IF L!Absence(seen) # "none" THEN L!Absence(seen)
                       ELSE IF label # "none" \/ r[t].user = "confirmed" THEN "active"
                       ELSE "candidate"
             returned == \/ r[t].returned
                         \/ /\ r[t].status \in {"dormant", "retired"}
                            /\ status \in {"candidate", "active"}
                            /\ r[t].merged = "none"
  <2>1. c = [r[t] EXCEPT !.status = status, !.label = IF status = "active" THEN label ELSE "none",
                         !.seen = IF merged THEN {} ELSE seen, !.returned = returned]
    BY <1>2 DEF L!Counted, L!None
  <2>2. L!Absence(seen) \in {"none", "retired", "dormant"}
    BY DEF L!Absence, L!None
  <2>3. L!Promote(seen) \in {"none", "emerging", "established"}
    BY DEF L!Promote, L!None
  <2>4. /\ status \in Statuses \ {"absent"}
        /\ r[t].user \in {"wrong", "retired"} => status = "retired"
    BY <2>2 DEF Statuses
  <2>5. label \in {"none", "emerging", "established"} /\ returned \in BOOLEAN
    BY <1>1, <2>3 DEF Pattern
  <2> HIDE DEF c, status, label, returned, merged, seen
  <2>6. /\ c \in Pattern /\ c.status = status /\ c.user = r[t].user /\ c.merged = r[t].merged
        /\ c.hidden = r[t].hidden /\ c.seen = IF merged THEN {} ELSE seen
    <3>1. /\ (IF status = "active" THEN label ELSE "none") \in {"none", "emerging", "established"}
          /\ (IF merged THEN {} ELSE seen) \in SUBSET LCalls /\ status \in Statuses
      BY <1>1, <2>4, <2>5
    <3> QED
      BY <1>1, <2>1, <2>5, <3>1 DEF Pattern
  <2> QED
    BY <1>1, <2>4, <2>6 DEF L!Said, c, merged
<1>3. CASE ~there
  <2>1. c = L!Absent
    BY <1>3 DEF L!Counted
  <2>2. L!Said(r[t]) = L!Said(L!Absent)
    <3>1. r[t].status # "absent" => r[t].user = "none" /\ r[t].merged = "none" /\ ~r[t].hidden
      BY <1>3 DEF L!Stays, L!None
    <3> QED
      BY <1>1, <3>1, AbsentFacts DEF L!Said, Pattern
  <2>3. seen = {}
    BY <1>3
  <2> HIDE DEF c, seen, there
  <2> QED
    BY <1>1, <2>1, <2>2, <2>3, AbsentFacts DEF c
<1> QED
  BY <1>2, <1>3

LEMMA SaidFields ==
  ASSUME NEW a, NEW b, L!Said(a) = L!Said(b)
  PROVE  a.user = b.user /\ a.merged = b.merged /\ a.hidden = b.hidden
<1>1. /\ L!Said(a).user = a.user /\ L!Said(a).merged = a.merged /\ L!Said(a).hidden = a.hidden
      /\ L!Said(b).user = b.user /\ L!Said(b).merged = b.merged /\ L!Said(b).hidden = b.hidden
  BY DEF L!Said
<1> QED
  BY <1>1

LEMMA MaxOfTwo == ASSUME NEW a \in Int PROVE L!Max({a, 1}) \in Int /\ L!Max({a, 1}) >= a /\ L!Max({a, 1}) >= 1
<1>1. \E m \in {a, 1} : \A y \in {a, 1} : m >= y
  <2>1. CASE a >= 1
    BY <2>1
  <2>2. CASE ~(a >= 1)
    BY <2>2
  <2> QED
    BY <2>1, <2>2
<1>2. L!Max({a, 1}) \in {a, 1} /\ \A y \in {a, 1} : L!Max({a, 1}) >= y
  BY <1>1 DEF L!Max
<1> QED
  BY <1>2

LEMMA WeightFacts == ASSUME NEW w \in Nat PROVE L!Lower(w) \in Nat
<1> DEFINE low == (w * 8) \div 10
<1>1. low \in Int /\ Floor \in Nat
  BY LearnFacts
<1> HIDE DEF low
<1>2. \E m \in {Floor, low} : \A y \in {Floor, low} : m >= y
  <2>1. CASE Floor >= low
    BY <1>1, <2>1
  <2>2. CASE ~(Floor >= low)
    BY <1>1, <2>2
  <2> QED
    BY <2>1, <2>2
<1>3. L!Max({Floor, low}) \in {Floor, low} /\ \A y \in {Floor, low} : L!Max({Floor, low}) >= y
  BY <1>2 DEF L!Max
<1>4. L!Lower(w) = L!Max({Floor, low})
  BY DEF L!Lower, low
<1> QED
  BY <1>1, <1>3, <1>4

(* What a recompute leaves, of any rows, exclusions and proposals.         *)
LEMMA Recomputed ==
  ASSUME LearnTyped, NEW r \in [Tags -> Pattern], NEW x \in [Tags -> SUBSET LCalls],
         NEW p \in [L!Subjects -> Ask], L!RecomputeFrom(r, x, p),
         \A t \in Tags : r[t].status = "absent" => r[t] = L!Absent,
         \A t \in Tags : r[t].user # "wrong" => x[t] = {}
  PROVE  /\ obs' \in [Tags -> SUBSET LCalls] /\ wrong' \in [Tags -> SUBSET LCalls]
         /\ row' \in [Tags -> Pattern] /\ proposal' \in [L!Subjects -> Ask] /\ offered' \in Nat
         /\ \A t \in Tags : /\ L!Said(row'[t]) = L!Said(r[t])
                            /\ row'[t].status = "absent" => row'[t] = L!Absent
                            /\ row'[t].user \in {"wrong", "retired"} => row'[t].status = "retired"
         /\ WrongIsOut' /\ OneTagEach' /\ InOnePattern'
         /\ \A s \in L!Subjects :
               /\ proposal'[s].decided = p[s].decided
               /\ ~p[s].open /\ proposal'[s].open => L!MayOpen(p[s], L!Strength(row', s))
<1>1. obs' = [t \in Tags |-> {c \in LCalls : calls[c] = t}]
  BY DEF L!RecomputeFrom, L!Synced, LCalls
<1>2. obs' \in [Tags -> SUBSET LCalls] /\ OneTagEach'
  BY <1>1 DEF OneTagEach
<1>3. wrong' = [t \in Tags |-> IF r[t].user = "wrong" THEN obs'[t] ELSE x[t] \cap obs'[t]]
  BY DEF L!RecomputeFrom, L!Excluded
<1>4. wrong' \in [Tags -> SUBSET LCalls]
  BY <1>2, <1>3
<1>5. row' = [t \in Tags |-> L!Counted(r, obs', wrong', t)]
  BY DEF L!RecomputeFrom
<1>6. ASSUME NEW t \in Tags
      PROVE  /\ row'[t] \in Pattern /\ L!Said(row'[t]) = L!Said(r[t])
             /\ row'[t].status = "absent" => row'[t] = L!Absent
             /\ row'[t].user \in {"wrong", "retired"} => row'[t].status = "retired"
             /\ \A d : d \in row'[t].seen
                       <=> /\ L!Target(r, t) = t
                           /\ \E s \in Tags : L!Target(r, s) = t /\ d \in obs'[s] \ wrong'[s]
             /\ row'[t].user = r[t].user /\ row'[t].merged = r[t].merged
  <2>1. row'[t] = L!Counted(r, obs', wrong', t)
    BY <1>5
  <2>2. L!Said(row'[t]) = L!Said(r[t])
    BY <1>2, <1>4, <2>1, CountedRow
  <2>3. row'[t].user = r[t].user /\ row'[t].merged = r[t].merged
    BY <2>2, SaidFields
  <2> QED
    BY <1>2, <1>4, <2>1, <2>2, <2>3, CountedRow
<1>7. row' \in [Tags -> Pattern]
  BY <1>5, <1>6
<1>8. WrongIsOut'
  BY <1>3, <1>6 DEF WrongIsOut
<1>9. InOnePattern'
  <2> SUFFICES ASSUME NEW t \in Tags, NEW c \in LCalls, c \in obs'[t]
               PROVE  /\ c \notin wrong'[t] => \E u \in Tags : \A v \in Tags : c \in row'[v].seen <=> v = u
                      /\ c \in wrong'[t] => \A v \in Tags : c \notin row'[v].seen
                      /\ c \notin wrong'[t] /\ row'[t].merged = "none" => c \in row'[t].seen
    BY DEF InOnePattern
  <2> DEFINE u == L!Target(r, t)
  <2>1. u \in Tags /\ L!Target(r, u) = u /\ (r[t].merged = "none" => u = t)
    BY TargetFacts, LearnFacts DEF L!Into
  <2> HIDE DEF u
  <2>2. \A s \in Tags : c \in obs'[s] => s = t
    BY <1>2 DEF OneTagEach
  <2>3. ASSUME NEW v \in Tags PROVE c \in row'[v].seen <=> (v = u /\ c \notin wrong'[t])
    <3>1. ASSUME c \in row'[v].seen PROVE v = u /\ c \notin wrong'[t]
      <4>1. PICK s \in Tags : L!Target(r, s) = v /\ c \in obs'[s] \ wrong'[s]
        BY <1>6, <3>1
      <4> QED
        BY <2>2, <4>1 DEF u
    <3>2. ASSUME v = u, c \notin wrong'[t] PROVE c \in row'[v].seen
      <4>1. L!Target(r, t) = v /\ L!Target(r, v) = v
        BY <2>1, <3>2 DEF u
      <4> QED
        BY <1>6, <3>2, <4>1
    <3> QED
      BY <3>1, <3>2
  <2> QED
    BY <1>6, <2>1, <2>3
<1>10. /\ proposal' \in [L!Subjects -> Ask]
       /\ \A s \in L!Subjects :
             /\ proposal'[s].decided = p[s].decided
             /\ ~p[s].open /\ proposal'[s].open => L!MayOpen(p[s], L!Strength(row', s))
  <2>1. proposal' = L!Proposed(row', p)
    BY DEF L!RecomputeFrom
  <2>2. \A s \in L!Subjects :
          /\ proposal'[s] = p[s] \/ (proposal'[s] = [p[s] EXCEPT !.open = TRUE]
                                     /\ L!MayOpen(p[s], L!Strength(row', s)))
    BY <2>1 DEF L!Proposed
  <2>3. \A s \in L!Subjects : proposal'[s] \in Ask /\ proposal'[s].decided = p[s].decided
    BY <2>2 DEF Ask
  <2>4. proposal' \in [L!Subjects -> Ask]
    BY <2>1, <2>3 DEF L!Proposed
  <2> QED
    BY <2>2, <2>3, <2>4
<1>11. offered' \in Nat
  BY WeightFacts DEF L!RecomputeFrom, LearnTyped
<1> QED
  BY <1>2, <1>4, <1>6, <1>7, <1>8, <1>9, <1>10, <1>11

LEMMA CallSets ==
  ASSUME NEW S \in SUBSET LCalls, NEW T \in SUBSET S
  PROVE  Cardinality(S) \in Nat /\ Cardinality(T) \in Nat /\ Cardinality(T) <= Cardinality(S)
<1>1. IsFiniteSet(S)
  BY LearnFacts, FS_Subset
<1> QED
  BY <1>1, FS_Subset, FS_CardinalityType

LEMMA StrengthIsNat ==
  ASSUME NEW r \in [Tags -> Pattern], NEW s \in L!Subjects, nudges.shown \in Nat
  PROVE  L!Strength(r, s) \in Nat /\ (s # L!Trigger => L!Strength(r, s) = Cardinality(r[s[1]].seen))
<1>1. CASE s = L!Trigger
  BY <1>1 DEF L!Strength
<1>2. CASE s # L!Trigger
  <2>1. s[1] \in Tags
    BY <1>2, LearnFacts DEF L!Subjects
  <2>2. r[s[1]].seen \in SUBSET LCalls
    BY <2>1 DEF Pattern
  <2>3. L!Strength(r, s) = Cardinality(r[s[1]].seen)
    BY <1>2, SameCardinality DEF L!Strength
  <2> QED
    BY <2>2, <2>3, CallSets
<1> QED
  BY <1>1, <1>2

LEMMA TimesAsMuch == ASSUME NEW f \in Nat, NEW a \in Nat, NEW b \in Nat, a >= b PROVE f * a >= f * b
<1>1. f * (a - b) >= 0 /\ f * (a - b) = f * a - f * b
  BY SMTT(30)
<1>2. f * a \in Int /\ f * b \in Int
  OBVIOUS
<1> QED
  BY <1>1, <1>2

(* A recompute after any change that keeps rows, words and proposals right.*)
LEMMA RecomputeStep ==
  ASSUME LearnInv, NEW r \in [Tags -> Pattern], NEW x \in [Tags -> SUBSET LCalls],
         NEW p \in [L!Subjects -> Ask], L!RecomputeFrom(r, x, p),
         \A t \in Tags : r[t].status = "absent" => r[t] = L!Absent,
         \A t \in Tags : r[t].user # "wrong" => x[t] = {},
         \A t \in Tags : L!Said(r[t]) = lWord'[t],
         \A s \in L!Subjects : p[s].decided >= evidence'[s] /\ (~proposal[s].open => p[s] = proposal[s]),
         calls' = calls, weight' \in Nat, lWord' \in [Tags -> Word], evidence' \in [L!Subjects -> Int],
         nudges' \in [shown : Nat, bad : Nat, shownSince : Nat, badSince : Nat]
  PROVE  LearnInv' /\ L!AskedOnNewEvidence
<1>1. LearnTyped
  BY DEF LearnInv
<1>2. /\ LearnTyped' /\ SaidIsKept' /\ WrongIsOut' /\ OneTagEach' /\ InOnePattern'
      /\ \A s \in L!Subjects : /\ proposal'[s].decided = p[s].decided
                               /\ ~p[s].open /\ proposal'[s].open => L!MayOpen(p[s], L!Strength(row', s))
  <2>1. /\ obs' \in [Tags -> SUBSET LCalls] /\ wrong' \in [Tags -> SUBSET LCalls]
        /\ row' \in [Tags -> Pattern] /\ proposal' \in [L!Subjects -> Ask] /\ offered' \in Nat
        /\ \A t \in Tags : /\ L!Said(row'[t]) = L!Said(r[t])
                           /\ row'[t].status = "absent" => row'[t] = L!Absent
                           /\ row'[t].user \in {"wrong", "retired"} => row'[t].status = "retired"
        /\ WrongIsOut' /\ OneTagEach' /\ InOnePattern'
        /\ \A s \in L!Subjects : /\ proposal'[s].decided = p[s].decided
                                 /\ ~p[s].open /\ proposal'[s].open => L!MayOpen(p[s], L!Strength(row', s))
    BY <1>1, Recomputed
  <2>2. LearnTyped'
    BY <1>1, <2>1 DEF LearnTyped
  <2>3. SaidIsKept'
    BY <2>1 DEF SaidIsKept
  <2> QED
    BY <2>1, <2>2, <2>3
<1>3. DecidedOnAll'
  BY <1>2 DEF DecidedOnAll
<1>4. ASSUME NEW s \in L!Subjects, ~proposal[s].open, proposal'[s].open, evidence[s] > 0
      PROVE  L!Strength(row', s) >= Factor * evidence[s]
  <2>1. p[s] = proposal[s] /\ p[s] \in Ask /\ p[s].decided >= evidence[s] /\ evidence[s] \in Nat
    BY <1>1, <1>4 DEF LearnInv, LearnTyped, DecidedOnAll
  <2>2. p[s].decided \in Nat /\ p[s].decided # -1
    BY <1>4, <2>1 DEF Ask
  <2>3. L!Strength(row', s) >= Factor * L!Max({p[s].decided, 1})
    BY <1>2, <1>4, <2>1, <2>2 DEF L!MayOpen
  <2>4. L!Max({p[s].decided, 1}) \in Nat /\ L!Max({p[s].decided, 1}) >= evidence[s]
    BY <2>1, <2>2, MaxOfTwo
  <2>5. Factor * L!Max({p[s].decided, 1}) >= Factor * evidence[s]
    BY <2>1, <2>4, LearnFacts, TimesAsMuch
  <2>6. L!Strength(row', s) \in Nat
    BY <1>1, <1>2, StrengthIsNat DEF LearnTyped
  <2>7. Factor * L!Max({p[s].decided, 1}) \in Int /\ Factor * evidence[s] \in Int
    BY <2>1, <2>4, LearnFacts
  <2> QED
    BY <2>3, <2>5, <2>6, <2>7
<1> QED
  BY <1>2, <1>3, <1>4 DEF LearnInv, L!AskedOnNewEvidence

LEMMA LearnInit == L!Init => LearnInv
<1> SUFFICES ASSUME L!Init PROVE LearnInv
  OBVIOUS
<1>1. /\ calls = [c \in LCalls |-> "todo"]
      /\ obs = [t \in Tags |-> {}] /\ wrong = [t \in Tags |-> {}] /\ row = [t \in Tags |-> L!Absent]
      /\ proposal = [s \in L!Subjects |-> [open |-> FALSE, decided |-> -1]]
      /\ nudges = [shown |-> 0, bad |-> 0, shownSince |-> 0, badSince |-> 0]
      /\ weight = Weight /\ offered = Weight
      /\ lWord = [t \in Tags |-> L!Silent] /\ evidence = [s \in L!Subjects |-> -1]
  BY DEF L!Init, LCalls
<1>2. L!Silent \in Word /\ L!Said(L!Absent) = L!Silent
  BY AbsentFacts DEF L!Silent, L!Said, L!None, Word, Users
<1>3. LearnTyped
  BY <1>1, <1>2, AbsentFacts, LearnFacts DEF LearnTyped, Ask
<1>4. SaidIsKept /\ WrongIsOut /\ OneTagEach /\ InOnePattern
  BY <1>1, <1>2, AbsentFacts DEF SaidIsKept, WrongIsOut, OneTagEach, InOnePattern
<1>5. DecidedOnAll
  BY <1>1 DEF DecidedOnAll
<1> QED
  BY <1>3, <1>4, <1>5 DEF LearnInv

LEMMA EnsuredFacts ==
  ASSUME LearnInv, NEW t \in Tags
  PROVE  /\ row[t] \in Pattern /\ lWord[t] \in Word /\ lWord[t] = L!Said(row[t])
         /\ L!Ensured(t) \in Pattern /\ L!Ensured(t).status # "absent"
         /\ L!Said(L!Ensured(t)) = L!Said(row[t]) /\ L!Ensured(t).seen = row[t].seen
         /\ L!Ensured(t).user = row[t].user /\ L!Ensured(t).merged = row[t].merged
         /\ L!Ensured(t).hidden = row[t].hidden
<1>1. row[t] \in Pattern /\ lWord[t] \in Word /\ lWord[t] = L!Said(row[t])
      /\ (row[t].status = "absent" => row[t] = L!Absent)
  BY DEF LearnInv, LearnTyped, SaidIsKept
<1>2. CASE row[t].status = "absent"
  <2>1. L!Ensured(t) = [L!Absent EXCEPT !.status = "candidate"]
    BY <1>2 DEF L!Ensured
  <2> QED
    BY <1>1, <1>2, <2>1, AbsentFacts DEF L!Said, Pattern, Statuses
<1>3. CASE row[t].status # "absent"
  BY <1>1, <1>3 DEF L!Ensured
<1> QED
  BY <1>2, <1>3

LEMMA SaidIsWord == ASSUME NEW r \in Pattern PROVE L!Said(r) \in Word
  BY DEF L!Said, Pattern, Word

LEMMA NothingAsked == ASSUME proposal' = proposal PROVE L!AskedOnNewEvidence
  BY DEF L!AskedOnNewEvidence

LEMMA AnalyseLearns ==
  ASSUME LearnInv, NEW c \in LCalls, NEW t \in Tags \cup {"none"}, L!Analyse(c, t)
  PROVE  LearnInv' /\ L!AskedOnNewEvidence
<1>1. calls' = [calls EXCEPT ![c] = t]
      /\ UNCHANGED <<obs, wrong, row, nudges, weight, proposal, offered, lWord, evidence>>
  BY DEF L!Analyse, L!store, L!coach
<1> QED
  BY <1>1, NothingAsked
     DEF LearnInv, LearnTyped, SaidIsKept, WrongIsOut, OneTagEach, InOnePattern, DecidedOnAll

LEMMA ShownLearns ==
  ASSUME LearnInv, NEW bad \in {0, 1}, L!Shown(bad)
  PROVE  LearnInv' /\ L!AskedOnNewEvidence
<1>1. nudges \in [shown : Nat, bad : Nat, shownSince : Nat, badSince : Nat]
  BY DEF LearnInv, LearnTyped
<1>2. nudges' = [n \in DOMAIN nudges |-> nudges[n] + IF n \in {"shown", "shownSince"} THEN 1 ELSE bad]
      /\ UNCHANGED <<calls, obs, wrong, row, weight, proposal, offered, lWord, evidence>>
  BY DEF L!Shown, L!facts, L!store
<1>3. nudges' = [shown |-> nudges.shown + 1, bad |-> nudges.bad + bad,
                 shownSince |-> nudges.shownSince + 1, badSince |-> nudges.badSince + bad]
  BY <1>1, <1>2
<1>4. nudges' \in [shown : Nat, bad : Nat, shownSince : Nat, badSince : Nat]
  BY <1>1, <1>3
<1> QED
  BY <1>2, <1>4, NothingAsked
     DEF LearnInv, LearnTyped, SaidIsKept, WrongIsOut, OneTagEach, InOnePattern, DecidedOnAll

LEMMA SetsWeightLearns ==
  ASSUME LearnInv, NEW w \in Floor..Weight, L!SetsWeight(w)
  PROVE  LearnInv' /\ L!AskedOnNewEvidence
<1>1. w \in Nat
  BY LearnFacts
<1>2. weight' = w /\ UNCHANGED <<calls, obs, wrong, row, nudges, proposal, offered, lWord, evidence>>
  BY DEF L!SetsWeight, L!facts, L!store
<1> QED
  BY <1>1, <1>2, NothingAsked
     DEF LearnInv, LearnTyped, SaidIsKept, WrongIsOut, OneTagEach, InOnePattern, DecidedOnAll

LEMMA RecomputeLearns ==
  ASSUME LearnInv, L!Recompute PROVE LearnInv' /\ L!AskedOnNewEvidence
<1>1. L!RecomputeFrom(row, wrong, proposal)
      /\ UNCHANGED <<calls, nudges, weight, lWord, evidence>>
  BY DEF L!Recompute, L!facts, L!coach
<1>2. /\ row \in [Tags -> Pattern] /\ wrong \in [Tags -> SUBSET LCalls]
      /\ proposal \in [L!Subjects -> Ask]
      /\ \A t \in Tags : row[t].status = "absent" => row[t] = L!Absent
      /\ \A t \in Tags : row[t].user # "wrong" => wrong[t] = {}
      /\ \A t \in Tags : L!Said(row[t]) = lWord'[t]
      /\ \A s \in L!Subjects : proposal[s].decided >= evidence'[s]
  BY <1>1 DEF LearnInv, LearnTyped, SaidIsKept, WrongIsOut, DecidedOnAll
<1>3. /\ weight' \in Nat /\ lWord' \in [Tags -> Word] /\ evidence' \in [L!Subjects -> Int]
      /\ nudges' \in [shown : Nat, bad : Nat, shownSince : Nat, badSince : Nat]
  BY <1>1 DEF LearnInv, LearnTyped
<1> QED
  BY <1>1, <1>2, <1>3, RecomputeStep

LEMMA WordFacts ==
  ASSUME LearnInv
  PROVE  /\ row \in [Tags -> Pattern] /\ lWord \in [Tags -> Word]
         /\ \A k \in Tags : L!Said(row[k]) = lWord[k] /\ (row[k].status = "absent" => row[k] = L!Absent)
  BY DEF LearnInv, LearnTyped, SaidIsKept

LEMMA SetUserStateLearns ==
  ASSUME LearnInv, NEW t \in Tags, NEW u \in Users, L!SetUserState(t, u)
  PROVE  LearnInv' /\ L!AskedOnNewEvidence
<1> DEFINE new == [L!Ensured(t) EXCEPT !.user = u]
           r == [row EXCEPT ![t] = new]
           x == [wrong EXCEPT ![t] = IF u = "wrong" THEN obs[t]
                                     ELSE IF row[t].user = "wrong" THEN {} ELSE wrong[t]]
<1>1. /\ L!RecomputeFrom(r, x, proposal) /\ lWord' = [lWord EXCEPT ![t] = L!Said(new)]
      /\ UNCHANGED <<calls, nudges, weight, evidence>>
  BY DEF L!SetUserState, L!Tell, L!coach
<1>2. new \in Pattern /\ new.status # "absent" /\ new.user = u
  BY EnsuredFacts DEF Pattern
<1> HIDE DEF new
<1>3. /\ r \in [Tags -> Pattern] /\ lWord' \in [Tags -> Word]
      /\ \A k \in Tags : r[k].status = "absent" => r[k] = L!Absent
      /\ \A k \in Tags : L!Said(r[k]) = lWord'[k]
  <2>1. L!Said(new) \in Word
    BY <1>2, SaidIsWord
  <2> QED
    BY <1>1, <1>2, <2>1, WordFacts
<1>4. x \in [Tags -> SUBSET LCalls] /\ \A k \in Tags : r[k].user # "wrong" => x[k] = {}
  <2>1. /\ wrong \in [Tags -> SUBSET LCalls] /\ obs \in [Tags -> SUBSET LCalls]
        /\ row \in [Tags -> Pattern]
        /\ \A k \in Tags : row[k].user # "wrong" => wrong[k] = {}
    BY DEF LearnInv, LearnTyped, WrongIsOut
  <2> QED
    BY <1>2, <2>1
<1>5. /\ proposal \in [L!Subjects -> Ask] /\ weight' \in Nat /\ evidence' \in [L!Subjects -> Int]
      /\ nudges' \in [shown : Nat, bad : Nat, shownSince : Nat, badSince : Nat]
      /\ \A s \in L!Subjects : proposal[s].decided >= evidence'[s]
  BY <1>1 DEF LearnInv, LearnTyped, DecidedOnAll
<1> HIDE DEF r, x
<1> QED
  BY <1>1, <1>3, <1>4, <1>5, RecomputeStep

LEMMA SetPromptUseLearns ==
  ASSUME LearnInv, NEW t \in Tags, L!SetPromptUse(t)
  PROVE  LearnInv' /\ L!AskedOnNewEvidence
<1> DEFINE new == [L!Ensured(t) EXCEPT !.hidden = ~L!Ensured(t).hidden]
<1>1. /\ row' = [row EXCEPT ![t] = new] /\ lWord' = [lWord EXCEPT ![t] = L!Said(new)]
      /\ UNCHANGED <<calls, obs, wrong, nudges, weight, proposal, offered, evidence>>
  BY DEF L!SetPromptUse, L!Tell, L!coach, L!facts
<1>2. /\ new \in Pattern /\ new.status # "absent" /\ new.user = row[t].user
      /\ new.seen = row[t].seen /\ new.merged = row[t].merged
      /\ (row[t].status # "absent" => new.status = row[t].status)
      /\ (row[t].status = "absent" => row[t].user = "none")
  BY EnsuredFacts, AbsentFacts DEF Pattern, LearnInv, SaidIsKept, L!Ensured
<1> HIDE DEF new
<1>3. /\ row' \in [Tags -> Pattern] /\ lWord' \in [Tags -> Word]
      /\ \A k \in Tags : row'[k].status = "absent" => row'[k] = L!Absent
      /\ \A k \in Tags : L!Said(row'[k]) = lWord'[k]
  <2>1. L!Said(new) \in Word
    BY <1>2, SaidIsWord
  <2> QED
    BY <1>1, <1>2, <2>1, WordFacts
<1>4. \A k \in Tags : /\ row'[k].user = row[k].user /\ row'[k].seen = row[k].seen
                      /\ row'[k].merged = row[k].merged
                      /\ row'[k].user \in {"wrong", "retired"} => row'[k].status = "retired"
  BY <1>1, <1>2 DEF LearnInv, LearnTyped, SaidIsKept
<1>5. LearnTyped' /\ SaidIsKept'
  BY <1>1, <1>3, <1>4 DEF LearnInv, LearnTyped, SaidIsKept
<1>6. WrongIsOut' /\ OneTagEach' /\ InOnePattern' /\ DecidedOnAll'
  BY <1>1, <1>4 DEF LearnInv, WrongIsOut, OneTagEach, InOnePattern, DecidedOnAll
<1> QED
  BY <1>1, <1>5, <1>6, NothingAsked DEF LearnInv

LEMMA UnmergeLearns ==
  ASSUME LearnInv, NEW t \in Tags, L!Unmerge(t)
  PROVE  LearnInv' /\ L!AskedOnNewEvidence
<1> DEFINE new == [row[t] EXCEPT !.merged = "none"]
           r == [row EXCEPT ![t] = new]
<1>1. /\ L!RecomputeFrom(r, wrong, proposal) /\ lWord' = [lWord EXCEPT ![t] = L!Said(new)]
      /\ row[t].merged # "none" /\ UNCHANGED <<calls, nudges, weight, evidence>>
  <2>1. L!RecomputeFrom([row EXCEPT ![t].merged = "none"], wrong, proposal)
    BY DEF L!Unmerge, L!None
  <2>2. [row EXCEPT ![t].merged = "none"] = r
    BY WordFacts
  <2> QED
    BY <2>1, <2>2 DEF L!Unmerge, L!Tell, L!coach, L!facts, L!None
<1>2. new \in Pattern /\ new.status # "absent" /\ new.user = row[t].user
  BY <1>1, WordFacts, AbsentFacts DEF Pattern
<1> HIDE DEF new
<1>3. /\ r \in [Tags -> Pattern] /\ lWord' \in [Tags -> Word]
      /\ \A k \in Tags : r[k].status = "absent" => r[k] = L!Absent
      /\ \A k \in Tags : L!Said(r[k]) = lWord'[k]
  <2>1. L!Said(new) \in Word
    BY <1>2, SaidIsWord
  <2> QED
    BY <1>1, <1>2, <2>1, WordFacts
<1>4. wrong \in [Tags -> SUBSET LCalls] /\ \A k \in Tags : r[k].user # "wrong" => wrong[k] = {}
  <2>1. /\ wrong \in [Tags -> SUBSET LCalls] /\ row \in [Tags -> Pattern]
        /\ \A k \in Tags : row[k].user # "wrong" => wrong[k] = {}
    BY DEF LearnInv, LearnTyped, WrongIsOut
  <2> QED
    BY <1>2, <2>1
<1>5. /\ proposal \in [L!Subjects -> Ask] /\ weight' \in Nat /\ evidence' \in [L!Subjects -> Int]
      /\ nudges' \in [shown : Nat, bad : Nat, shownSince : Nat, badSince : Nat]
      /\ \A s \in L!Subjects : proposal[s].decided >= evidence'[s]
  BY <1>1 DEF LearnInv, LearnTyped, DecidedOnAll
<1> HIDE DEF r
<1> QED
  BY <1>1, <1>3, <1>4, <1>5, RecomputeStep

(* The rows after a merge carry the seller's word: of the tag that is      *)
(* merged the new one, of the others the one they had.                     *)
LEMMA MergedRows ==
  ASSUME LearnInv, NEW t \in Tags, NEW u \in Tags, u # t,
         lWord' = [lWord EXCEPT ![t] = L!Said(L!Merged(t, u)[t])]
  PROVE  /\ L!Merged(t, u) \in [Tags -> Pattern] /\ lWord' \in [Tags -> Word]
         /\ \A k \in Tags : L!Merged(t, u)[k].status = "absent" => L!Merged(t, u)[k] = L!Absent
         /\ \A k \in Tags : L!Said(L!Merged(t, u)[k]) = lWord'[k]
         /\ \A k \in Tags : L!Merged(t, u)[k].user # "wrong" => wrong[k] = {}
<1> DEFINE one == [L!Ensured(t) EXCEPT !.merged = u]
           two == L!Ensured(u)
           r == L!Merged(t, u)
<1>1. r = [row EXCEPT ![t] = one, ![u] = two]
  BY DEF L!Merged
<1>2. /\ one \in Pattern /\ one.status # "absent" /\ one.user = row[t].user
      /\ two \in Pattern /\ two.status # "absent" /\ two.user = row[u].user
      /\ L!Said(two) = lWord[u]
  BY EnsuredFacts DEF Pattern
<1> HIDE DEF one, two, r
<1>3. /\ r \in [Tags -> Pattern] /\ r[t] = one /\ r[u] = two
      /\ \A k \in Tags \ {t, u} : r[k] = row[k]
  BY <1>1, <1>2, WordFacts
<1>4. L!Said(one) \in Word
  BY <1>2, SaidIsWord
<1>5. lWord' = [lWord EXCEPT ![t] = L!Said(one)]
  BY <1>3 DEF r
<1>6. lWord' \in [Tags -> Word] /\ lWord'[t] = L!Said(one)
      /\ \A k \in Tags \ {t} : lWord'[k] = lWord[k]
  BY <1>4, <1>5, WordFacts
<1>7. ASSUME NEW k \in Tags
      PROVE  /\ r[k].status = "absent" => r[k] = L!Absent
             /\ L!Said(r[k]) = lWord'[k]
             /\ r[k].user # "wrong" => wrong[k] = {}
  <2>1. row[k].user # "wrong" => wrong[k] = {}
    BY DEF LearnInv, WrongIsOut
  <2> QED
    BY <1>2, <1>3, <1>6, <2>1, WordFacts
<1> QED
  BY <1>3, <1>6, <1>7 DEF r

LEMMA MergeIntoLearns ==
  ASSUME LearnInv, NEW t \in Tags, NEW u \in Tags, L!MergeInto(t, u)
  PROVE  LearnInv' /\ L!AskedOnNewEvidence
<1> DEFINE r == L!Merged(t, u)
<1>1. /\ L!RecomputeFrom(r, wrong, proposal) /\ lWord' = [lWord EXCEPT ![t] = L!Said(r[t])]
      /\ u # t /\ UNCHANGED <<calls, nudges, weight, evidence>>
  BY DEF L!MergeInto, L!MayMerge, L!Tell, L!coach, L!facts
<1>2. /\ r \in [Tags -> Pattern] /\ lWord' \in [Tags -> Word]
      /\ \A k \in Tags : r[k].status = "absent" => r[k] = L!Absent
      /\ \A k \in Tags : L!Said(r[k]) = lWord'[k]
      /\ \A k \in Tags : r[k].user # "wrong" => wrong[k] = {}
  BY <1>1, MergedRows
<1>3. /\ wrong \in [Tags -> SUBSET LCalls]
      /\ proposal \in [L!Subjects -> Ask] /\ weight' \in Nat /\ evidence' \in [L!Subjects -> Int]
      /\ nudges' \in [shown : Nat, bad : Nat, shownSince : Nat, badSince : Nat]
      /\ \A s \in L!Subjects : proposal[s].decided >= evidence'[s]
  BY <1>1 DEF LearnInv, LearnTyped, DecidedOnAll
<1> HIDE DEF r
<1> QED
  BY <1>1, <1>2, <1>3, RecomputeStep

LEMMA DecideLearns ==
  ASSUME LearnInv, NEW s \in L!Subjects, NEW accept \in BOOLEAN, L!Decide(s, accept)
  PROVE  LearnInv' /\ L!AskedOnNewEvidence
<1> DEFINE n == L!Strength(row, s)
           p == [proposal EXCEPT ![s] = [open |-> FALSE, decided |-> n]]
           spoke == IF s = L!Trigger THEN nudges.shown
                   ELSE IF row[s[1]].merged # "none" THEN 0
                   ELSE Cardinality(obs[s[1]] \ wrong[s[1]])
           merges == s # L!Trigger /\ accept
           r == IF merges THEN L!Merged(s[1], s[2]) ELSE row
<1>1. /\ proposal[s].open /\ evidence' = [evidence EXCEPT ![s] = spoke] /\ calls' = calls
      /\ L!RecomputeFrom(r, wrong, p)
      /\ merges => /\ L!MayMerge(s[1], s[2])
                   /\ lWord' = [lWord EXCEPT ![s[1]] = L!Said(L!Merged(s[1], s[2])[s[1]])]
      /\ ~merges => lWord' = lWord
  BY SameCardinality DEF L!Decide, L!DecidedN, L!None, L!Tell, L!facts
<1>2. LearnTyped /\ nudges.shown \in Nat
  BY DEF LearnInv, LearnTyped
<1>3. n \in Nat /\ spoke \in Nat /\ spoke <= n
  <2>1. n \in Nat /\ (s # L!Trigger => n = Cardinality(row[s[1]].seen))
    BY <1>2, StrengthIsNat DEF LearnTyped
  <2>2. CASE s = L!Trigger
    BY <1>2, <2>2 DEF L!Strength
  <2>3. CASE s # L!Trigger
    <3>1. s[1] \in Tags
      BY <2>3, LearnFacts DEF L!Subjects
    <3>2. row[s[1]].seen \in SUBSET LCalls /\ obs[s[1]] \ wrong[s[1]] \in SUBSET LCalls
      BY <1>2, <3>1 DEF LearnTyped, Pattern
    <3>3. CASE row[s[1]].merged # "none"
      BY <2>1, <2>3, <3>3
    <3>4. CASE row[s[1]].merged = "none"
      <4>1. obs[s[1]] \ wrong[s[1]] \subseteq row[s[1]].seen
        BY <3>1, <3>2, <3>4 DEF LearnInv, InOnePattern
      <4> QED
        BY <2>1, <2>3, <3>2, <3>4, <4>1, CallSets
    <3> QED
      BY <3>3, <3>4
  <2> QED
    BY <2>2, <2>3
<1>4. nudges' \in [shown : Nat, bad : Nat, shownSince : Nat, badSince : Nat] /\ weight' \in Nat
  <2>1. /\ weight' \in {weight, offered}
        /\ nudges' = nudges \/ nudges' = [nudges EXCEPT !.shownSince = 0, !.badSince = 0]
    BY DEF L!Decide, L!coach
  <2>2. nudges \in [shown : Nat, bad : Nat, shownSince : Nat, badSince : Nat] /\ weight \in Nat /\ offered \in Nat
    BY <1>2 DEF LearnTyped
  <2>3. nudges' \in [shown : Nat, bad : Nat, shownSince : Nat, badSince : Nat]
    <3>1. CASE nudges' = nudges
      BY <2>2, <3>1
    <3>2. CASE nudges' = [nudges EXCEPT !.shownSince = 0, !.badSince = 0]
      BY ONLY <2>2, <3>2
    <3> QED
      BY <2>1, <3>1, <3>2
  <2>4. weight' \in Nat
    BY <2>1, <2>2
  <2> QED
    BY <2>3, <2>4
<1> HIDE DEF n, spoke
<1>5. /\ evidence' \in [L!Subjects -> Int] /\ p \in [L!Subjects -> Ask]
      /\ \A q \in L!Subjects : p[q].decided >= evidence'[q] /\ (~proposal[q].open => p[q] = proposal[q])
  <2>1. /\ evidence \in [L!Subjects -> Int] /\ proposal \in [L!Subjects -> Ask]
        /\ \A q \in L!Subjects : proposal[q].decided >= evidence[q]
    BY DEF LearnInv, LearnTyped, DecidedOnAll
  <2>2. [open |-> FALSE, decided |-> n] \in Ask
    BY <1>3 DEF Ask
  <2>3. evidence' \in [L!Subjects -> Int] /\ p \in [L!Subjects -> Ask]
    BY <1>1, <1>3, <2>1, <2>2
  <2>4. /\ evidence'[s] = spoke /\ p[s].decided = n
        /\ \A q \in L!Subjects \ {s} : evidence'[q] = evidence[q] /\ p[q] = proposal[q]
    BY <1>1, <2>1
  <2> QED
    BY <1>1, <1>3, <2>1, <2>3, <2>4
<1>6. /\ r \in [Tags -> Pattern] /\ lWord' \in [Tags -> Word]
      /\ \A k \in Tags : r[k].status = "absent" => r[k] = L!Absent
      /\ \A k \in Tags : L!Said(r[k]) = lWord'[k]
      /\ \A k \in Tags : r[k].user # "wrong" => wrong[k] = {}
  <2>1. CASE merges
    <3>1. s[1] \in Tags /\ s[2] \in Tags /\ s[2] # s[1]
      BY <1>1, <2>1, LearnFacts DEF L!Subjects, L!MayMerge
    <3> QED
      BY <1>1, <2>1, <3>1, MergedRows
  <2>2. CASE ~merges
    BY <1>1, <2>2, WordFacts DEF LearnInv, WrongIsOut
  <2> QED
    BY <2>1, <2>2
<1>7. wrong \in [Tags -> SUBSET LCalls]
  BY <1>2 DEF LearnTyped
<1> HIDE DEF r, p
<1> QED
  BY <1>1, <1>4, <1>5, <1>6, <1>7, RecomputeStep

LEMMA LearnStep ==
  ASSUME LearnInv, [L!Next]_(L!vars)
  PROVE  LearnInv' /\ L!AskedOnNewEvidence
<1>1. CASE UNCHANGED L!vars
  <2>1. UNCHANGED <<calls, obs, wrong, row, nudges, weight, proposal, offered, lWord, evidence>>
    BY <1>1 DEF L!vars, L!facts, L!store, L!coach
  <2> QED
    BY <2>1, NothingAsked
       DEF LearnInv, LearnTyped, SaidIsKept, WrongIsOut, OneTagEach, InOnePattern, DecidedOnAll
<1>2. CASE \E c \in 1..MaxCalls, t \in Tags \cup {L!None} : L!Analyse(c, t)
  BY <1>2, AnalyseLearns DEF LCalls, L!None
<1>3. CASE \E bad \in {0, 1} : L!Shown(bad)
  BY <1>3, ShownLearns
<1>4. CASE L!Recompute
  BY <1>4, RecomputeLearns
<1>5. CASE \E t \in Tags, s \in {"confirmed", "wrong", "retired", L!None} : L!SetUserState(t, s)
  BY <1>5, SetUserStateLearns DEF Users, L!None
<1>6. CASE \E t \in Tags : L!SetPromptUse(t)
  BY <1>6, SetPromptUseLearns
<1>7. CASE \E t \in Tags : L!Unmerge(t)
  BY <1>7, UnmergeLearns
<1>8. CASE \E t \in Tags, u \in Tags : L!MergeInto(t, u)
  BY <1>8, MergeIntoLearns
<1>9. CASE \E s \in L!Subjects, accept \in BOOLEAN : L!Decide(s, accept)
  BY <1>9, DecideLearns
<1>10. CASE \E w \in Floor..Weight : L!SetsWeight(w)
  BY <1>10, SetsWeightLearns
<1> QED
  BY <1>1, <1>2, <1>3, <1>4, <1>5, <1>6, <1>7, <1>8, <1>9, <1>10 DEF L!Next

LEMMA LearnHolds == ASSUME LearnInv PROVE L!TypeOK /\ L!YouOutrankIt /\ L!EachCountsOnce
<1>1. \A t \in Tags : /\ row[t] \in Pattern /\ obs[t] \subseteq LCalls /\ wrong[t] \subseteq LCalls
                      /\ L!Said(row[t]) = lWord[t]
  BY DEF LearnInv, LearnTyped, SaidIsKept
<1>2. \A t \in Tags : lWord[t].user = row[t].user
  <2> SUFFICES ASSUME NEW t \in Tags PROVE lWord[t].user = row[t].user
    OBVIOUS
  <2>1. L!Said(row[t]).user = row[t].user
    BY DEF L!Said
  <2> QED
    BY <1>1, <2>1
<1>3. L!TypeOK
  <2>1. calls \in [1..MaxCalls -> Tags \cup {L!None, "todo"}]
    BY DEF LearnInv, LearnTyped, LCalls, L!None
  <2>2. \A t \in Tags : row[t].status \in {"absent", "candidate", "active", "dormant", "retired"}
    BY <1>1 DEF Pattern, Statuses
  <2>3. weight \in Nat
    BY DEF LearnInv, LearnTyped
  <2> QED
    BY <1>1, <2>1, <2>2, <2>3 DEF L!TypeOK, LCalls
<1>4. L!YouOutrankIt
  <2> SUFFICES ASSUME NEW t \in Tags, lWord[t] # L!Silent
               PROVE  /\ L!Said(row[t]) = lWord[t] /\ row[t].status # "absent"
                      /\ lWord[t].user \in {"wrong", "retired"} => row[t].status = "retired"
    BY DEF L!YouOutrankIt
  <2>1. row[t].status = "absent" => lWord[t] = L!Silent
    <3>1. row[t].status = "absent" => row[t] = L!Absent
      BY DEF LearnInv, SaidIsKept
    <3>2. L!Said(L!Absent) = L!Silent
      BY DEF L!Said, L!Absent, L!Silent
    <3> QED
      BY <1>1, <3>1, <3>2
  <2> QED
    BY <1>1, <1>2, <2>1 DEF LearnInv, SaidIsKept
<1>5. L!EachCountsOnce
  <2> SUFFICES ASSUME NEW t \in Tags, NEW c \in LCalls, c \in obs[t]
               PROVE  Cardinality({u \in Tags : c \in row[u].seen}) = IF row[t].user = "wrong" THEN 0 ELSE 1
    BY <1>2, SameCardinality DEF L!EachCountsOnce, LCalls
  <2>1. /\ c \notin wrong[t] => \E u \in Tags : \A v \in Tags : c \in row[v].seen <=> v = u
        /\ c \in wrong[t] => \A v \in Tags : c \notin row[v].seen
        /\ c \in wrong[t] <=> row[t].user = "wrong"
    BY DEF LearnInv, InOnePattern, WrongIsOut
  <2>2. CASE row[t].user = "wrong"
    <3>1. {u \in Tags : c \in row[u].seen} = {}
      BY <2>1, <2>2
    <3> QED
      BY <2>2, <3>1, FS_EmptySet
  <2>3. CASE row[t].user # "wrong"
    <3>1. PICK u \in Tags : \A v \in Tags : c \in row[v].seen <=> v = u
      BY <2>1, <2>3
    <3>2. {v \in Tags : c \in row[v].seen} = {u}
      BY <3>1
    <3> QED
      BY <2>3, <3>2, FS_Singleton
  <2> QED
    BY <2>2, <2>3
<1> QED
  BY <1>3, <1>4, <1>5

(* What the seller said of a pattern holds whatever is observed, merged    *)
(* and forgotten; each call counts for one pattern, or for none when he    *)
(* called it wrong; and what he decided is proposed to him again only when *)
(* what speaks for it has grown Factor-fold.                               *)
THEOREM HisWordOutranks == AllSpec => HisWordOnLearned
<1> DEFINE Inv == part = "learning" => LearnInv
           Holds == part = "learning" => L!TypeOK /\ L!YouOutrankIt /\ L!EachCountsOnce
           Asked == part = "learning" => L!AskedOnNewEvidence
<1>1. AllInit => Inv
  BY LearnInit DEF AllInit
<1>2. Inv /\ [AllNext]_<<part, vars, lvars, ovars, dvars>> => Inv' /\ [Asked]_lvars
  <2> SUFFICES ASSUME Inv, [AllNext]_<<part, vars, lvars, ovars, dvars>> PROVE Inv' /\ Asked
    OBVIOUS
  <2>1. part' = part
    BY DEF AllNext
  <2>2. CASE part = "learning"
    <3>1. [L!Next]_(L!vars)
      BY <2>2 DEF AllNext, lvars, L!vars, L!facts, L!store, L!coach
    <3> QED
      BY <2>1, <2>2, <3>1, LearnStep
  <2>3. CASE part # "learning"
    BY <2>1, <2>3
  <2> QED
    BY <2>2, <2>3
<1>3. Inv => Holds
  BY LearnHolds
<1>4. HisWordOnLearned <=> []Holds /\ [][Asked]_lvars
  BY DEF HisWordOnLearned
<1> HIDE DEF Inv, Holds, Asked
<1> QED
  BY <1>1, <1>2, <1>3, <1>4, PTL DEF AllSpec

----------------------------------------------------------------------------
(* What came of it (Outcomes), for any emails, methodologies and times.    *)

OutcomesTyped ==
    /\ now \in Nat /\ sent \in [Emails -> Nat \cup {O!Never}]
    /\ came \subseteq Int /\ replies \subseteq Int /\ \A t \in replies : t < now
    /\ meeting \in [seen : Int, start : Int]
    /\ loop \in [status : {"open", "done"}, closed : Int, due : Int]
    /\ held \in [at : Int, newcomer : BOOLEAN]
    /\ runs \in Seq([call : {1, 2}, method : Methods, did : {"nothing", "created", "changed"}])
    /\ using \in Methods
    /\ 2 \in O!CallsOf(runs) => held.at # O!Never

(* What a recompute would say now is what one may say after what it said.  *)
RowsTell ==
    /\ \A e \in Emails : /\ O!Stands(derived.email["email_replied"][e], O!Replied(e))
                         /\ O!Stands(derived.email["meeting_after_email"][e], O!Met(e))
    /\ O!Stands(derived.loop, O!OnTime)
    /\ \A c \in {1, 2} : O!Stands(derived.call[c], O!Advanced(c))

OutcomesInv == OutcomesTyped /\ RowsTell /\ O!SwitchIsNoAdvance

LEMMA OutcomesFacts == /\ DayLen \in Nat \ {0} /\ ReplyDays \in Nat /\ MeetDays \in Nat
                       /\ MeetDays * DayLen \in Nat /\ MaxTime \in Nat
<1>1. DayLen \in Nat \ {0} /\ ReplyDays \in Nat /\ MeetDays \in Nat /\ MaxTime \in Nat
  BY PartConstants DEF O!OutcomesConstants
<1> QED
  BY <1>1

LEMMA DaysPass ==
  ASSUME NEW a \in Int, NEW b \in Int, a <= b
  PROVE  O!Day(a) \in Int /\ O!Day(b) \in Int /\ O!Day(a) <= O!Day(b)
<1>1. DayLen \in Nat \ {0}
  BY OutcomesFacts
<1>2. \A d \in Nat \ {0} : a \div d \in Int /\ b \div d \in Int /\ a \div d <= b \div d
  <2> TAKE d \in Nat \ {0}
  <2>1. a \div d \in Int /\ b \div d \in Int
    OBVIOUS
  <2> QED
    BY <2>1
<1> QED
  BY <1>1, <1>2 DEF O!Day

LEMMA StandsFurther ==
  ASSUME NEW a, NEW b, NEW c, O!Stands(a, b), O!Stands(b, c) PROVE O!Stands(a, c)
  BY DEF O!Stands

(* How the tables change: what is there stays.                             *)
Onward ==
    /\ OutcomesTyped' /\ now <= now'
    /\ \A e \in Emails : sent'[e] = sent[e] \/ (sent[e] = O!Never /\ sent'[e] = now)
    /\ replies \subseteq replies'
    /\ meeting' = meeting \/ meeting.seen = O!Never
    /\ \/ loop' = loop
       \/ loop.status = "open" /\ loop' = [status |-> "done", closed |-> now, due |-> loop.due] /\ now' = now
    /\ held' = held \/ held.at = O!Never
    /\ Len(runs) <= Len(runs') /\ \A i \in 1..Len(runs) : runs'[i] = runs[i]

LEMMA RepliedStands ==
  ASSUME OutcomesTyped, Onward, NEW e \in Emails
  PROVE  O!Stands(O!Replied(e), O!Replied(e)')
<1>1. /\ sent \in [Emails -> Nat \cup {O!Never}] /\ sent' \in [Emails -> Nat \cup {O!Never}]
      /\ now \in Nat /\ now' \in Nat /\ now <= now'
      /\ replies \subseteq Int /\ replies \subseteq replies' /\ \A t \in replies : t < now
      /\ \A f \in Emails : sent'[f] = sent[f] \/ (sent[f] = O!Never /\ sent'[f] = now)
  BY DEF Onward, OutcomesTyped
<1>2. CASE sent[e] = O!Never
  BY <1>2 DEF O!Replied, O!Stands, O!None
<1>3. CASE sent[e] # O!Never
  <2>1. sent'[e] = sent[e] /\ sent[e] \in Nat
    BY <1>1, <1>3
  <2>2. O!Deadline(e)' = O!Deadline(e) /\ O!Deadline(e) \in Int
    BY <2>1, OutcomesFacts, DaysPass DEF O!Deadline
  <2>3. ASSUME NEW t \in replies PROVE O!Answers(t)' = O!Answers(t)
    <3> DEFINE S == O!Out(t)
    <3>1. O!Out(t)' = S
      BY <1>1 DEF O!Out
    <3>2. \A f \in S : sent'[f] = sent[f]
      BY <1>1 DEF O!Out
    <3>3. O!Answers(t) = IF S = {} THEN NoEmail
                         ELSE CHOOSE f \in S : \A g \in S : sent[g] <= sent[f]
      BY DEF O!Answers
    <3>4. O!Answers(t)' = IF S = {} THEN NoEmail
                          ELSE CHOOSE f \in S : \A g \in S : sent'[g] <= sent'[f]
      BY <3>1 DEF O!Answers
    <3> HIDE DEF S
    <3>5. \A f : (f \in S /\ \A g \in S : sent'[g] <= sent'[f]) <=> (f \in S /\ \A g \in S : sent[g] <= sent[f])
      BY <3>2
    <3>6. (CHOOSE f \in S : \A g \in S : sent'[g] <= sent'[f]) = CHOOSE f \in S : \A g \in S : sent[g] <= sent[f]
      BY <3>5, Zenon
    <3>7. PICK a : a = CHOOSE f \in S : \A g \in S : sent[g] <= sent[f]
      OBVIOUS
    <3>8. O!Answers(t) = IF S = {} THEN NoEmail ELSE a
      BY <3>3, <3>7
    <3>9. O!Answers(t)' = IF S = {} THEN NoEmail ELSE a
      BY <3>4, <3>6, <3>7
    <3> QED
      BY <3>8, <3>9
  <2>4. O!InTime(e) \subseteq O!InTime(e)'
    BY <1>1, <2>1, <2>2, <2>3 DEF O!InTime
  <2>5. O!Day(now) <= O!Day(now') /\ O!Day(now) \in Int /\ O!Day(now') \in Int
    BY <1>1, DaysPass
  <2>6. O!Day(now') > O!Deadline(e) <=> ~(O!Day(now') <= O!Deadline(e)')
    BY <2>2, <2>5
  <2>7. O!Replied(e) = IF O!InTime(e) # {} THEN 1 ELSE IF O!Day(now) <= O!Deadline(e) THEN 2 ELSE 0
    BY <1>3 DEF O!Replied, O!Open
  <2>8. O!Replied(e)' = IF O!InTime(e)' # {} THEN 1 ELSE IF O!Day(now') <= O!Deadline(e)' THEN 2 ELSE 0
    BY <1>3, <2>1 DEF O!Replied, O!Open, O!Day
  <2> QED
    BY <2>2, <2>4, <2>5, <2>7, <2>8 DEF O!Stands
<1> QED
  BY <1>2, <1>3

LEMMA MetStands ==
  ASSUME OutcomesTyped, Onward, NEW e \in Emails
  PROVE  O!Stands(O!Met(e), O!Met(e)')
<1>1. /\ sent \in [Emails -> Nat \cup {O!Never}] /\ sent' \in [Emails -> Nat \cup {O!Never}]
      /\ now \in Nat /\ now' \in Nat /\ now <= now'
      /\ meeting.seen \in Int /\ (meeting' = meeting \/ meeting.seen = O!Never)
      /\ \A f \in Emails : sent'[f] = sent[f] \/ (sent[f] = O!Never /\ sent'[f] = now)
  BY DEF Onward, OutcomesTyped
<1>2. CASE sent[e] = O!Never
  BY <1>2 DEF O!Met, O!Stands, O!None
<1>3. CASE sent[e] # O!Never
  <2>1. sent'[e] = sent[e] /\ sent[e] \in Nat
    BY <1>1, <1>3
  <2>2. O!Until(e)' = O!Until(e) /\ O!Until(e) \in Int /\ O!Day(O!Until(e)) \in Int
    <3>1. O!Until(e) \in Int
      BY <2>1, OutcomesFacts DEF O!Until
    <3> QED
      BY <2>1, <3>1, DaysPass DEF O!Until
  <2> DEFINE In == meeting.seen > sent[e] /\ meeting.seen <= O!Until(e) /\ meeting.start > sent[e]
  <2>3. In => meeting' = meeting
    BY <1>1, <2>1 DEF O!Never
  <2>4. O!Day(now) <= O!Day(now') /\ O!Day(now) \in Int /\ O!Day(now') \in Int
    BY <1>1, DaysPass
  <2>5. O!Met(e) = IF In THEN 1 ELSE IF O!Day(now) <= O!Day(O!Until(e)) THEN 2 ELSE 0
    BY <1>3 DEF O!Met, O!Open
  <2>6. O!Met(e)' = IF In' THEN 1 ELSE IF O!Day(now') <= O!Day(O!Until(e)) THEN 2 ELSE 0
    BY <1>3, <2>1, <2>2 DEF O!Met, O!Open, O!Day
  <2>7. In => In'
    BY <2>1, <2>2, <2>3
  <2> HIDE DEF In
  <2> QED
    BY <2>2, <2>4, <2>5, <2>6, <2>7 DEF O!Stands
<1> QED
  BY <1>2, <1>3

LEMMA OnTimeStands ==
  ASSUME OutcomesTyped, Onward
  PROVE  /\ O!Stands(O!OnTime, O!OnTime')
         /\ O!OnTime = 1 => loop.status = "done" /\ loop' = loop /\ O!OnTime' = 1
<1>1. /\ now \in Nat /\ now' \in Nat /\ now <= now' /\ loop.due \in Int /\ loop.closed \in Int
      /\ loop.status \in {"open", "done"}
      /\ \/ loop' = loop
         \/ loop.status = "open" /\ loop' = [status |-> "done", closed |-> now, due |-> loop.due] /\ now' = now
  BY DEF Onward, OutcomesTyped
<1>2. O!Day(now) <= O!Day(now') /\ O!Day(now) \in Int /\ O!Day(now') \in Int
  BY <1>1, DaysPass
<1>3. O!OnTime = IF loop.status = "done" THEN (IF O!Day(loop.closed) <= loop.due THEN 1 ELSE 0)
                 ELSE IF O!Day(now) <= loop.due THEN 2 ELSE 0
  BY DEF O!OnTime, O!Open
<1>4. O!OnTime' = IF loop'.status = "done" THEN (IF O!Day(loop'.closed) <= loop'.due THEN 1 ELSE 0)
                  ELSE IF O!Day(now') <= loop'.due THEN 2 ELSE 0
  BY DEF O!OnTime, O!Open, O!Day
<1>5. CASE loop' = loop
  BY <1>1, <1>2, <1>3, <1>4, <1>5 DEF O!Stands
<1>6. CASE loop.status = "open" /\ loop' = [status |-> "done", closed |-> now, due |-> loop.due]
  BY <1>1, <1>2, <1>3, <1>4, <1>6 DEF O!Stands
<1> QED
  BY <1>1, <1>5, <1>6

LEMMA AdvancedStands ==
  ASSUME OutcomesTyped, Onward, NEW c \in {1, 2}
  PROVE  O!Stands(O!Advanced(c), O!Advanced(c)')
<1> DEFINE Run == [call : {1, 2}, method : Methods, did : {"nothing", "created", "changed"}]
<1>1. /\ runs \in Seq(Run) /\ runs' \in Seq(Run)
      /\ Len(runs) <= Len(runs') /\ \A i \in 1..Len(runs) : runs'[i] = runs[i]
      /\ held' = held \/ held.at = O!Never
      /\ 2 \in O!CallsOf(runs) => held.at # O!Never
  BY DEF Onward, OutcomesTyped
<1>2. O!CallsOf(runs) \subseteq O!CallsOf(runs)'
  BY <1>1 DEF O!CallsOf
<1>3. CASE c = 1 \/ c \notin O!CallsOf(runs)
  BY <1>3 DEF O!Advanced, O!Stands, O!None
<1>4. CASE c = 2 /\ 2 \in O!CallsOf(runs)
  <2>1. held' = held
    BY <1>1, <1>4
  <2>2. O!Learnt(2) => O!Learnt(2)'
    <3> SUFFICES ASSUME NEW i \in 1..Len(runs), runs[i].call = 2,
                        runs[i].did = "changed" \/ (runs[i].did = "created" /\ O!SameMethod(i))
                 PROVE  O!Learnt(2)'
      BY <1>1 DEF O!Learnt
    <3>1. i \in 1..Len(runs') /\ runs'[i] = runs[i]
      BY <1>1
    <3>2. O!SameMethod(i) => O!SameMethod(i)'
      BY <1>1, <3>1 DEF O!SameMethod
    <3> QED
      BY <1>1, <3>1, <3>2 DEF O!Learnt
  <2>3. (O!OnTime = 1 /\ loop.closed <= held.at) => (O!OnTime' = 1 /\ loop'.closed <= held'.at)
    BY <2>1, OnTimeStands
  <2> DEFINE A == held.newcomer \/ O!Learnt(2) \/ (O!OnTime = 1 /\ loop.closed <= held.at)
  <2>4. A => A'
    BY <2>1, <2>2, <2>3
  <2>5. O!Advanced(2) = IF A THEN 1 ELSE 0
    BY <1>4 DEF O!Advanced
  <2>6. O!Advanced(2)' = IF A' THEN 1 ELSE 0
    BY <1>2, <1>4 DEF O!Advanced
  <2> HIDE DEF A
  <2> QED
    BY <1>4, <2>4, <2>5, <2>6 DEF O!Stands
<1> QED
  BY <1>3, <1>4

LEMMA CallsOfMore ==
  ASSUME NEW R, NEW s \in Seq(R), NEW x \in R
  PROVE  /\ Append(s, x) \in Seq(R) /\ Len(Append(s, x)) = Len(s) + 1
         /\ \A i \in 1..Len(s) : Append(s, x)[i] = s[i]
         /\ \A c : c \in O!CallsOf(Append(s, x)) => c \in O!CallsOf(s) \/ c = x.call
<1>1. /\ Append(s, x) \in Seq(R) /\ Len(Append(s, x)) = Len(s) + 1
      /\ Append(s, x)[Len(s) + 1] = x /\ \A i \in 1..Len(s) : Append(s, x)[i] = s[i]
  OBVIOUS
<1>2. DOMAIN s = 1..Len(s) /\ DOMAIN Append(s, x) = 1..(Len(s) + 1) /\ Len(s) \in Nat
  BY <1>1
<1>3. \A i \in 1..(Len(s) + 1) : i \in 1..Len(s) \/ i = Len(s) + 1
  BY <1>2
<1>4. \A c : c \in O!CallsOf(Append(s, x)) => c \in O!CallsOf(s) \/ c = x.call
  BY <1>1, <1>2, <1>3 DEF O!CallsOf
<1> QED
  BY <1>1, <1>4

(* Whatever else happens, by a recompute or not, the tables move onward.   *)
LEMMA Moved == ASSUME OutcomesTyped, [O!Next]_(O!vars) PROVE Onward
<1> DEFINE Run == [call : {1, 2}, method : Methods, did : {"nothing", "created", "changed"}]
<1> USE DEF OutcomesTyped, Onward
<1>1. CASE UNCHANGED <<now, O!facts>>
  BY <1>1 DEF O!facts, O!CallsOf
<1>2. CASE O!Passes
  BY <1>2 DEF O!Passes, O!facts, O!CallsOf
<1>3. ASSUME NEW e \in Emails, O!Send(e) PROVE Onward
  BY <1>3 DEF O!Send, O!CallsOf
<1>4. CASE O!BuyerReplies
  BY <1>4 DEF O!BuyerReplies, O!CallsOf
<1>5. CASE O!Fetches
  BY <1>5 DEF O!Fetches, O!CallsOf
<1>6. CASE O!Books
  BY <1>6, OutcomesFacts DEF O!Books, O!CallsOf
<1>7. CASE O!Closes
  <2>1. loop' = [status |-> "done", closed |-> now, due |-> loop.due]
    BY <1>7 DEF O!Closes
  <2>2. loop'.status = "done" /\ loop'.closed \in Int /\ loop'.due \in Int
        /\ loop' \in [status : {"open", "done"}, closed : Int, due : Int]
    BY <2>1
  <2>3. /\ loop.status = "open"
        /\ UNCHANGED <<now, sent, came, replies, meeting, held, runs, using>>
    BY <1>7 DEF O!Closes
  <2> QED
    BY <2>1, <2>2, <2>3 DEF O!CallsOf
<1>8. CASE O!Holds
  <2>1. now # O!Never
    BY DEF O!Never
  <2> QED
    BY <1>8, <2>1 DEF O!Holds, O!CallsOf
<1>9. ASSUME NEW c \in {1, 2}, O!Strategist(c) PROVE Onward
  <2>1. PICK did \in {"nothing", "created", "changed"} :
            runs' = Append(runs, [call |-> c, method |-> using, did |-> did])
    BY <1>9 DEF O!Strategist
  <2>2. UNCHANGED <<now, sent, came, replies, meeting, loop, held, using>> /\ (c = 2 => held.at # O!Never)
    BY <1>9 DEF O!Strategist
  <2> DEFINE x == [call |-> c, method |-> using, did |-> did]
  <2>3. x \in Run /\ x.call = c
    OBVIOUS
  <2> HIDE DEF x, Run
  <2>4. runs \in Seq(Run) /\ runs' = Append(runs, x)
    BY <2>1 DEF x, Run
  <2>5. /\ runs' \in Seq(Run) /\ Len(runs') = Len(runs) + 1 /\ Len(runs) \in Nat
        /\ \A i \in 1..Len(runs) : runs'[i] = runs[i]
        /\ 2 \in O!CallsOf(runs') => 2 \in O!CallsOf(runs) \/ 2 = c
    BY <2>3, <2>4, CallsOfMore
  <2>6. O!CallsOf(runs)' = O!CallsOf(runs')
    BY DEF O!CallsOf
  <2> QED
    BY <2>2, <2>5, <2>6 DEF Run
<1>10. CASE O!Switches
  BY <1>10 DEF O!Switches, O!CallsOf
<1>11. CASE UNCHANGED O!vars \/ O!Recompute
  BY <1>1, <1>11 DEF O!vars, O!Recompute
<1> QED
  BY <1>2, <1>3, <1>4, <1>5, <1>6, <1>7, <1>8, <1>9, <1>10, <1>11 DEF O!Next

LEMMA OutcomesInit == O!Init => OutcomesInv
<1> SUFFICES ASSUME O!Init PROVE OutcomesInv
  OBVIOUS
<1>1. /\ now = 0 /\ sent = [e \in Emails |-> O!Never] /\ came = {} /\ replies = {}
      /\ meeting = [seen |-> O!Never, start |-> O!Never]
      /\ loop = [status |-> "open", closed |-> O!Never, due |-> 1]
      /\ held = [at |-> O!Never, newcomer |-> FALSE] /\ runs = <<>> /\ using \in Methods
      /\ derived = [email |-> [k \in O!Kinds |-> [e \in Emails |-> O!None]], loop |-> O!None,
                    call |-> [c \in {1, 2} |-> O!None]]
  BY DEF O!Init
<1>2. OutcomesTyped
  BY <1>1 DEF OutcomesTyped, O!Never, O!CallsOf
<1>3. RowsTell
  BY <1>1 DEF RowsTell, O!Stands, O!None, O!Kinds
<1>4. O!SwitchIsNoAdvance
  BY <1>1 DEF O!SwitchIsNoAdvance, O!None
<1> QED
  BY <1>2, <1>3, <1>4 DEF OutcomesInv

LEMMA OutcomesStep ==
  ASSUME OutcomesInv, [O!Next]_(O!vars) PROVE OutcomesInv' /\ O!RowsStand
<1>1. OutcomesTyped /\ RowsTell /\ Onward
  BY Moved DEF OutcomesInv
<1>2. /\ \A e \in Emails : O!Stands(O!Replied(e), O!Replied(e)') /\ O!Stands(O!Met(e), O!Met(e)')
      /\ O!Stands(O!OnTime, O!OnTime')
      /\ \A c \in {1, 2} : O!Stands(O!Advanced(c), O!Advanced(c)')
  BY <1>1, RepliedStands, MetStands, OnTimeStands, AdvancedStands
<1>3. CASE O!Recompute
  <2>1. /\ \A e \in Emails : /\ derived'.email["email_replied"][e] = O!Replied(e)
                             /\ derived'.email["meeting_after_email"][e] = O!Met(e)
        /\ derived'.loop = O!OnTime
        /\ \A c \in {1, 2} : derived'.call[c] = O!Advanced(c)
    BY <1>3 DEF O!Recompute, O!Kinds
  <2>2. RowsTell'
    BY <1>2, <2>1 DEF RowsTell
  <2>3. O!RowsStand
    BY <1>1, <2>1 DEF RowsTell, O!RowsStand, O!Kinds
  <2>4. O!SwitchIsNoAdvance'
    <3> SUFFICES ASSUME O!Advanced(2) = 1
                 PROVE  \/ held.newcomer \/ loop.status = "done"
                        \/ \E i \in DOMAIN runs : /\ runs[i].did # "nothing"
                                                  /\ ~O!Fresh(i) \/ runs[i].did = "changed"
      BY <1>3, <2>1 DEF O!SwitchIsNoAdvance, O!Recompute, O!facts, O!Fresh
    <3>1. held.newcomer \/ O!Learnt(2) \/ O!OnTime = 1
      BY DEF O!Advanced, O!None
    <3>2. O!OnTime = 1 => loop.status = "done"
      BY <1>1, OnTimeStands
    <3>3. ASSUME O!Learnt(2)
          PROVE  \E i \in DOMAIN runs : runs[i].did # "nothing" /\ (~O!Fresh(i) \/ runs[i].did = "changed")
      <4>1. PICK i \in DOMAIN runs : runs[i].did = "changed" \/ (runs[i].did = "created" /\ O!SameMethod(i))
        BY <3>3 DEF O!Learnt
      <4>2. O!SameMethod(i) => ~O!Fresh(i)
        BY <1>1, <4>1 DEF O!SameMethod, O!Fresh, OutcomesTyped
      <4> QED
        BY <4>1, <4>2
    <3> QED
      BY <3>1, <3>2, <3>3
  <2> QED
    BY <1>1, <2>2, <2>3, <2>4 DEF OutcomesInv, Onward
<1>4. CASE derived' = derived
  <2>1. RowsTell'
    BY <1>1, <1>2, <1>4, StandsFurther DEF RowsTell
  <2>2. O!RowsStand
    BY <1>4 DEF O!RowsStand, O!Stands
  <2>3. O!SwitchIsNoAdvance'
    <3> SUFFICES ASSUME derived.call[2] = 1
                 PROVE  (held.newcomer \/ loop.status = "done"
                          \/ \E i \in DOMAIN runs : /\ runs[i].did # "nothing"
                                                    /\ ~O!Fresh(i) \/ runs[i].did = "changed")'
      BY <1>4 DEF O!SwitchIsNoAdvance
    <3>1. O!Advanced(2) = 1
      BY <1>1 DEF RowsTell, O!Stands
    <3>2. 2 \in O!CallsOf(runs) /\ held' = held /\ (loop' = loop \/ loop'.status = "done")
      BY <1>1, <3>1 DEF O!Advanced, O!None, OutcomesTyped, Onward
    <3>3. ASSUME NEW i \in DOMAIN runs, runs[i].did # "nothing", ~O!Fresh(i) \/ runs[i].did = "changed"
          PROVE  (\E j \in DOMAIN runs : runs[j].did # "nothing" /\ (~O!Fresh(j) \/ runs[j].did = "changed"))'
      <4>1. /\ i \in 1..Len(runs) /\ i \in 1..Len(runs') /\ DOMAIN runs' = 1..Len(runs')
        <5>1. /\ DOMAIN runs = 1..Len(runs) /\ DOMAIN runs' = 1..Len(runs')
              /\ Len(runs) \in Nat /\ Len(runs') \in Nat /\ Len(runs) <= Len(runs')
          BY <1>1 DEF OutcomesTyped, Onward
        <5>2. i \in 1..Len(runs)
          BY <5>1
        <5> QED
          BY <5>1, <5>2
      <4>2. runs'[i] = runs[i] /\ (i > 1 => runs'[i - 1] = runs[i - 1])
        <5>1. \A k \in 1..Len(runs) : runs'[k] = runs[k]
          BY <1>1 DEF Onward
        <5>2. i > 1 => i - 1 \in 1..Len(runs)
          BY <4>1
        <5> QED
          BY <4>1, <5>1, <5>2
      <4> QED
        BY <3>3, <4>1, <4>2 DEF O!Fresh
    <3> QED
      BY <1>4, <3>2, <3>3 DEF OutcomesInv, O!SwitchIsNoAdvance
  <2> QED
    BY <1>1, <2>1, <2>2, <2>3 DEF OutcomesInv, Onward
<1>5. O!Recompute \/ derived' = derived
  BY DEF O!Next, O!vars, O!Passes, O!Send, O!BuyerReplies, O!Fetches, O!Books, O!Closes, O!Holds,
         O!Strategist, O!Switches
<1> QED
  BY <1>3, <1>4, <1>5

(* A verdict that something happened is not taken back, and one that it    *)
(* did not only by an answer that came in time and was fetched late; a     *)
(* switch of the methodology makes no call advance.                        *)
THEOREM VerdictsStay == AllSpec => VerdictsHold
<1> DEFINE Inv == part = "outcomes" => OutcomesInv
           Holds == part = "outcomes" => O!SwitchIsNoAdvance
           Stand == part = "outcomes" => O!RowsStand
<1>1. AllInit => Inv
  BY OutcomesInit DEF AllInit
<1>2. Inv /\ [AllNext]_<<part, vars, lvars, ovars, dvars>> => Inv' /\ [Stand]_ovars
  <2> SUFFICES ASSUME Inv, [AllNext]_<<part, vars, lvars, ovars, dvars>> PROVE Inv' /\ Stand
    OBVIOUS
  <2>1. part' = part
    BY DEF AllNext
  <2>2. CASE part = "outcomes"
    <3>1. [O!Next]_(O!vars)
      BY <2>2 DEF AllNext, ovars, O!vars, O!facts
    <3> QED
      BY <2>1, <2>2, <3>1, OutcomesStep
  <2>3. CASE part # "outcomes"
    BY <2>1, <2>3
  <2> QED
    BY <2>2, <2>3
<1>3. Inv => Holds
  BY DEF OutcomesInv
<1>4. VerdictsHold <=> []Holds /\ [][Stand]_ovars
  BY DEF VerdictsHold
<1> HIDE DEF Inv, Holds, Stand
<1> QED
  BY <1>1, <1>2, <1>3, <1>4, PTL DEF AllSpec

=============================================================================
