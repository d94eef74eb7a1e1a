-------------------------- MODULE CallAnalysisProofs --------------------------
(* Theorems about CallAnalysis, for any turns, transcripts, reports,       *)
(* answers, promises, clicks, runs and stops; and about what its steps     *)
(* rely on: the bus that hands them out (EventBus), the agents' runs       *)
(* (Agents) and the choice of the model they ask (Settings).               *)
EXTENDS MCCallAnalysis, TLAPS

(* What the proofs need of the steps: the first and last numbers of each.  *)
LEMMA StepNumbers ==
  /\ Len(Steps) = 7
  /\ Index["final_transcribed"] = 1 /\ Index["diarized"] = 2 /\ Index["quality_done"] = 3
  /\ Index["summarized"] = 4 /\ Index["analyzed"] = 5
  /\ Index["actions_extracted"] = 6 /\ Index["loops_reconciled"] = 7
  /\ DOMAIN KindOf = 3..6
  /\ KindOf[3] = "quality" /\ KindOf[4] = "summary"
  /\ KindOf[5] = "analysis" /\ KindOf[6] = "actions"
<1>1. DOMAIN Steps = 1..7 /\ Len(Steps) = 7
  BY DEF Steps
<1>2. \A i, j \in 1..7 : Steps[i] = Steps[j] => i = j
  BY DEF Steps
<1>3. ASSUME NEW i \in 1..7 PROVE Index[Steps[i]] = i
  <2>1. Index[Steps[i]] = CHOOSE j \in DOMAIN Steps : Steps[j] = Steps[i]
    BY <1>1, <1>3 DEF Index
  <2> QED
    BY <2>1, <1>1, <1>2, <1>3
<1>4. DOMAIN KindOf = 3..6
  BY DEF KindOf
<1>5. KindOf[3] = "quality" /\ KindOf[4] = "summary" /\ KindOf[5] = "analysis" /\ KindOf[6] = "actions"
  <2>1. \A i \in 3..6 : KindOf[i] = <<"", "", "quality", "summary", "analysis", "actions">>[i]
    BY DEF KindOf
  <2>2. KindOf[3] = "quality" /\ KindOf[4] = "summary"
    BY <2>1
  <2>3. KindOf[5] = "analysis" /\ KindOf[6] = "actions"
    BY <2>1
  <2> QED
    BY <2>2, <2>3
<1>6. /\ Steps[1] = "final_transcribed" /\ Steps[2] = "diarized" /\ Steps[3] = "quality_done"
      /\ Steps[4] = "summarized" /\ Steps[5] = "analyzed"
      /\ Steps[6] = "actions_extracted" /\ Steps[7] = "loops_reconciled"
  BY DEF Steps
<1> QED
  BY <1>1, <1>3, <1>4, <1>5, <1>6

LEMMA Levels ==
  /\ Grades = {"ok", "partial", "garbled"}
  /\ \A g \in Grades : Order[g] \in Nat
  BY DEF Grades, Order

Fields == {"at", "i", "force", "last", "done", "cached", "input", "deal", "text"}
RunShape(r) == r = [x \in Fields |-> r[x]]

LEMMA NoRunShape == RunShape(NoRun) /\ NoRun.at = "idle" /\ NoRun.cached = FALSE
  BY DEF RunShape, Fields, NoRun

LEMMA OnwardsShape ==
  ASSUME NEW r, RunShape(r), NEW last
  PROVE  LET new == [r EXCEPT !.at = "load", !.i = @ + 1, !.last = last, !.cached = FALSE,
                              !.input = <<>>, !.deal = NoOne, !.text = NoOne]
         IN  RunShape(new) /\ new.at = "load" /\ new.i = r.i + 1 /\ new.cached = FALSE
  BY DEF RunShape, Fields

(* A run is where it says it is.  A step at work has the transcript there  *)
(* is, and one that reuses an answer reuses one about it.                  *)
RunOK ==
    /\ RunShape(run)
    /\ run.at \in {"idle", "load", "work"}
    /\ run.at = "load" => run.i \in 1..8
    /\ run.at = "work" => run.i \in 1..7 /\ run.text = text
    /\ run.cached => run.at = "work" /\ run.i \in 3..6
    /\ run.at = "work" /\ run.i = 5 => run.input[1][1] = text
    /\ run.cached /\ run.i = 5 =>
           art["analysis"].out # NoOne /\ art["analysis"].input[1][1] = text

Turn == [grade : Grades, asr : BOOLEAN, cluster : Turns \cup {0}, person : People \cup {NoOne}]

LoopShape(l)  == l = [x \in {"is", "text", "deal"} |-> l[x]]
ClaimShape(c) == c = [x \in {"out", "text", "deal", "assessed"} |-> c[x]]

(* The turns, the newest artifacts and how far they have come.             *)
RowsOK ==
    /\ behind \in 1..8 /\ state \in States
    /\ turns \in [Turns -> Turn]
    /\ art = [k \in Kinds |-> art[k]]
    /\ behind > 3 => art["quality"].out \in [Turns -> Grades]
    /\ loops = [a \in Actions |-> loops[a]] /\ \A a \in Actions : LoopShape(loops[a])
    /\ ClaimShape(claims)

(* The claims are those of the newest analysis, and cite what it read.     *)
ClaimsOK ==
    art["analysis"].out # NoOne => /\ claims.out = art["analysis"].out
                                   /\ claims.text = art["analysis"].input[1][1]

(* The inductive invariant.                                                *)
IInv == RunOK /\ RowsOK /\ ClaimsOK /\ EvidenceStands /\ FindingsStand

LEMMA InitIInv == Init => IInv
<1> SUFFICES ASSUME Init PROVE IInv
  OBVIOUS
<1>1. RunOK
  BY NoRunShape DEF Init, RunOK
<1>2. RowsOK
  BY Levels DEF Init, RowsOK, NoTurn, Turn, States, LoopShape, ClaimShape, NoLoop, NoClaims
<1>3. ClaimsOK
  BY DEF Init, ClaimsOK, NoArt, Kinds
<1>4. EvidenceStands
  BY StepNumbers DEF Init, EvidenceStands, GradesApply, EvidenceIsHere
<1>5. FindingsStand
  BY StepNumbers DEF Init, FindingsStand, FindingsFollow, ProposalsAreCurrent, NoClaims, NoLoop
<1> QED
  BY <1>1, <1>2, <1>3, <1>4, <1>5 DEF IInv

----------------------------------------------------------------------------
(* The end of a step: the run goes on, and nothing after the step is done  *)
(* on what it wrote.                                                       *)
LEMMA Advanced ==
  ASSUME IInv, run.at = "work", Advance
  PROVE  /\ RunOK' /\ state' \in States /\ behind' \in 1..8
         /\ behind' = IF behind = run.i \/ (behind > run.i /\ ~run.cached)
                      THEN run.i + 1 ELSE behind
<1>1. run.i \in 1..7
  BY DEF IInv, RunOK
<1>2. RunShape(run)' /\ run'.at = "load" /\ run'.i = run.i + 1 /\ run'.cached = FALSE
  BY OnwardsShape DEF Advance, IInv, RunOK
<1>3. RunOK'
  BY <1>1, <1>2 DEF RunOK
<1>4. state' \in States
  <2>1. Steps[run.i] \in DOMAIN Index
    BY <1>1, StepNumbers DEF Index, Steps
  <2> QED
    BY <2>1 DEF Advance, States
<1> QED
  BY <1>1, <1>3, <1>4 DEF Advance, IInv, RowsOK

LEMMA TranscribeIInv == ASSUME IInv, NEW x \in Texts, Transcribe(x) PROVE IInv'
<1>1. run.i = 1 /\ run.at = "work" /\ ~run.cached
  BY StepNumbers DEF Transcribe, At, IInv, RunOK
<1>2. RunOK' /\ state' \in States /\ behind' = 2
  BY <1>1, Advanced DEF Transcribe, IInv, RowsOK
<1>3. RowsOK'
  <2>1. AsrGrade[x] \in [Turns -> {"ok", "partial"}]
    BY CallAnalysisConstants
  <2>3. turns' = [t \in Turns |-> FreshTurn(x, t)]
    BY DEF Transcribe
  <2>4. \A t \in Turns : FreshTurn(x, t) \in Turn
    BY <2>1, Levels DEF FreshTurn, NoTurn, Turn
  <2> QED
    BY <1>2, <2>3, <2>4 DEF Transcribe, IInv, RowsOK
<1>4. ClaimsOK'
  BY DEF IInv, ClaimsOK, Transcribe
<1>5. EvidenceStands'
  BY <1>2, StepNumbers DEF EvidenceStands, GradesApply, EvidenceIsHere
<1>6. FindingsStand'
  BY <1>2, StepNumbers DEF IInv, Transcribe, FindingsStand, FindingsFollow, ProposalsAreCurrent
<1> QED
  BY <1>2, <1>3, <1>4, <1>5, <1>6 DEF IInv

LEMMA DiarizeIInv == ASSUME IInv, NEW f \in Clusterings, Diarize(f) PROVE IInv'
<1>1. run.i = 2 /\ run.at = "work" /\ ~run.cached
  BY StepNumbers DEF Diarize, At, IInv, RunOK
<1>2. RunOK' /\ state' \in States /\ behind' \in 1..3
  BY <1>1, Advanced DEF Diarize, IInv, RowsOK
<1>3. RowsOK'
  <2>1. ASSUME NEW t \in Turns PROVE turns'[t] \in Turn
    <3>1. turns[t] \in Turn /\ f[t] \in Turns
      BY DEF IInv, RowsOK, Clusterings
    <3>2. turns'[t] = [turns[t] EXCEPT !.cluster = f[t]]
      BY DEF Diarize
    <3> QED
      BY <3>1, <3>2 DEF Turn
  <2> QED
    BY <1>2, <2>1 DEF Diarize, IInv, RowsOK
<1>4. ClaimsOK'
  BY DEF IInv, ClaimsOK, Diarize
<1>5. EvidenceStands'
  BY <1>2, StepNumbers DEF EvidenceStands, GradesApply, EvidenceIsHere
<1>6. FindingsStand'
  BY <1>2, StepNumbers DEF IInv, Diarize, FindingsStand, FindingsFollow, ProposalsAreCurrent
<1> QED
  BY <1>2, <1>3, <1>4, <1>5, <1>6 DEF IInv

LEMMA QualityIInv == ASSUME IInv, NEW report \in Reports, Quality(report) PROVE IInv'
<1>1. run.i = 3 /\ run.at = "work"
  BY StepNumbers DEF Quality, At, IInv, RunOK
<1>2. /\ RunOK' /\ state' \in States /\ behind' \in 1..8
      /\ behind' > 4 => run.cached /\ behind' = behind
  BY <1>1, Advanced DEF Quality, IInv, RowsOK
<1>3. report \in [Turns -> Grades]
  BY CallAnalysisConstants, Levels
<1>4. /\ art' = [k \in Kinds |-> art'[k]]
      /\ \A k \in Kinds \ {"quality"} : art'[k] = art[k]
      /\ art'["quality"].out = report
  BY DEF Quality, Saved, Answer, IInv, RowsOK, Kinds
<1>5. ASSUME NEW t \in Turns
      PROVE  turns'[t] \in Turn /\ Order[turns'[t].grade] >= Order[report[t]]
  <2>1. turns[t] \in Turn /\ turns[t].grade \in Grades /\ report[t] \in Grades
    BY <1>3 DEF IInv, RowsOK, Turn
  <2>2. Order[turns[t].grade] \in Nat /\ Order[report[t]] \in Nat
    BY <2>1, Levels
  <2>3. turns'[t] = Marked(t, report)
    BY DEF Quality
  <2>4. CASE Order[report[t]] > Order[turns[t].grade]
    <3>1. turns'[t] = [turns[t] EXCEPT !.grade = report[t], !.asr = FALSE]
      BY <2>3, <2>4 DEF Marked
    <3>2. turns'[t] \in Turn /\ turns'[t].grade = report[t]
      BY <3>1, <2>1 DEF Turn
    <3> QED
      BY <3>2, <2>2
  <2>5. CASE ~(Order[report[t]] > Order[turns[t].grade])
    <3>1. turns'[t] = turns[t]
      BY <2>3, <2>5 DEF Marked
    <3> QED
      BY <3>1, <2>1, <2>2, <2>5
  <2> QED
    BY <2>4, <2>5
<1>6. RowsOK'
  BY <1>2, <1>3, <1>4, <1>5 DEF Quality, IInv, RowsOK
<1>7. ClaimsOK'
  BY <1>4 DEF IInv, ClaimsOK, Quality, Kinds
<1>8. EvidenceStands'
  BY <1>2, <1>4, <1>5, StepNumbers DEF IInv, EvidenceStands, GradesApply, EvidenceIsHere, Quality, Kinds
<1>9. FindingsStand'
  BY <1>2, <1>4, StepNumbers DEF IInv, Quality, FindingsStand, FindingsFollow, ProposalsAreCurrent, Kinds
<1> QED
  BY <1>2, <1>6, <1>7, <1>8, <1>9 DEF IInv

(* The steps that write one artifact and no turn, claim or loop.           *)
LEMMA ArtifactIInv ==
  ASSUME IInv, run.at = "work", run.i \in {4, 6}, Advance,
         NEW kind \in {"summary", "actions"}, NEW out, Saved(kind, out),
         kind = "actions" => run.i = 6,
         UNCHANGED <<text, turns, speakers, deal, claims, loops, crossed>>
  PROVE  IInv'
<1>1. /\ RunOK' /\ state' \in States /\ behind' \in 1..8
      /\ behind' > 3 => behind > 3
      /\ behind' > 5 => behind > 5
      /\ behind' > 7 => run.cached /\ behind' = behind
  BY Advanced DEF IInv, RowsOK
<1>2. /\ art' = [k \in Kinds |-> art'[k]]
      /\ \A k \in Kinds \ {kind} : art'[k] = art[k]
      /\ run.cached => art' = art
  BY DEF Saved, IInv, RowsOK, Kinds
<1>3. RowsOK'
  BY <1>1, <1>2 DEF IInv, RowsOK, Kinds
<1>4. ClaimsOK'
  BY <1>2 DEF IInv, ClaimsOK, Kinds
<1>5. EvidenceStands'
  BY <1>1, <1>2, StepNumbers DEF IInv, EvidenceStands, GradesApply, EvidenceIsHere, Kinds
<1>6. FindingsStand'
  BY <1>1, <1>2, StepNumbers DEF IInv, FindingsStand, FindingsFollow, ProposalsAreCurrent
<1> QED
  BY <1>1, <1>3, <1>4, <1>5, <1>6 DEF IInv

LEMMA SummaryIInv == ASSUME IInv, NEW out, Summary(out) PROVE IInv'
<1>1. run.i = 4 /\ run.at = "work"
  BY StepNumbers DEF Summary, At
<1> QED
  BY <1>1, ArtifactIInv DEF Summary

LEMMA ActionsFoundIInv == ASSUME IInv, NEW out, ActionsFound(out) PROVE IInv'
<1>1. run.i = 6 /\ run.at = "work"
  BY StepNumbers DEF ActionsFound, At
<1> QED
  BY <1>1, ArtifactIInv DEF ActionsFound

LEMMA AnalysisIInv == ASSUME IInv, NEW out \in Answers, Analysis(out) PROVE IInv'
<1>1. run.i = 5 /\ run.at = "work" /\ run.text = text /\ run.input[1][1] = text
  BY StepNumbers DEF Analysis, At, IInv, RunOK
<1>2. /\ RunOK' /\ state' \in States /\ behind' \in 1..8
      /\ behind' > 3 => behind > 3
      /\ behind' > 6 => run.cached /\ behind' = behind
  BY <1>1, Advanced DEF Analysis, IInv, RowsOK
<1>3. /\ art' = [k \in Kinds |-> art'[k]]
      /\ \A k \in Kinds \ {"analysis"} : art'[k] = art[k]
      /\ run.cached => art' = art
      /\ ~run.cached => art'["analysis"] = [input |-> run.input, out |-> out]
  BY DEF Analysis, Saved, IInv, RowsOK, Kinds
<1>4. RowsOK'
  <2>1. ClaimShape(claims)'
    <3>1. CASE run.cached
      BY <3>1 DEF Analysis, IInv, RowsOK, ClaimShape
    <3>2. CASE ~run.cached
      BY <3>2 DEF Analysis, ClaimShape
    <3> QED
      BY <3>1, <3>2
  <2> QED
    BY <1>2, <1>3, <2>1 DEF Analysis, IInv, RowsOK, Kinds
<1>5. /\ claims'.out = art'["analysis"].out /\ claims'.text = text'
      /\ art'["analysis"].input[1][1] = text'
  <2>1. CASE run.cached
    BY <1>1, <1>3, <2>1 DEF Analysis, IInv, RunOK, ClaimsOK
  <2>2. CASE ~run.cached
    BY <1>1, <1>3, <2>2 DEF Analysis
  <2> QED
    BY <2>1, <2>2
<1>6. ClaimsOK'
  BY <1>5 DEF ClaimsOK
<1>7. EvidenceStands'
  BY <1>2, <1>3, <1>5, StepNumbers DEF Analysis, IInv, EvidenceStands, GradesApply, EvidenceIsHere, Kinds
<1>8. FindingsFollow'
  BY DEF Analysis, IInv, FindingsStand, FindingsFollow
<1>9. ProposalsAreCurrent'
  BY <1>2, <1>3, StepNumbers DEF Analysis, IInv, RowsOK, FindingsStand, ProposalsAreCurrent, Kinds
<1> QED
  BY <1>2, <1>4, <1>6, <1>7, <1>8, <1>9 DEF IInv, FindingsStand

LEMMA ReconcileIInv == ASSUME IInv, Reconcile PROVE IInv'
<1> DEFINE found == art["actions"].out
<1>1. run.i = 7 /\ run.at = "work" /\ ~run.cached
  BY StepNumbers DEF Reconcile, At, IInv, RunOK
<1>2. /\ RunOK' /\ state' \in States /\ behind' \in 1..8
      /\ behind' > 3 => behind > 3
      /\ behind' > 5 => behind > 5
  BY <1>1, Advanced DEF Reconcile, IInv, RowsOK
<1>3. loops' = [a \in Actions |-> Reconciled(a, found)]
  BY DEF Reconcile
<1>4. RowsOK'
  <2>1. ASSUME NEW a \in Actions PROVE LoopShape(Reconciled(a, found))
    <3>1. LoopShape(loops[a])
      BY DEF IInv, RowsOK
    <3>2. CASE Reconciled(a, found) = [is |-> "proposed", text |-> Cites, deal |-> run.deal]
      BY <3>2 DEF LoopShape
    <3>3. CASE Reconciled(a, found) = [loops[a] EXCEPT !.is = "dropped"]
      BY <3>1, <3>3 DEF LoopShape
    <3>4. CASE Reconciled(a, found) = loops[a]
      BY <3>1, <3>4
    <3> QED
      BY <3>2, <3>3, <3>4 DEF Reconciled
  <2> QED
    BY <1>2, <1>3, <2>1 DEF Reconcile, IInv, RowsOK
<1>5. ClaimsOK' /\ EvidenceStands'
  BY <1>2, StepNumbers DEF Reconcile, IInv, ClaimsOK, EvidenceStands, GradesApply, EvidenceIsHere
<1>6. ASSUME NEW a \in Actions
      PROVE  /\ Reconciled(a, found).is = "proposed" => a \in found
             /\ \/ Reconciled(a, found).is = "none"
                \/ Reconciled(a, found).deal = run.deal
                \/ loops[a].is # "none" /\ Reconciled(a, found).deal = loops[a].deal
  <2>1. CASE a \in found /\ loops[a].is = "none"
    <3>1. Reconciled(a, found) = [is |-> "proposed", text |-> Cites, deal |-> run.deal]
      BY <2>1 DEF Reconciled, RerunDrops
    <3> QED
      BY <3>1, <2>1
  <2>2. CASE RerunDrops(a, found) /\ ~(a \in found /\ loops[a].is = "none")
    <3>1. Reconciled(a, found) = [loops[a] EXCEPT !.is = "dropped"]
      BY <2>2 DEF Reconciled, RerunDrops
    <3> QED
      BY <3>1, <2>2 DEF RerunDrops
  <2>3. CASE ~RerunDrops(a, found) /\ ~(a \in found /\ loops[a].is = "none")
    <3>1. Reconciled(a, found) = loops[a]
      BY <2>3 DEF Reconciled
    <3> QED
      BY <3>1, <2>3 DEF RerunDrops
  <2> QED
    BY <2>1, <2>2, <2>3
<1>7. FindingsFollow'
  <2> SUFFICES ASSUME ~crossed'
               PROVE  /\ claims'.out # NoOne => claims'.deal = deal'
                      /\ \A a \in Actions : loops'[a].is # "none" => loops'[a].deal = deal'
    BY DEF FindingsFollow
  <2>1. ~crossed /\ (loops' = loops \/ run.deal = deal)
    BY DEF Reconcile
  <2>2. /\ claims.out # NoOne => claims.deal = deal
        /\ \A a \in Actions : loops[a].is # "none" => loops[a].deal = deal
    BY <2>1 DEF IInv, FindingsStand, FindingsFollow
  <2>3. claims' = claims /\ deal' = deal
    BY DEF Reconcile
  <2>4. CASE loops' = loops
    BY <2>2, <2>3, <2>4
  <2>5. CASE run.deal = deal
    BY <1>3, <1>6, <2>2, <2>3, <2>5
  <2> QED
    BY <2>1, <2>3, <2>2, <2>4, <2>5
<1>8. ProposalsAreCurrent'
  BY <1>3, <1>6 DEF Reconcile, ProposalsAreCurrent
<1> QED
  BY <1>2, <1>4, <1>5, <1>7, <1>8 DEF IInv, FindingsStand

----------------------------------------------------------------------------
(* Steps that change neither the turns nor the artifacts: what they say    *)
(* stays.                                                                  *)
LEMMA StepRange == \A st \in DOMAIN Index : Index[st] \in 1..7
<1>1. DOMAIN Index = {Steps[i] : i \in DOMAIN Steps} /\ DOMAIN Steps = 1..7
  BY DEF Index, Steps
<1>2. ASSUME NEW st \in DOMAIN Index PROVE Index[st] \in 1..7
  <2>1. PICK i \in 1..7 : Steps[i] = st
    BY <1>1
  <2>2. Index[st] = CHOOSE j \in DOMAIN Steps : Steps[j] = st
    BY <1>1 DEF Index
  <2> QED
    BY <1>1, <2>1, <2>2
<1> QED
  BY <1>2

(* Everything but the run and the state stays.                             *)
Rows == <<text, turns, deal, art, claims, loops, behind, crossed>>

LEMMA SameRows ==
  ASSUME IInv, UNCHANGED Rows, RunOK', state' \in States
  PROVE  IInv'
<1>1. RowsOK' /\ ClaimsOK'
  BY DEF IInv, RowsOK, ClaimsOK, Rows
<1>2. EvidenceStands' /\ FindingsStand'
  BY StepNumbers DEF IInv, Rows, EvidenceStands, GradesApply, EvidenceIsHere,
                     FindingsStand, FindingsFollow, ProposalsAreCurrent
<1> QED
  BY <1>1, <1>2 DEF IInv

LEMMA BeginIInv ==
  ASSUME IInv, NEW from \in RerunFrom \cup {"start"}, NEW force, Begin(from, force)
  PROVE  IInv'
<1>1. /\ RunShape(run)' /\ run'.at = "load" /\ run'.i = StartAt(from) /\ run'.cached = FALSE
      /\ StartAt(from) # 0
  <2> DEFINE over == (state = "done")
  <2>1. /\ run' = [NoRun EXCEPT !.at = "load", !.i = StartAt(from), !.force = force,
                                !.last = state, !.done = over]
        /\ StartAt(from) # 0
    BY DEF Begin
  <2> HIDE DEF over
  <2> QED
    BY <2>1 DEF NoRun, RunShape, Fields
<1>2. StartAt(from) \in 1..8
  <2>1. CASE from # "start"
    <3>1. from \in DOMAIN Index
      BY <2>1, CallAnalysisConstants DEF Index
    <3> QED
      BY <2>1, <3>1, StepRange DEF StartAt
  <2>2. CASE from = "start" /\ state \in DOMAIN Index
    <3>1. Index[state] \in 1..7
      BY <2>2, StepRange
    <3>2. StartAt(from) = 1 \/ StartAt(from) = Index[state] + 1
      BY <2>2 DEF StartAt
    <3> QED
      BY <3>1, <3>2
  <2>3. CASE from = "start" /\ state \notin DOMAIN Index
    BY <2>3, <1>1 DEF StartAt
  <2> QED
    BY <2>1, <2>2, <2>3
<1>3. RunOK'
  BY <1>1, <1>2 DEF RunOK
<1> QED
  BY <1>3, SameRows DEF Begin, Rows, IInv, RowsOK

LEMMA StoppedIInv ==
  ASSUME IInv, run' = NoRun, UNCHANGED Rows, state' \in States
  PROVE  IInv'
<1>1. RunOK'
  BY NoRunShape DEF RunOK
<1> QED
  BY <1>1, SameRows

LEMMA SettleIInv == ASSUME IInv, Settle \/ Stops \/ Dropped PROVE IInv'
<1>1. state' \in States
  BY DEF Settle, Stops, Dropped, IInv, RowsOK, States
<1> QED
  BY <1>1, StoppedIInv DEF Settle, Stops, Dropped, Rows

(* context.load: what a prompt shows of the transcript comes first in it.  *)
LEMMA LoadIInv == ASSUME IInv, Load PROVE IInv'
<1>1. run.i \in 1..7 /\ run.at = "load"
  BY StepNumbers DEF Load, IInv, RunOK
<1>2. AnalysisPrompt[1][1] = text /\ Prompt("analysis") = AnalysisPrompt
  BY DEF AnalysisPrompt, Block, Prompt
<1>3. /\ RunShape(run)' /\ run'.at = "work" /\ run'.i = run.i /\ run'.text = text
      /\ run.i \notin 3..6 => run'.cached = run.cached
      /\ run.i \in 3..6 => /\ run'.input = Prompt(KindOf[run.i])
                           /\ run'.cached => Cached(KindOf[run.i])
  <2>1. CASE run.i \in 3..6
    <3> DEFINE reuse == ~run.force /\ Cached(KindOf[run.i])
    <3>1. run' = [run EXCEPT !.at = "work", !.deal = deal, !.text = text,
                             !.input = Prompt(KindOf[run.i]), !.cached = reuse]
      BY <2>1, StepNumbers DEF Load
    <3>2. reuse => Cached(KindOf[run.i])
      OBVIOUS
    <3> HIDE DEF reuse
    <3>3. /\ RunShape(run)' /\ run'.at = "work" /\ run'.i = run.i /\ run'.text = text
          /\ run'.input = Prompt(KindOf[run.i]) /\ run'.cached = reuse
      BY <3>1 DEF IInv, RunOK, RunShape, Fields
    <3> QED
      BY <2>1, <3>2, <3>3
  <2>2. CASE run.i \notin 3..6
    <3>1. run' = [run EXCEPT !.at = "work", !.deal = deal, !.text = text]
      BY <2>2, StepNumbers DEF Load
    <3>2. RunShape(run)' /\ run'.at = "work" /\ run'.i = run.i /\ run'.text = text /\ run'.cached = run.cached
      BY <3>1 DEF IInv, RunOK, RunShape, Fields
    <3> QED
      BY <2>2, <3>2
  <2> QED
    BY <2>1, <2>2
<1>4. art' = art /\ text' = text
  BY DEF Load
<1>5. ASSUME run'.cached PROVE run.i \in 3..6
  BY <1>1, <1>3, <1>5 DEF IInv, RunOK
<1>6. ASSUME run.i = 5 PROVE run'.input[1][1] = text'
  BY <1>2, <1>3, <1>4, <1>6, StepNumbers
<1>7. ASSUME run.i = 5, run'.cached
      PROVE  art'["analysis"].out # NoOne /\ art'["analysis"].input[1][1] = text'
  BY <1>2, <1>3, <1>4, <1>7, StepNumbers DEF Cached
<1>8. RunOK'
  BY <1>1, <1>3, <1>4, <1>5, <1>6, <1>7 DEF RunOK
<1> QED
  BY <1>8, SameRows DEF Load, Rows, IInv, RowsOK

----------------------------------------------------------------------------
(* The seller.                                                             *)

LEMMA MapSpeakerIInv == ASSUME IInv, NEW c, NEW p \in People, MapSpeaker(c, p) PROVE IInv'
<1>1. ASSUME NEW t \in Turns
      PROVE  turns'[t] \in Turn /\ turns'[t].grade = turns[t].grade
  <2>1. turns[t] \in Turn
    BY DEF IInv, RowsOK
  <2>2. turns'[t] = turns[t] \/ turns'[t] = [turns[t] EXCEPT !.person = p]
    BY DEF MapSpeaker, Named
  <2> QED
    BY <2>1, <2>2 DEF Turn
<1>2. RunOK' /\ ClaimsOK'
  BY DEF MapSpeaker, IInv, RunOK, ClaimsOK
<1>3. RowsOK'
  BY <1>1 DEF MapSpeaker, IInv, RowsOK
<1>4. EvidenceStands' /\ FindingsStand'
  BY <1>1, StepNumbers DEF MapSpeaker, IInv, EvidenceStands, GradesApply, EvidenceIsHere,
                           FindingsStand, FindingsFollow, ProposalsAreCurrent
<1> QED
  BY <1>2, <1>3, <1>4 DEF IInv

(* What moves with the call is what was under its deal, or under none; the *)
(* rest is under another deal only where a step wrote it there.            *)
LEMMA SetDealIInv == ASSUME IInv, NEW d, SetDeal(d) PROVE IInv'
<1>1. RunOK'
  BY DEF SetDeal, IInv, RunOK
<1>2. /\ claims'.out = claims.out /\ claims'.text = claims.text
      /\ claims.out # NoOne /\ claims.deal = deal => claims'.deal = d
  <2>1. CASE claims.out # NoOne /\ Moves(claims.deal)
    <3>1. claims' = [claims EXCEPT !.deal = d]
      BY <2>1 DEF SetDeal
    <3> QED
      BY <3>1 DEF IInv, RowsOK, ClaimShape
  <2>2. CASE ~(claims.out # NoOne /\ Moves(claims.deal))
    BY <2>2 DEF SetDeal, Moves
  <2> QED
    BY <2>1, <2>2
<1>3. ASSUME NEW a \in Actions
      PROVE  /\ loops'[a].is = loops[a].is
             /\ loops[a].is # "none" /\ loops[a].deal = deal => loops'[a].deal = d
             /\ LoopShape(loops'[a])
  <2>1. LoopShape(loops[a])
    BY DEF IInv, RowsOK
  <2>2. CASE loops[a].is # "none" /\ Moves(loops[a].deal)
    <3>1. loops'[a] = [loops[a] EXCEPT !.deal = d]
      BY <2>2 DEF SetDeal
    <3> QED
      BY <3>1, <2>1 DEF LoopShape
  <2>3. CASE ~(loops[a].is # "none" /\ Moves(loops[a].deal))
    <3>1. loops'[a] = loops[a]
      BY <2>3 DEF SetDeal
    <3> QED
      BY <3>1, <2>1, <2>3 DEF Moves
  <2> QED
    BY <2>2, <2>3
<1>4. RowsOK'
  <2>1. ClaimShape(claims)'
    BY DEF SetDeal, IInv, RowsOK, ClaimShape
  <2> QED
    BY <2>1, <1>3 DEF SetDeal, IInv, RowsOK
<1>5. ClaimsOK' /\ EvidenceStands'
  BY <1>2, StepNumbers DEF SetDeal, IInv, ClaimsOK, EvidenceStands, GradesApply, EvidenceIsHere
<1>6. FindingsFollow'
  BY <1>2, <1>3 DEF SetDeal, IInv, FindingsStand, FindingsFollow
<1>7. ProposalsAreCurrent'
  BY <1>3, StepNumbers DEF SetDeal, IInv, FindingsStand, ProposalsAreCurrent
<1> QED
  BY <1>1, <1>4, <1>5, <1>6, <1>7 DEF IInv, FindingsStand

LEMMA DecideIInv ==
  ASSUME IInv, NEW a \in Actions, NEW verdict \in {"confirmed", "rejected"}, Decide(a, verdict)
  PROVE  IInv'
<1>1. RunOK' /\ ClaimsOK' /\ EvidenceStands'
  BY StepNumbers DEF Decide, IInv, RunOK, ClaimsOK, EvidenceStands, GradesApply, EvidenceIsHere
<1>2. ASSUME NEW b \in Actions
      PROVE  /\ LoopShape(loops'[b]) /\ loops'[b].deal = loops[b].deal
             /\ \/ loops'[b] = loops[b]
                \/ loops[b].is = "proposed" /\ loops'[b].is \in {"confirmed", "rejected"}
  <2>1. LoopShape(loops[b]) /\ loops = [x \in Actions |-> loops[x]]
    BY DEF IInv, RowsOK
  <2>2. CASE a = b
    <3>1. loops'[b] = [loops[b] EXCEPT !.is = verdict] /\ loops[b].is = "proposed"
      BY <2>1, <2>2 DEF Decide
    <3> QED
      BY <3>1, <2>1 DEF LoopShape
  <2>3. CASE a # b
    <3>1. loops'[b] = loops[b]
      BY <2>1, <2>3 DEF Decide
    <3> QED
      BY <3>1, <2>1
  <2> QED
    BY <2>2, <2>3
<1>3. RowsOK'
  BY <1>2 DEF Decide, IInv, RowsOK
<1>4. FindingsStand'
  BY <1>2, StepNumbers DEF Decide, IInv, FindingsStand, FindingsFollow, ProposalsAreCurrent
<1> QED
  BY <1>1, <1>3, <1>4 DEF IInv

LEMMA CloseIInv == ASSUME IInv, Close PROVE IInv'
<1>1. state' \in States /\ RunOK'
  BY DEF Close, States, IInv, RunOK
<1> QED
  BY <1>1, SameRows DEF Close, Rows

LEMMA StepIInv == IInv /\ [Next]_vars => IInv'
<1> SUFFICES ASSUME IInv, [Next]_vars PROVE IInv'
  OBVIOUS
<1>1. CASE Seller
  BY <1>1, MapSpeakerIInv, SetDealIInv, DecideIInv, CloseIInv DEF Seller
<1>2. CASE Pipeline
  <2>1. ASSUME Begin("start", FALSE) PROVE IInv'
    BY <2>1, BeginIInv
  <2>2. ASSUME NEW from \in RerunFrom, NEW force \in BOOLEAN, Begin(from, force) PROVE IInv'
    BY <2>2, BeginIInv
  <2> QED
    BY <1>2, <2>1, <2>2, LoadIInv, SettleIInv, TranscribeIInv, DiarizeIInv, QualityIInv,
       SummaryIInv, AnalysisIInv, ActionsFoundIInv, ReconcileIInv DEF Pipeline
<1>3. CASE UNCHANGED vars
  <2>1. RunOK' /\ state' \in States
    BY <1>3 DEF vars, IInv, RunOK, RowsOK
  <2> QED
    BY <2>1, <1>3, SameRows DEF vars, Rows
<1> QED
  BY <1>1, <1>2, <1>3 DEF Next

----------------------------------------------------------------------------
LEMMA Invariance == Spec => []IInv
  BY InitIInv, StepIInv, PTL DEF Spec

(* workflow.step_quality, step_analysis: whatever was re-run, reused,      *)
(* dropped or died, the turns are shown no better than the report on them  *)
(* says, and the claims are the newest analysis's and cite the transcript  *)
(* there is.                                                               *)
THEOREM EvidenceIsTrue == Spec => []EvidenceStands
  BY Invariance, PTL DEF IInv

(* app.call_set_deal, workflow.step_reconcile: what was found on a call is *)
(* under the call's deal, unless it had left the deal while a step ran,    *)
(* and what is proposed is what the newest actions say.                    *)
THEOREM FindingsAreTrue == Spec => []FindingsStand
  BY Invariance, PTL DEF IInv

----------------------------------------------------------------------------
(* EventBus.  What the proofs need of its TypeOK.                          *)
Typed ==
    /\ status \in [B!Events -> B!Statuses]
    /\ attempts \in [B!Events -> 0..MaxAttempts]
    /\ pc \in [B!Consumers -> B!Places]
    /\ job \in [B!Consumers -> B!Events \cup {B!NoEvent}]
    /\ read \in [B!Consumers -> 0..MaxAttempts]

(* A consumer between its claim and its last UPDATE has an event.          *)
BusyHasJob == \A c \in B!Consumers : pc[c] \in B!Busy => job[c] \in B!Events

(* Only the worker runs events, so 'running' is its own event, or one its  *)
(* previous life left behind.                                              *)
RunningIsWorkers ==
    /\ pc[Worker] \in B!Busy => \A e \in B!Events : status[e] = "running" => e = job[Worker]
    /\ pc[Worker] \in {"idle", "ready"} => \A e \in B!Events : status[e] # "running"

(* What bus.fail read is still enough when it writes: nobody but the       *)
(* worker raises the attempts of its event.                                *)
ReadIsEnough == pc[Worker] = "failing" => attempts[job[Worker]] <= read[Worker]

(* A row starts with no attempt.                                           *)
NoAttempts == \A e \in B!Events : status[e] = "absent" => attempts[e] = 0

BusInv == Typed /\ BusyHasJob /\ RunningIsWorkers /\ ReadIsEnough /\ NoAttempts /\ B!PendingClaimable

----------------------------------------------------------------------------
LEMMA InitBus == B!Init => BusInv
<1> SUFFICES ASSUME B!Init PROVE BusInv
  OBVIOUS
<1>1. Typed
  BY PartsConstants DEF B!BusConstants, B!Init, Typed, B!Statuses, B!Places
<1>2. BusyHasJob
  BY DEF B!Init, BusyHasJob, B!Busy
<1>3. RunningIsWorkers /\ ReadIsEnough
  BY DEF B!Init, RunningIsWorkers, ReadIsEnough, B!Busy, B!Consumers
<1>4. NoAttempts /\ B!PendingClaimable
  BY DEF B!Init, NoAttempts, B!PendingClaimable
<1> QED
  BY <1>1, <1>2, <1>3, <1>4 DEF BusInv

LEMMA StepBus == ASSUME Drainers = {} PROVE BusInv /\ [B!Next]_(B!vars) => BusInv'
<1> SUFFICES ASSUME BusInv, [B!Next]_(B!vars) PROVE BusInv'
  OBVIOUS
<1> USE PartsConstants DEF B!BusConstants, BusInv, Typed, BusyHasJob, RunningIsWorkers, ReadIsEnough,
                         NoAttempts, B!PendingClaimable, B!Statuses, B!Places, B!Consumers, B!Busy,
                         B!NoEvent, B!Goto, B!Leave, B!Row, B!table, B!past, B!bounds
<1>1. ASSUME NEW e \in B!Events, B!Publish(e) PROVE BusInv'
  BY <1>1 DEF B!Publish
<1>2. ASSUME NEW e \in B!Events, B!Retry(e) PROVE BusInv'
  BY <1>2 DEF B!Retry
<1>3. ASSUME NEW e \in B!Events, B!Cool(e) PROVE BusInv'
  BY <1>3 DEF B!Cool
<1>4. CASE B!CallStarts \/ B!CallStops
  BY <1>4 DEF B!CallStarts, B!CallStops
<1>5. CASE B!Connect
  BY <1>5 DEF B!Connect, B!Recovered, B!Running
<1>6. CASE B!SeeNoCall
  BY <1>6 DEF B!SeeNoCall
<1>7. ASSUME NEW e \in B!Events, B!Claim(Worker, e) PROVE BusInv'
  BY <1>7 DEF B!Claim, B!Claimable, B!Events
<1>8. CASE B!NothingToDo(Worker)
  BY <1>8 DEF B!NothingToDo
<1>9. CASE B!Succeed(Worker)
  BY <1>9 DEF B!Succeed, B!Retires
<1>10. CASE B!Raise(Worker)
  BY <1>10 DEF B!Raise
<1>11. CASE B!Complete(Worker)
  BY <1>11 DEF B!Complete, B!Again
<1>12. CASE B!FailRead(Worker)
  BY <1>12 DEF B!FailRead
<1>13. CASE B!FailWrite(Worker)
  BY <1>13 DEF B!FailWrite, B!AfterFailure, B!Again
<1>14. CASE B!Defer(Worker)
  BY <1>14 DEF B!Defer, B!Refunded, B!Again
<1>15. CASE B!Die(Worker)
  BY <1>15 DEF B!Die
<1>16. CASE B!IdleError(Worker)
  BY <1>16 DEF B!IdleError
<1>17. CASE UNCHANGED B!vars
  BY <1>17 DEF B!vars
<1> QED
  BY <1>1, <1>2, <1>3, <1>4, <1>5, <1>6, <1>7, <1>8, <1>9, <1>10, <1>11, <1>12,
     <1>13, <1>14, <1>15, <1>16, <1>17
     DEF B!Next, B!WorkerStep, B!Step

(* No stranded event: while the server's worker is the only consumer, an   *)
(* event that waits can be claimed, whatever failed, crashed or was        *)
(* retried before (bus.claim_next, fail, defer, recover_running).          *)
THEOREM NoStrandedEvent == ASSUME Drainers = {} PROVE B!Spec => []B!PendingClaimable
<1>1. B!Spec => []BusInv
  BY InitBus, StepBus, PTL DEF B!Spec
<1> QED
  BY <1>1, PTL DEF BusInv

(* recover_running leaves nothing behind: between events the worker never  *)
(* sees a row that says 'running'.                                         *)
THEOREM NothingRunsUnowned == ASSUME Drainers = {} PROVE B!Spec => []B!NothingLeftRunning
<1>1. B!Spec => []BusInv
  BY InitBus, StepBus, PTL DEF B!Spec
<1>2. BusInv => B!NothingLeftRunning
  BY DEF BusInv, RunningIsWorkers, B!NothingLeftRunning, B!Running
<1> QED
  BY <1>1, <1>2, PTL

----------------------------------------------------------------------------
(* With Retry pressed on parked events only, as the Today page offers it,  *)
(* nothing touches the row of an event while the worker has it.            *)
StillRunning == pc[Worker] \in B!Busy => status[job[Worker]] = "running"
ReadIsExact  == pc[Worker] = "failing" => attempts[job[Worker]] = read[Worker]

PInv == StillRunning /\ ReadIsExact /\ B!ParkedOnlyWhenSpent

LEMMA InitPInv == B!Init => PInv
  BY DEF B!Init, PInv, StillRunning, ReadIsExact, B!ParkedOnlyWhenSpent, B!Busy, B!Consumers

LEMMA StepPInv ==
  ASSUME Drainers = {}, RetryFrom = {"failed"}, BusInv, PInv, [B!Next]_(B!vars)
  PROVE  PInv'
<1> USE PartsConstants DEF B!BusConstants, BusInv, Typed, BusyHasJob, PInv, StillRunning, ReadIsExact,
                         B!ParkedOnlyWhenSpent, B!Statuses, B!Places, B!Consumers, B!Busy,
                         B!NoEvent, B!Goto, B!Leave, B!Row, B!table, B!past, B!bounds
<1>1. ASSUME NEW e \in B!Events, B!Publish(e) PROVE PInv'
  BY <1>1 DEF B!Publish
<1>2. ASSUME NEW e \in B!Events, B!Retry(e) PROVE PInv'
  BY <1>2 DEF B!Retry
<1>3. ASSUME NEW e \in B!Events, B!Cool(e) PROVE PInv'
  BY <1>3 DEF B!Cool
<1>4. CASE B!CallStarts \/ B!CallStops
  BY <1>4 DEF B!CallStarts, B!CallStops
<1>5. CASE B!Connect
  BY <1>5 DEF B!Connect, B!Recovered, B!Running
<1>6. CASE B!SeeNoCall
  BY <1>6 DEF B!SeeNoCall
<1>7. ASSUME NEW e \in B!Events, B!Claim(Worker, e) PROVE PInv'
  BY <1>7 DEF B!Claim, B!Claimable, B!Events
<1>8. CASE B!NothingToDo(Worker)
  BY <1>8 DEF B!NothingToDo
<1>9. CASE B!Succeed(Worker)
  BY <1>9 DEF B!Succeed, B!Retires
<1>10. CASE B!Raise(Worker)
  BY <1>10 DEF B!Raise
<1>11. CASE B!Complete(Worker)
  BY <1>11 DEF B!Complete, B!Again
<1>12. CASE B!FailRead(Worker)
  BY <1>12 DEF B!FailRead
<1>13. CASE B!FailWrite(Worker)
  BY <1>13 DEF B!FailWrite, B!AfterFailure, B!Again
<1>14. CASE B!Defer(Worker)
  BY <1>14 DEF B!Defer, B!Refunded, B!Again
<1>15. CASE B!Die(Worker)
  BY <1>15 DEF B!Die
<1>16. CASE B!IdleError(Worker)
  BY <1>16 DEF B!IdleError
<1>17. CASE UNCHANGED B!vars
  BY <1>17 DEF B!vars
<1> QED
  BY <1>1, <1>2, <1>3, <1>4, <1>5, <1>6, <1>7, <1>8, <1>9, <1>10, <1>11, <1>12,
     <1>13, <1>14, <1>15, <1>16, <1>17
     DEF B!Next, B!WorkerStep, B!Step

(* The Today page tells the truth when it says a job "failed after 3       *)
(* attempts": a failed event used every attempt (bus.fail, recover_running *)
(* and the Retry button).                                                  *)
THEOREM ParkedIsSpent ==
  ASSUME Drainers = {}, RetryFrom = {"failed"}
  PROVE  B!Spec => []B!ParkedOnlyWhenSpent
<1>1. BusInv /\ PInv /\ [B!Next]_(B!vars) => BusInv' /\ PInv'
  BY StepBus, StepPInv
<1>2. B!Spec => [](BusInv /\ PInv)
  BY <1>1, InitBus, InitPInv, PTL DEF B!Spec
<1> QED
  BY <1>2, PTL DEF PInv

(* No event is stranded, abandoned or parked early: the three results      *)
(* above at once, where all their assumptions hold.                        *)
THEOREM NothingIsStranded ==
  ASSUME Drainers = {}, RetryFrom = {"failed"}
  PROVE  AllSpec => []NothingStranded
<1> DEFINE Inv == part = "bus" => BusInv /\ PInv
<1>1. AllInit => Inv
  BY InitBus, InitPInv DEF AllInit
<1>2. Inv /\ [AllNext]_<<part, vars, avars, svars, bvars>> => Inv'
  <2> SUFFICES ASSUME Inv, [AllNext]_<<part, vars, avars, svars, bvars>>, part' = "bus"
               PROVE  BusInv' /\ PInv'
    OBVIOUS
  <2>1. part = "bus" /\ [B!Next]_(B!vars)
    BY DEF AllNext, bvars, B!vars, B!table, B!past, B!bounds
  <2> QED
    BY <2>1, StepBus, StepPInv
<1>3. Inv => NothingStranded
  <2>1. BusInv => B!NothingLeftRunning
    BY DEF BusInv, RunningIsWorkers, B!NothingLeftRunning, B!Running
  <2> QED
    BY <2>1 DEF NothingStranded, B!NothingStranded, BusInv, PInv
<1> QED
  BY <1>1, <1>2, <1>3, PTL DEF AllSpec

----------------------------------------------------------------------------
(* The rest holds of any number of drainers and of Retry on any row.       *)

Shaped == status \in [B!Events -> B!Statuses] /\ pc \in [B!Consumers -> B!Places]
          /\ job \in [B!Consumers -> B!Events \cup {B!NoEvent}]

(* Who is about to say 'done' has run the handler to the end.              *)
CompletesHandled == \A c \in B!Consumers : pc[c] = "completing" => job[c] \in handled

DInv == Shaped /\ BusyHasJob /\ CompletesHandled /\ B!DoneIsTrue

LEMMA InitDInv == B!Init => DInv
BY DEF B!Init, DInv, Shaped, BusyHasJob, CompletesHandled, B!DoneIsTrue, B!Statuses, B!Places, B!Busy

LEMMA ConsumerDInv ==
    ASSUME DInv, NEW c \in B!Consumers, B!Step(c) \/ B!Die(c) \/ B!IdleError(c) PROVE DInv'
<1> USE DEF DInv, Shaped, BusyHasJob, CompletesHandled, B!DoneIsTrue, B!Statuses, B!Places,
            B!Busy, B!NoEvent, B!Goto, B!Leave, B!Row, B!table, B!past, B!bounds
<1>1. ASSUME NEW e \in B!Events, B!Claim(c, e) PROVE DInv'
  BY <1>1 DEF B!Claim
<1>2. CASE B!NothingToDo(c)
  BY <1>2 DEF B!NothingToDo
<1>3. CASE B!Succeed(c)
  BY <1>3 DEF B!Succeed
<1>4. CASE B!Raise(c)
  BY <1>4 DEF B!Raise
<1>5. CASE B!Complete(c)
  BY <1>5 DEF B!Complete, B!Again
<1>6. CASE B!FailRead(c)
  BY <1>6 DEF B!FailRead
<1>7. CASE B!FailWrite(c)
  BY <1>7 DEF B!FailWrite, B!AfterFailure, B!Again
<1>8. CASE B!Defer(c)
  BY <1>8 DEF B!Defer, B!Again
<1>9. CASE B!Die(c)
  BY <1>9 DEF B!Die
<1>10. CASE B!IdleError(c)
  BY <1>10 DEF B!IdleError
<1> QED
  BY <1>1, <1>2, <1>3, <1>4, <1>5, <1>6, <1>7, <1>8, <1>9, <1>10 DEF B!Step

LEMMA StepDInv == DInv /\ [B!Next]_(B!vars) => DInv'
<1> SUFFICES ASSUME DInv, [B!Next]_(B!vars) PROVE DInv'
  OBVIOUS
<1> USE DEF DInv, Shaped, BusyHasJob, CompletesHandled, B!DoneIsTrue, B!Statuses, B!Places,
            B!Busy, B!Goto, B!Row, B!table, B!past, B!bounds
<1>0. Worker \in B!Consumers /\ Drainers \subseteq B!Consumers
  BY DEF B!Consumers
<1>1. ASSUME NEW c \in B!Consumers, B!Step(c) \/ B!Die(c) \/ B!IdleError(c) PROVE DInv'
  BY <1>1, ConsumerDInv
<1>2. CASE B!Connect
  BY <1>0, <1>2 DEF B!Connect, B!Recovered
<1>3. CASE B!SeeNoCall
  BY <1>0, <1>3 DEF B!SeeNoCall
<1>4. ASSUME NEW c \in Drainers, B!StartDrain(c) PROVE DInv'
  BY <1>0, <1>4 DEF B!StartDrain
<1>5. ASSUME NEW e \in B!Events, B!Publish(e) \/ B!Retry(e) \/ B!Cool(e) PROVE DInv'
  BY <1>5 DEF B!Publish, B!Retry, B!Cool
<1>6. CASE B!CallStarts \/ B!CallStops
  BY <1>6 DEF B!CallStarts, B!CallStops
<1>7. CASE UNCHANGED B!vars
  BY <1>7 DEF B!vars
<1> QED
  BY <1>0, <1>1, <1>2, <1>3, <1>4, <1>5, <1>6, <1>7 DEF B!Next, B!WorkerStep

LEMMA StepType == ASSUME B!TypeOK, BusyHasJob, [B!Next]_(B!vars) PROVE B!TypeOK'
<1> USE PartsConstants DEF B!BusConstants, B!TypeOK, BusyHasJob, B!Statuses, B!Places, B!Busy,
        B!NoEvent, B!Goto, B!Leave, B!Row, B!table, B!past, B!bounds
<1>0. Worker \in B!Consumers /\ Drainers \subseteq B!Consumers
  BY DEF B!Consumers
<1>1. ASSUME NEW e \in B!Events, B!Publish(e) \/ B!Retry(e) \/ B!Cool(e) PROVE B!TypeOK'
  BY <1>1 DEF B!Publish, B!Retry, B!Cool
<1>2. CASE B!CallStarts \/ B!CallStops
  <2>1. live' \in BOOLEAN
    BY <1>2, Zenon DEF B!CallStarts, B!CallStops
  <2>2. calls' \in 0..MaxLive
    BY <1>2 DEF B!CallStarts, B!CallStops
  <2>3. UNCHANGED <<status, attempts, cooling, pc, job, read, handled, resolved, retries, defers, errors>>
    BY <1>2, Zenon DEF B!CallStarts, B!CallStops
  <2> QED
    BY <2>1, <2>2, <2>3, Zenon
<1>3. CASE B!Connect
  BY <1>0, <1>3 DEF B!Connect, B!Recovered, B!Running
<1>4. CASE B!SeeNoCall
  BY <1>0, <1>4 DEF B!SeeNoCall
<1>5. ASSUME NEW c \in Drainers, B!StartDrain(c) PROVE B!TypeOK'
  BY <1>0, <1>5 DEF B!StartDrain
<1>6. ASSUME NEW c \in B!Consumers, NEW e \in B!Events, B!Claim(c, e) PROVE B!TypeOK'
  BY <1>6 DEF B!Claim, B!Claimable
<1>7. ASSUME NEW c \in B!Consumers, B!NothingToDo(c) \/ B!Raise(c) \/ B!Die(c) \/ B!IdleError(c)
      PROVE  B!TypeOK'
  BY <1>7 DEF B!NothingToDo, B!Raise, B!Die, B!IdleError
<1>8. ASSUME NEW c \in B!Consumers, B!Succeed(c) PROVE B!TypeOK'
  BY <1>8 DEF B!Succeed
<1>9. ASSUME NEW c \in B!Consumers, B!Complete(c) \/ B!FailRead(c) PROVE B!TypeOK'
  BY <1>9 DEF B!Complete, B!FailRead, B!Again
<1>10. ASSUME NEW c \in B!Consumers, B!FailWrite(c) PROVE B!TypeOK'
  BY <1>10 DEF B!FailWrite, B!AfterFailure, B!Again
<1>11. ASSUME NEW c \in B!Consumers, B!Defer(c) PROVE B!TypeOK'
  BY <1>11 DEF B!Defer, B!Refunded, B!Again
<1>12. CASE UNCHANGED B!vars
  BY <1>12 DEF B!vars
<1> QED
  BY <1>0, <1>1, <1>2, <1>3, <1>4, <1>5, <1>6, <1>7, <1>8, <1>9, <1>10, <1>11, <1>12
     DEF B!Next, B!WorkerStep, B!Step

LEMMA InitType == B!Init => B!TypeOK
<1> SUFFICES ASSUME B!Init PROVE B!TypeOK
  OBVIOUS
<1>1. live \in BOOLEAN
  BY Zenon DEF B!Init
<1>2. /\ retries \in 0..MaxRetries /\ defers \in 0..MaxDefers
      /\ calls \in 0..MaxLive /\ errors \in 0..MaxErrors
  BY PartsConstants DEF B!Init, B!BusConstants
<1>3. attempts \in [B!Events -> 0..MaxAttempts] /\ read \in [B!Consumers -> 0..MaxAttempts]
  BY PartsConstants DEF B!Init, B!BusConstants
<1>4. /\ status \in [B!Events -> B!Statuses] /\ pc \in [B!Consumers -> B!Places]
      /\ job \in [B!Consumers -> B!Events \cup {B!NoEvent}]
      /\ cooling \subseteq B!Events /\ handled \subseteq B!Events /\ resolved \subseteq B!Events
  BY DEF B!Init, B!Statuses, B!Places
<1> QED
  BY <1>1, <1>2, <1>3, <1>4, Zenon DEF B!TypeOK

(* What the bus calls done was handled to the end, or retired by a run of  *)
(* its call, with any drainers beside the worker and Retry on any row      *)
(* (bus.complete, worker.py, workflow._resolve_stale_failures).            *)
THEOREM DoneWasDone == AllSpec => []DoneIsTrue
<1> DEFINE Inv == part = "bus" => B!TypeOK /\ DInv
<1>1. AllInit => Inv
  BY InitType, InitDInv DEF AllInit
<1>2. Inv /\ [AllNext]_<<part, vars, avars, svars, bvars>> => Inv'
  <2> SUFFICES ASSUME Inv, [AllNext]_<<part, vars, avars, svars, bvars>>, part' = "bus"
               PROVE  B!TypeOK' /\ DInv'
    OBVIOUS
  <2>1. part = "bus" /\ [B!Next]_(B!vars)
    BY DEF AllNext, bvars, B!vars, B!table, B!past, B!bounds
  <2> QED
    BY <2>1, StepType, StepDInv DEF DInv
<1>3. Inv => DoneIsTrue
  BY DEF DInv, DoneIsTrue
<1> QED
  BY <1>1, <1>2, <1>3, PTL DEF AllSpec

----------------------------------------------------------------------------
(* The refinement of WorkLedger, step by step, under the same assumptions. *)

(* The worker's previous life left one row 'running' at most.              *)
OneRuns == \A d, e \in B!Events : status[d] = "running" /\ status[e] = "running" => d = e

Word(s) == CASE s = "absent" -> "none" [] s \in {"pending", "running"} -> "owed"
             [] s = "failed" -> "parked" [] OTHER -> s

LEMMA SaysIs ==
  ASSUME part = "bus"
  PROVE  Says = [e \in B!Events |-> Word(status[e])]
BY DEF Says, Word

LEMMA SaysNext ==
  ASSUME part = "bus", part' = part
  PROVE  Says' = [e \in B!Events |-> Word(status'[e])]
BY DEF Says, Word

(* An UPDATE of one row is a word for one job.                             *)
LEMMA OneWord ==
  ASSUME part = "bus", part' = part, status \in [B!Events -> B!Statuses],
         NEW e \in B!Events, NEW s, status' = [status EXCEPT ![e] = s]
  PROVE  Ledger!Becomes(e, Word(s)) /\ Says[e] = Word(status[e])
<1>1. \A d \in B!Events : status'[d] = IF d = e THEN s ELSE status[d]
  OBVIOUS
<1>2. Says = [d \in B!Events |-> Word(status[d])]
  BY SaysIs
<1>3. Says' = [d \in B!Events |-> Word(status'[d])]
  BY SaysNext
<1>4. Says' = [Says EXCEPT ![e] = Word(s)]
  BY <1>1, <1>2, <1>3
<1> QED
  BY <1>2, <1>4 DEF Ledger!Becomes

LEMMA SameWord ==
  ASSUME NEW e \in B!Events, Ledger!Becomes(e, Says[e]), part = "bus"
  PROVE  Says' = Says
BY SaysIs DEF Ledger!Becomes

LEMMA InitLedger == part = "bus" /\ B!Init => Ledger!Init /\ OneRuns
<1> SUFFICES ASSUME part = "bus", B!Init PROVE Ledger!Init /\ OneRuns
  OBVIOUS
<1>1. Says = [e \in B!Events |-> "none"]
  BY SaysIs DEF B!Init, Word
<1> QED
  BY <1>1 DEF B!Init, Ledger!Init, OneRuns

LEMMA StepOneRuns ==
  ASSUME Drainers = {}, BusInv, OneRuns, [B!Next]_(B!vars)
  PROVE  OneRuns'
<1> USE DEF BusInv, Typed, BusyHasJob, RunningIsWorkers, OneRuns, B!Statuses, B!Places, B!Busy, B!Row
<1>0. Worker \in B!Consumers /\ B!Consumers = {Worker}
  BY DEF B!Consumers
<1>1. ASSUME NEW e \in B!Events, B!Publish(e) \/ B!Retry(e) \/ B!Cool(e) PROVE OneRuns'
  BY <1>1 DEF B!Publish, B!Retry, B!Cool
<1>2. CASE B!Connect
  BY <1>2 DEF B!Connect, B!Recovered
<1>3. ASSUME NEW e \in B!Events, B!Claim(Worker, e) PROVE OneRuns'
  BY <1>0, <1>3 DEF B!Claim
<1>4. CASE B!Succeed(Worker)
  BY <1>4 DEF B!Succeed
<1>5. CASE B!Complete(Worker) \/ B!FailWrite(Worker) \/ B!Defer(Worker)
  BY <1>5 DEF B!Complete, B!FailWrite, B!Defer, B!AfterFailure
<1>6. CASE UNCHANGED status
  BY <1>6
<1>7. CASE \/ B!CallStarts \/ B!CallStops \/ B!SeeNoCall \/ B!NothingToDo(Worker) \/ B!Raise(Worker)
           \/ B!FailRead(Worker) \/ B!Die(Worker) \/ B!IdleError(Worker) \/ UNCHANGED B!vars
  BY <1>6, <1>7 DEF B!CallStarts, B!CallStops, B!SeeNoCall, B!NothingToDo, B!Raise, B!FailRead,
                    B!Die, B!IdleError, B!vars, B!table
<1> QED
  BY <1>0, <1>1, <1>2, <1>3, <1>4, <1>5, <1>7 DEF B!Next, B!WorkerStep, B!Step

(* Nothing the ledger speaks of changes.                                   *)
LEMMA Unsaid ==
  ASSUME part = "bus", part' = part, UNCHANGED <<status, attempts, handled>>
  PROVE  UNCHANGED Ledger!vars
<1>1. Says' = Says
  BY SaysIs, SaysNext
<1> QED
  BY <1>1 DEF Ledger!vars

(* What a producer, the Retry button and a starting worker do to it.       *)
LEMMA LedgerOutside ==
  ASSUME Drainers = {}, RetryFrom = {"failed"}, BusInv, OneRuns, part = "bus", part' = part,
         \/ \E e \in B!Events : B!Publish(e) \/ B!Retry(e)
         \/ B!Connect
  PROVE  [Ledger!Next]_(Ledger!vars)
<1>0. status \in [B!Events -> B!Statuses] /\ attempts \in [B!Events -> 0..MaxAttempts]
  BY DEF BusInv, Typed
<1>1. ASSUME NEW e \in B!Events, B!Publish(e) PROVE Ledger!Accept(e)
  <2>1. status' = [status EXCEPT ![e] = "pending"] /\ status[e] = "absent" /\ UNCHANGED <<attempts, handled>>
    BY <1>1 DEF B!Publish, B!past
  <2>2. Ledger!Becomes(e, Word("pending")) /\ Says[e] = Word("absent")
    BY <1>0, <2>1, OneWord
  <2> QED
    BY <2>1, <2>2 DEF Ledger!Accept, Word
<1>2. ASSUME NEW e \in B!Events, B!Retry(e) PROVE Ledger!TakeUp(e)
  <2>1. /\ status' = [status EXCEPT ![e] = "pending"] /\ status[e] = "failed"
        /\ attempts' = [attempts EXCEPT ![e] = 0] /\ UNCHANGED handled
    BY <1>2 DEF B!Retry, B!Row, B!past
  <2>2. Ledger!Becomes(e, Word("pending")) /\ Says[e] = Word("failed")
    BY <1>0, <2>1, OneWord
  <2> QED
    BY <2>1, <2>2 DEF Ledger!TakeUp, Word
<1>3. CASE B!Connect
  <2>1. /\ status' = [d \in B!Events |-> IF d \in B!Running THEN B!Recovered(d) ELSE status[d]]
        /\ UNCHANGED <<attempts, handled>>
    BY <1>3 DEF B!Connect, B!past
  <2>2. CASE B!Running = {}
    <3>1. status' = status
      BY <1>0, <2>1, <2>2
    <3> QED
      BY <2>1, <3>1, Unsaid
  <2>3. ASSUME NEW e \in B!Running PROVE [Ledger!Next]_(Ledger!vars)
    <3>1. e \in B!Events /\ status[e] = "running" /\ B!Running = {e}
      BY <2>3 DEF B!Running, OneRuns
    <3>2. status' = [status EXCEPT ![e] = B!Recovered(e)]
      BY <1>0, <2>1, <3>1
    <3>3. Ledger!Becomes(e, Word(B!Recovered(e))) /\ Says[e] = Word("running")
      BY <1>0, <3>1, <3>2, OneWord
    <3>4. CASE attempts[e] >= MaxAttempts
      <4>1. attempts[e] = MaxAttempts
        BY <1>0, <3>1, <3>4, PartsConstants DEF B!BusConstants
      <4>2. Ledger!Park(e)
        BY <2>1, <3>3, <3>4, <4>1 DEF Ledger!Park, B!Recovered, Word
      <4> QED
        BY <3>1, <4>2 DEF Ledger!Next
    <3>5. CASE ~(attempts[e] >= MaxAttempts)
      <4>1. Says' = Says
        BY <3>1, <3>3, <3>5, SameWord DEF B!Recovered, Word
      <4> QED
        BY <2>1, <4>1 DEF Ledger!vars
    <3> QED
      BY <3>4, <3>5
  <2> QED
    BY <2>2, <2>3
<1> QED
  BY <1>1, <1>2, <1>3 DEF Ledger!Next

(* What the worker does to it, from a claim to the outcome's record.       *)
LEMMA LedgerWorker ==
  ASSUME Drainers = {}, RetryFrom = {"failed"}, BusInv, PInv, CompletesHandled, part = "bus", part' = part,
         \/ \E e \in B!Events : B!Claim(Worker, e)
         \/ B!Succeed(Worker) \/ B!Complete(Worker) \/ B!FailWrite(Worker) \/ B!Defer(Worker)
  PROVE  [Ledger!Next]_(Ledger!vars)
<1> DEFINE e == job[Worker]
<1>0. /\ status \in [B!Events -> B!Statuses] /\ attempts \in [B!Events -> 0..MaxAttempts]
      /\ Worker \in B!Consumers /\ MaxAttempts \in Nat \ {0}
  BY PartsConstants DEF BusInv, Typed, B!Consumers, B!BusConstants
<1>1. pc[Worker] \in B!Busy => e \in B!Events /\ status[e] = "running" /\ Says[e] = "owed"
  <2>1. pc[Worker] \in B!Busy => e \in B!Events /\ status[e] = "running"
    BY <1>0 DEF BusInv, BusyHasJob, PInv, StillRunning
  <2> QED
    BY <2>1, SaysIs DEF Word
<1>2. ASSUME NEW d \in B!Events, B!Claim(Worker, d) PROVE Ledger!Try(d)
  <2>1. /\ status' = [status EXCEPT ![d] = "running"] /\ status[d] = "pending" /\ attempts[d] < MaxAttempts
        /\ attempts' = [attempts EXCEPT ![d] = attempts[d] + 1] /\ UNCHANGED handled
    BY <1>2 DEF B!Claim, B!Claimable, B!Row, B!past
  <2>2. Ledger!Becomes(d, Word("running")) /\ Says[d] = Word("pending")
    BY <1>0, <2>1, OneWord
  <2>3. Says' = Says
    BY <2>2, SameWord DEF Word
  <2> QED
    BY <2>1, <2>2, <2>3 DEF Ledger!Try, Word
<1>3. CASE B!Succeed(Worker)
  <2>1. /\ status' = [d \in B!Events |-> IF B!Retires(e, d) THEN "done" ELSE status[d]]
        /\ handled' = handled \cup {e} /\ UNCHANGED attempts /\ pc[Worker] = "handling"
    BY <1>3 DEF B!Succeed
  <2>2. e \in B!Events /\ Says[e] = "owed" /\ \A d \in B!Events : status[d] = "running" => d = e
    BY <1>0, <1>1, <2>1 DEF B!Busy, BusInv, RunningIsWorkers
  <2>3. ASSUME NEW d \in B!Events PROVE B!Retires(e, d) <=> Ledger!Settles(e, d)
    <3>1. Says[d] = Word(status[d]) /\ status[d] \in B!Statuses
      BY <1>0, SaysIs
    <3>2. (Says[d] = "parked" <=> status[d] = "failed") /\ (Says[d] = "owed" <=> status[d] \in {"pending", "running"})
      BY <3>1 DEF Word, B!Statuses
    <3> QED
      BY <2>2, <3>2 DEF B!Retires, Ledger!Settles
  <2>4. Says = [d \in B!Events |-> Word(status[d])] /\ Says' = [d \in B!Events |-> Word(status'[d])]
    BY SaysIs, SaysNext
  <2>5. Says' = [d \in B!Events |-> IF Ledger!Settles(e, d) THEN "done" ELSE Says[d]]
    <3>1. ASSUME NEW d \in B!Events PROVE Word(status'[d]) = IF Ledger!Settles(e, d) THEN "done" ELSE Says[d]
      BY <2>1, <2>3, <2>4 DEF Word
    <3> QED
      BY <2>4, <3>1
  <2> QED
    BY <2>1, <2>2, <2>5 DEF Ledger!Work, Ledger!Next
<1>4. CASE B!Complete(Worker)
  <2>1. /\ status' = [status EXCEPT ![e] = "done"] /\ UNCHANGED <<attempts, handled>>
        /\ pc[Worker] = "completing"
    BY <1>4 DEF B!Complete, B!past
  <2>2. e \in B!Events /\ Says[e] = "owed" /\ e \in handled
    BY <1>0, <1>1, <2>1 DEF B!Busy, CompletesHandled
  <2>3. Ledger!Becomes(e, Word("done"))
    BY <1>0, <2>1, <2>2, OneWord
  <2> QED
    BY <2>1, <2>2, <2>3 DEF Ledger!Finish, Ledger!Next, Word
<1>5. CASE B!FailWrite(Worker)
  <2>1. /\ status' = [status EXCEPT ![e] = B!AfterFailure(read[Worker])] /\ UNCHANGED <<attempts, handled>>
        /\ pc[Worker] = "failing"
    BY <1>5 DEF B!FailWrite, B!past
  <2>2. e \in B!Events /\ Says[e] = "owed" /\ attempts[e] = read[Worker]
    BY <1>1, <2>1 DEF B!Busy, PInv, ReadIsExact
  <2>3. Ledger!Becomes(e, Word(B!AfterFailure(read[Worker])))
    BY <1>0, <2>1, <2>2, OneWord
  <2>4. CASE read[Worker] >= MaxAttempts
    <3>1. attempts[e] = MaxAttempts
      BY <1>0, <2>2, <2>4
    <3> QED
      BY <2>1, <2>2, <2>3, <2>4, <3>1 DEF Ledger!Park, Ledger!Next, B!AfterFailure, Word
  <2>5. CASE ~(read[Worker] >= MaxAttempts)
    <3>1. Says' = Says
      BY <2>2, <2>3, <2>5, SameWord DEF B!AfterFailure, Word
    <3> QED
      BY <2>1, <3>1 DEF Ledger!vars
  <2> QED
    BY <2>4, <2>5
<1>6. CASE B!Defer(Worker)
  <2>1. /\ status' = [status EXCEPT ![e] = "pending"] /\ UNCHANGED handled
        /\ attempts' = [attempts EXCEPT ![e] = B!Refunded(attempts[e])] /\ pc[Worker] = "raised"
    BY <1>6 DEF B!Defer, B!Row, B!past
  <2>2. e \in B!Events /\ Says[e] = "owed"
    BY <1>1, <2>1 DEF B!Busy
  <2>3. Says' = Says
    <3>1. Ledger!Becomes(e, Word("pending"))
      BY <1>0, <2>1, <2>2, OneWord
    <3> QED
      BY <2>2, <3>1, SameWord DEF Word
  <2>4. CASE attempts[e] = 0
    <3>1. attempts' = attempts
      BY <1>0, <2>1, <2>2, <2>4 DEF B!Refunded
    <3> QED
      BY <2>1, <2>3, <3>1 DEF Ledger!vars
  <2>5. CASE attempts[e] # 0
    <3>1. attempts[e] > 0 /\ attempts' = [attempts EXCEPT ![e] = attempts[e] - 1]
      BY <1>0, <2>1, <2>2, <2>5 DEF B!Refunded
    <3> QED
      BY <2>1, <2>2, <2>3, <3>1 DEF Ledger!GiveBack, Ledger!Next
  <2> QED
    BY <2>4, <2>5
<1> QED
  BY <1>2, <1>3, <1>4, <1>5, <1>6 DEF Ledger!Next

LEMMA LedgerStep ==
  ASSUME Drainers = {}, RetryFrom = {"failed"}, BusInv, PInv, OneRuns, CompletesHandled,
         part = "bus", part' = part, [B!Next]_(B!vars)
  PROVE  [Ledger!Next]_(Ledger!vars)
<1>1. CASE \/ \E e \in B!Events : B!Publish(e) \/ B!Retry(e)
           \/ B!Connect
  BY <1>1, LedgerOutside
<1>2. CASE \/ \E e \in B!Events : B!Claim(Worker, e)
           \/ B!Succeed(Worker) \/ B!Complete(Worker) \/ B!FailWrite(Worker) \/ B!Defer(Worker)
  BY <1>2, LedgerWorker
<1>3. CASE \/ \E e \in B!Events : B!Cool(e)
           \/ B!CallStarts \/ B!CallStops \/ B!SeeNoCall \/ B!NothingToDo(Worker) \/ B!Raise(Worker)
           \/ B!FailRead(Worker) \/ B!Die(Worker) \/ B!IdleError(Worker) \/ UNCHANGED B!vars
  <2>1. UNCHANGED <<status, attempts, handled>>
    BY <1>3 DEF B!Cool, B!CallStarts, B!CallStops, B!SeeNoCall, B!NothingToDo, B!Raise, B!FailRead,
                B!Die, B!IdleError, B!vars, B!table, B!past
  <2> QED
    BY <2>1, Unsaid
<1> QED
  BY <1>1, <1>2, <1>3 DEF B!Next, B!WorkerStep, B!Step, B!Consumers

(* EventBus implements WorkLedger with the server's worker and Retry where *)
(* the page offers it: every claim, outcome, death and recovery is a step  *)
(* that accepted work is owed, or none; and no row strands on the way      *)
(* (bus.py, worker.py).                                                    *)
THEOREM LedgerIsKept ==
  ASSUME Drainers = {}, RetryFrom = {"failed"}
  PROVE  AllSpec => KeepsLedger
<1> DEFINE Inv == part = "bus" => BusInv /\ PInv /\ OneRuns /\ DInv
           all == <<part, vars, avars, svars, bvars>>
<1>1. AllInit => Inv /\ (part = "bus" => Ledger!Init)
  BY InitBus, InitPInv, InitDInv, InitLedger DEF AllInit
<1>2. Inv /\ [AllNext]_all => Inv' /\ [part = "bus" => Ledger!Next]_(Ledger!vars)
  <2>1. SUFFICES ASSUME Inv, [AllNext]_all, part = "bus"
                 PROVE  /\ part' = "bus" => BusInv' /\ PInv' /\ OneRuns' /\ DInv'
                        /\ [Ledger!Next]_(Ledger!vars)
    BY DEF AllNext
  <2>2. part' = part /\ [B!Next]_(B!vars)
    BY <2>1 DEF AllNext, bvars, B!vars, B!table, B!past, B!bounds
  <2>3. BusInv /\ PInv /\ OneRuns /\ DInv /\ CompletesHandled
    BY <2>1 DEF DInv
  <2>4. BusInv' /\ PInv' /\ OneRuns' /\ DInv'
    BY <2>2, <2>3, StepBus, StepPInv, StepOneRuns, StepDInv
  <2> QED
    BY <2>1, <2>2, <2>3, <2>4, LedgerStep
<1> QED
  BY <1>1, <1>2, NothingIsStranded, PTL DEF AllSpec, KeepsLedger
----------------------------------------------------------------------------
(* Agents, for any number of runs that share a provider.                   *)

Learnable == {"tool", "effort", "schema"}
AgentRun ==
    [at : {"idle", "again", "ask", "wait", "done", "failed", "limited", "broken"},
     attempt : 0..3, on : {"main", "fallback"}, chain : 1..2, tries : 0..3, form : SUBSET Learnable]
AgentRow == [on : {"main", "fallback"}, status : {"running", "ok", "invalid", "error"}]

AgentsTyped ==
    /\ style \in {"tool", "schema", "plain"} /\ refuses \subseteq A!Asks[style]
    /\ learned \subseteq refuses /\ limited \subseteq Runs
    /\ aRun \in [Runs -> AgentRun] /\ rows \in [Runs -> Seq(AgentRow)]

(* What the last row says of a run at a place.                             *)
LastSays(at, says) ==
    /\ at \in {"ask", "wait", "broken"} => says = "running"
    /\ at = "done" => says = "ok"
    /\ at \in {"again", "failed", "limited"} => says \in {"invalid", "error"}

(* A row per attempt; the fallback has the last one, after an error of the *)
(* main provider, and nothing but the last row is unfinished.              *)
RowsOf(a, rs) ==
    /\ Len(rs) = IF a.at \in {"idle", "again", "failed"} THEN a.attempt ELSE a.attempt + 1
    /\ Len(rs) <= 3
    /\ a.at = "idle" => a.attempt = 0 /\ a.chain = 1
    /\ a.at = "again" => a.attempt \in 1..2
    /\ Len(rs) > 0 => LastSays(a.at, rs[Len(rs)].status)
    /\ a.chain = 2 => a.attempt >= 1
    /\ a.chain = 1 /\ Len(rs) > 0 => rs[Len(rs)].on = "main"
    /\ a.at \in {"ask", "wait"} => rs[Len(rs)].on = a.on /\ (a.on = "fallback" <=> a.chain = 2)
    /\ a.at = "again" /\ a.chain = 2 => rs[Len(rs)] = [on |-> "main", status |-> "error"]
    /\ \A i \in 1..Len(rs) :
          /\ i < Len(rs) => rs[i].on = "main" /\ rs[i].status \in {"invalid", "error"}
          /\ rs[i].on = "fallback" => i = Len(rs) /\ i > 1 /\ rs[i - 1] = [on |-> "main", status |-> "error"]

(* What a run has learned by the number of its requests: each one that was *)
(* refused had a form less than the one before.                            *)
FormOf(a, known, long) ==
    /\ a.at \in {"ask", "wait"} /\ a.on = "fallback" =>
           /\ a.at = "ask" => a.tries = 0
           /\ a.at = "wait" => a.tries = 1 /\ a.form = {}
    /\ a.at = "ask" => a.tries <= 2
    /\ a.at = "wait" => a.tries >= 1 /\ a.form \subseteq A!Asks[style]
    /\ style = "plain" => (a.at = "ask" => a.tries = 0) /\ (a.at = "wait" => a.tries = 1)
    /\ style = "schema" =>
           /\ a.at = "ask" => a.tries <= 1
           /\ a.at = "wait" => a.tries <= 2
           /\ a.at = "wait" /\ a.tries = 2 => a.form = {}
           /\ \/ a.at = "ask" /\ a.tries = 1
              \/ a.at = "wait" /\ a.tries = 2
              => "schema" \in refuses \/ long
    /\ style = "tool" =>
           /\ a.at = "ask" /\ a.tries = 1 => known # {}
           /\ a.at = "ask" /\ a.tries = 2 => {"tool", "effort"} \subseteq known
           /\ a.at = "wait" /\ a.tries = 2 => known \ a.form # {}
           /\ a.at = "wait" /\ a.tries = 3 => a.form = {}

Told(r) ==
    /\ RowsOf(aRun[r], rows[r])
    /\ FormOf(aRun[r], learned, r \in tooLong)
    /\ r \in limited => aRun[r].at = "limited"
    /\ aRun[r].at = "failed" => A!Unlucky(r) \/ r \in raced

AgentsOK == AgentsTyped /\ \A r \in Runs : Told(r)

----------------------------------------------------------------------------
LEMMA AgentsInit == A!Init => AgentsOK
<1> SUFFICES ASSUME A!Init PROVE AgentsOK
  OBVIOUS
<1>1. AgentsTyped
  BY DEF A!Init, AgentsTyped, A!Asks, A!Idle, AgentRun
<1>2. ASSUME NEW r \in Runs PROVE Told(r)
  BY DEF A!Init, A!Idle, Told, RowsOf, FormOf
<1> QED
  BY <1>1, <1>2 DEF AgentsOK

(* What one run does touches another only by what the provider remembers.  *)
LEMMA OthersTold ==
    ASSUME AgentsOK, NEW r, NEW q \in Runs, q # r,
           UNCHANGED <<style, refuses, tooLong>>, aRun'[q] = aRun[q], rows'[q] = rows[q],
           learned \subseteq learned', trouble \subseteq trouble', raced \subseteq raced',
           limited' \subseteq limited \cup {r}
    PROVE  Told(q)'
<1>1. RowsOf(aRun[q], rows[q])'
  BY DEF AgentsOK, Told, RowsOf
<1>2. FormOf(aRun[q], learned, q \in tooLong)'
  BY DEF AgentsOK, Told, FormOf
<1>3. A!Unlucky(q) => A!Unlucky(q)'
  BY DEF A!Unlucky
<1> QED
  BY <1>1, <1>2, <1>3 DEF AgentsOK, Told

(* The row of the last attempt is closed.                                  *)
LEMMA RowClosed ==
    ASSUME AgentsTyped, NEW r \in Runs, Len(rows[r]) > 0,
           NEW says \in {"ok", "invalid", "error"}, A!Row(r, says)
    PROVE  /\ rows' \in [Runs -> Seq(AgentRow)]
           /\ \A q \in Runs : q # r => rows'[q] = rows[q]
           /\ Len(rows'[r]) = Len(rows[r])
           /\ \A i \in 1..Len(rows[r]) : i < Len(rows[r]) => rows'[r][i] = rows[r][i]
           /\ rows'[r][Len(rows[r])].on = rows[r][Len(rows[r])].on
           /\ rows'[r][Len(rows[r])].status = says
<1> DEFINE n == Len(rows[r])
           new == [rows[r] EXCEPT ![n].status = says]
<1>1. rows' = [rows EXCEPT ![r] = new]
  BY DEF A!Row
<1>2. rows[r] \in Seq(AgentRow) /\ n \in 1..Len(rows[r])
  BY DEF AgentsTyped
<1> DEFINE x == [rows[r][n] EXCEPT !.status = says]
<1>4. x \in AgentRow /\ x.on = rows[r][n].on /\ x.status = says
  <2>1. rows[r][n] \in AgentRow
    BY <1>2
  <2> QED
    BY <2>1 DEF AgentRow
<1>5. new = [rows[r] EXCEPT ![n] = x]
  OBVIOUS
<1> HIDE DEF x
<1>3. /\ new \in Seq(AgentRow) /\ Len(new) = n
      /\ \A i \in 1..n : i < n => new[i] = rows[r][i]
      /\ new[n].on = rows[r][n].on /\ new[n].status = says
  BY <1>2, <1>4, <1>5
<1> HIDE DEF new
<1> QED
  BY <1>1, <1>3 DEF AgentsTyped

(* A step that leaves the rest of the runs as they are and this one told.  *)
LEMMA OneStep ==
    ASSUME AgentsOK, NEW r \in Runs, NEW new \in AgentRun, A!Set(r, new),
           UNCHANGED A!world, learned \subseteq learned', learned' \subseteq refuses,
           trouble \subseteq trouble', raced \subseteq raced', limited' \subseteq limited \cup {r},
           rows' \in [Runs -> Seq(AgentRow)], \A q \in Runs : q # r => rows'[q] = rows[q],
           RowsOf(new, rows'[r]), FormOf(new, learned', r \in tooLong),
           r \in limited' => new.at = "limited",
           new.at = "failed" => A!Unlucky(r)' \/ r \in raced'
    PROVE  AgentsOK'
<1>1. aRun' \in [Runs -> AgentRun] /\ aRun'[r] = new /\ \A q \in Runs : q # r => aRun'[q] = aRun[q]
  BY DEF AgentsOK, AgentsTyped, A!Set
<1>2. AgentsTyped'
  BY <1>1 DEF AgentsOK, AgentsTyped, A!world
<1>3. Told(r)'
  <2>1. RowsOf(aRun[r], rows[r])'
    BY <1>1 DEF RowsOf
  <2>2. FormOf(aRun[r], learned, r \in tooLong)'
    BY <1>1 DEF FormOf, A!world
  <2> QED
    BY <1>1, <2>1, <2>2 DEF Told
<1>4. ASSUME NEW q \in Runs, q # r PROVE Told(q)'
  BY <1>1, <1>4, OthersTold DEF A!world
<1> QED
  BY <1>2, <1>3, <1>4 DEF AgentsOK

(* Closing the row of an attempt: what remains of RowsOf.                  *)
LEMMA Closing ==
    ASSUME AgentsTyped, NEW r \in Runs, RowsOf(aRun[r], rows[r]), aRun[r].at = "wait",
           NEW says \in {"ok", "invalid", "error"}, A!Row(r, says), NEW new \in AgentRun,
           LastSays(new.at, says),
           \/ new.at \in {"done", "limited"} /\ new.attempt = aRun[r].attempt /\ new.chain = aRun[r].chain
           \/ /\ new.at \in {"again", "failed"} /\ new.attempt = aRun[r].attempt + 1
              /\ new.at = "again" => new.attempt <= 2
              /\ \/ new.chain = aRun[r].chain /\ (new.at = "again" => new.chain = 1)
                 \/ aRun[r].on = "main" /\ says = "error"
    PROVE  /\ rows' \in [Runs -> Seq(AgentRow)]
           /\ \A q \in Runs : q # r => rows'[q] = rows[q]
           /\ RowsOf(new, rows'[r])
           /\ rows'[r][Len(rows'[r])].status = says /\ Len(rows'[r]) > 0
           /\ \A i \in 1..Len(rows[r]) : rows[r][i].status = "invalid" => i \in 1..Len(rows'[r]) /\ rows'[r][i].status = "invalid"
<1> DEFINE n == Len(rows[r])
<1>1. aRun[r] \in AgentRun /\ rows[r] \in Seq(AgentRow)
  BY DEF AgentsTyped
<1>2. n = aRun[r].attempt + 1 /\ n \in 1..3 /\ rows[r][n].status = "running" /\ rows[r][n].on = aRun[r].on
  BY <1>1 DEF RowsOf, AgentRun, LastSays
<1>3. /\ rows' \in [Runs -> Seq(AgentRow)]
      /\ \A q \in Runs : q # r => rows'[q] = rows[q]
      /\ Len(rows'[r]) = n
      /\ \A i \in 1..n : i < n => rows'[r][i] = rows[r][i]
      /\ rows'[r][n].on = rows[r][n].on
      /\ rows'[r][n].status = says
  BY <1>2, RowClosed
<1>4. RowsOf(new, rows'[r])
  <2>1. /\ n = IF new.at \in {"idle", "again", "failed"} THEN new.attempt ELSE new.attempt + 1
        /\ new.at = "again" => new.attempt \in 1..2
        /\ new.chain = 2 => new.attempt >= 1
        /\ new.at \notin {"idle", "ask", "wait"}
    BY <1>1, <1>2 DEF RowsOf, AgentRun
  <2>2. \A i \in 1..n :
          /\ i < n => rows'[r][i].on = "main" /\ rows'[r][i].status \in {"invalid", "error"}
          /\ rows'[r][i].on = "fallback" =>
                 i = n /\ i > 1 /\ rows'[r][i - 1] = [on |-> "main", status |-> "error"]
    <3>1. \A i \in 1..n : i < n => rows[r][i].on = "main" /\ rows[r][i].status \in {"invalid", "error"}
      BY DEF RowsOf
    <3>2. rows[r][n].on = "fallback" => n > 1 /\ rows[r][n - 1] = [on |-> "main", status |-> "error"]
      <4>1. \A i \in 1..n : rows[r][i].on = "fallback" =>
                i = n /\ i > 1 /\ rows[r][i - 1] = [on |-> "main", status |-> "error"]
        BY DEF RowsOf
      <4>2. n \in 1..n
        BY <1>2
      <4> HIDE DEF n
      <4> QED
        BY <4>1, <4>2, Zenon
    <3>3. ASSUME NEW i \in 1..n, i < n
          PROVE  rows'[r][i].on = "main" /\ rows'[r][i].status \in {"invalid", "error"}
      <4>1. rows'[r][i] = rows[r][i]
        BY <1>3, <3>3
      <4> QED
        BY <3>1, <3>3, <4>1
    <3>4. rows'[r][n].on = "fallback" => n > 1 /\ rows'[r][n - 1] = [on |-> "main", status |-> "error"]
      <4>1. n > 1 => n - 1 \in 1..n /\ n - 1 < n
        BY <1>2
      <4>2. n > 1 => rows'[r][n - 1] = rows[r][n - 1]
        BY <1>3, <4>1
      <4> QED
        BY <1>3, <3>2, <4>2
    <3> HIDE DEF n
    <3>5. ASSUME NEW i \in 1..n
          PROVE  /\ i < n => rows'[r][i].on = "main" /\ rows'[r][i].status \in {"invalid", "error"}
                 /\ rows'[r][i].on = "fallback" =>
                       i = n /\ i > 1 /\ rows'[r][i - 1] = [on |-> "main", status |-> "error"]
      <4>1. CASE i < n
        BY <3>3, <4>1
      <4>2. CASE i = n
        BY <1>2, <3>4, <4>2
      <4> QED
        BY <1>2, <4>1, <4>2
    <3> QED
      BY <3>5
  <2>3. new.at = "again" /\ new.chain = 2 => rows'[r][n] = [on |-> "main", status |-> "error"]
    <3>1. rows'[r][n] \in AgentRow
      BY <1>2, <1>3
    <3>2. new.at = "again" /\ new.chain = 2 => rows'[r][n].on = "main" /\ says = "error"
      BY <1>2, <1>3
    <3> QED
      BY <1>3, <3>1, <3>2 DEF AgentRow
  <2>4. new.chain = 1 => rows'[r][n].on = "main"
    BY <1>1, <1>2, <1>3 DEF RowsOf, AgentRun
  <2> QED
    BY <1>2, <1>3, <2>1, <2>2, <2>3, <2>4 DEF RowsOf
<1> QED
  BY <1>2, <1>3, <1>4

----------------------------------------------------------------------------

(* A run changed in one field is a run.                                    *)
LEMMA RunUpdated ==
    ASSUME NEW a \in AgentRun
    PROVE  /\ \A x \in 0..3 : [a EXCEPT !.attempt = x] \in AgentRun /\ [a EXCEPT !.tries = x] \in AgentRun
           /\ \A x \in {"main", "fallback"} : [a EXCEPT !.on = x] \in AgentRun
           /\ \A x \in 1..2 : [a EXCEPT !.chain = x] \in AgentRun
           /\ \A x \in SUBSET Learnable : [a EXCEPT !.form = x] \in AgentRun
<1>2. \A x \in 0..3 : [a EXCEPT !.attempt = x] \in AgentRun /\ [a EXCEPT !.tries = x] \in AgentRun
  BY DEF AgentRun
<1>3. \A x \in {"main", "fallback"} : [a EXCEPT !.on = x] \in AgentRun
  BY DEF AgentRun
<1>4. \A x \in 1..2 : [a EXCEPT !.chain = x] \in AgentRun
  BY DEF AgentRun
<1>5. \A x \in SUBSET Learnable : [a EXCEPT !.form = x] \in AgentRun
  BY DEF AgentRun
<1> QED
  BY <1>2, <1>3, <1>4, <1>5

LEMMA RunMoved ==
    ASSUME NEW a \in AgentRun, NEW x \in {"again", "ask", "wait", "done", "failed", "limited", "broken"}
    PROVE  /\ [a EXCEPT !.at = x] \in AgentRun
           /\ [a EXCEPT !.at = x].at = x
           /\ [a EXCEPT !.at = x].attempt = a.attempt /\ [a EXCEPT !.at = x].chain = a.chain
           /\ [a EXCEPT !.at = x].on = a.on /\ [a EXCEPT !.at = x].tries = a.tries
           /\ [a EXCEPT !.at = x].form = a.form
  BY DEF AgentRun

LEMMA StartRunOK == ASSUME AgentsOK, NEW r \in Runs, A!StartRun(r) PROVE AgentsOK'
<1> DEFINE a == aRun[r]
<1>0. PICK whom \in {"main", "fallback"} : whom = A!Whom(r) /\ (whom = "fallback" <=> a.chain = 2)
  BY DEF A!Whom
<1> DEFINE new == [a EXCEPT !.at = "ask", !.on = whom, !.tries = 0]
           m == [on |-> whom, status |-> "running"]
<1>1. a \in AgentRun /\ rows[r] \in Seq(AgentRow) /\ a.at \in {"idle", "again"}
  BY DEF AgentsOK, AgentsTyped, A!StartRun
<1>2. new \in AgentRun /\ m \in AgentRow
  <2> DEFINE b == [a EXCEPT !.at = "ask"]
             c == [b EXCEPT !.on = whom]
  <2>1. b \in AgentRun
    BY <1>1, RunMoved
  <2>2. c \in AgentRun
    BY <2>1, RunUpdated
  <2> HIDE DEF c
  <2>3. [c EXCEPT !.tries = 0] \in AgentRun
    <3>1. 0 \in 0..3
      OBVIOUS
    <3> QED
      BY <2>2, <3>1, RunUpdated, Zenon
  <2> QED
    BY <2>3 DEF AgentRow, c
<1>3. rows' = [rows EXCEPT ![r] = Append(rows[r], m)] /\ A!Set(r, new)
  BY <1>0 DEF A!StartRun
<1>4. RowsOf(a, rows[r]) /\ (r \in limited => a.at = "limited")
  BY DEF AgentsOK, Told
<1>5. rows' \in [Runs -> Seq(AgentRow)] /\ \A q \in Runs : q # r => rows'[q] = rows[q]
  BY <1>1, <1>2, <1>3 DEF AgentsOK, AgentsTyped
<1>6. rows'[r] = Append(rows[r], m)
  BY <1>3 DEF AgentsOK, AgentsTyped
<1>7. RowsOf(new, rows'[r])
  <2> DEFINE n == Len(rows[r])
  <2>1. n \in Nat /\ n = a.attempt /\ n <= 2 /\ (n = 0 => a.chain = 1)
    BY <1>1, <1>4 DEF RowsOf, AgentRun
  <2>2. /\ Len(rows'[r]) = n + 1 /\ rows'[r][n + 1] = m
        /\ \A i \in 1..n : rows'[r][i] = rows[r][i]
    BY <1>1, <1>2, <1>6
  <2>3. m.on = "fallback" <=> a.chain = 2
    BY <1>0
  <2>4. n > 0 => a.at = "again" /\ rows[r][n].status \in {"invalid", "error"} /\ rows[r][n] \in AgentRow
    <3>1. n > 0 => a.at = "again"
      BY <1>1, <1>4, <2>1 DEF RowsOf
    <3> QED
      BY <1>1, <1>4, <2>1, <3>1 DEF RowsOf, LastSays
  <2>5. \A i \in 1..n : rows[r][i].on = "main" /\ rows[r][i].status \in {"invalid", "error"}
    <3>1. n > 0 => rows[r][n].on = "main"
      <4>1. a.chain \in 1..2
        BY <1>1 DEF AgentRun
      <4> QED
        BY <1>4, <2>1, <2>4, <4>1 DEF RowsOf
    <3> QED
      BY <1>4, <2>1, <2>4, <3>1 DEF RowsOf
  <2>6. a.chain = 2 => n > 0 /\ rows[r][n] = [on |-> "main", status |-> "error"]
    BY <1>1, <1>4, <2>1 DEF RowsOf
  <2>7. new.at = "ask" /\ new.on = m.on /\ new.chain = a.chain /\ new.attempt = n /\ new.chain \in 1..2
    BY <1>1, <2>1 DEF AgentRun
  <2>8. a.chain = 2 => a.attempt >= 1
    BY <1>4 DEF RowsOf
  <2>9. \A i \in 1..(n + 1) :
          /\ i < n + 1 => rows'[r][i].on = "main" /\ rows'[r][i].status \in {"invalid", "error"}
          /\ rows'[r][i].on = "fallback" =>
                 i = n + 1 /\ i > 1 /\ rows'[r][i - 1] = [on |-> "main", status |-> "error"]
    <3>1. ASSUME NEW i \in 1..n PROVE rows'[r][i].on = "main" /\ rows'[r][i].status \in {"invalid", "error"}
      BY <2>1, <2>2, <2>5
    <3> HIDE DEF n, m
    <3>2. m.on = "fallback" => n > 0 /\ rows'[r][n] = [on |-> "main", status |-> "error"]
      <4>1. n > 0 => rows'[r][n] = rows[r][n]
        <5>1. n > 0 => n \in 1..n
          BY <2>1
        <5> QED
          BY <2>2, <5>1, Zenon
      <4> QED
        BY <2>3, <2>6, <4>1
    <3> QED
      BY <2>1, <2>2, <3>1, <3>2
  <2> HIDE DEF new
  <2>10. m.status = "running" /\ (m.on = "fallback" \/ m.on = "main")
    OBVIOUS
  <2> HIDE DEF n, m
  <2>11. /\ Len(rows'[r]) = new.attempt + 1 /\ Len(rows'[r]) <= 3
         /\ new.chain = 2 => new.attempt >= 1
    BY <2>1, <2>2, <2>7, <2>8
  <2>12. rows'[r][Len(rows'[r])] = m
    BY <2>1, <2>2
  <2>13. \A i \in 1..Len(rows'[r]) :
            /\ i < Len(rows'[r]) => rows'[r][i].on = "main" /\ rows'[r][i].status \in {"invalid", "error"}
            /\ rows'[r][i].on = "fallback" =>
                   i = Len(rows'[r]) /\ i > 1 /\ rows'[r][i - 1] = [on |-> "main", status |-> "error"]
    BY <2>2, <2>9
  <2>14. new.chain = 1 => m.on = "main"
    BY <2>3, <2>7, <2>10
  <2> HIDE DEF new
  <2> QED
    BY <2>3, <2>7, <2>10, <2>11, <2>12, <2>13, <2>14 DEF RowsOf, LastSays
<1>8. FormOf(new, learned', r \in tooLong)
  BY <1>1 DEF FormOf, AgentRun
<1>9. UNCHANGED <<A!world, learned, limited, trouble, raced>>
  BY DEF A!StartRun
<1> HIDE DEF new
<1>10. new.at = "ask"
  BY <1>1 DEF new, AgentRun
<1> QED
  BY <1>1, <1>2, <1>3, <1>4, <1>5, <1>7, <1>8, <1>9, <1>10, OneStep DEF AgentsOK, AgentsTyped

LEMMA RequestOK == ASSUME AgentsOK, NEW r \in Runs, A!Request(r) PROVE AgentsOK'
<1> DEFINE a == aRun[r]
           new == [a EXCEPT !.at = "wait", !.tries = @ + 1, !.form = A!Form(r)]
<1>1. /\ a \in AgentRun /\ a.at = "ask" /\ RowsOf(a, rows[r]) /\ FormOf(a, learned, r \in tooLong)
      /\ learned \subseteq refuses /\ refuses \subseteq A!Asks[style] /\ style \in {"tool", "schema", "plain"}
      /\ r \notin limited
  BY DEF AgentsOK, AgentsTyped, A!Request, Told
<1>2. A!Form(r) \subseteq A!Asks[style] /\ A!Asks[style] \subseteq Learnable
  BY <1>1 DEF A!Form, A!Asks, Learnable
<1>3. new \in AgentRun
  <2>1. PICK form \in SUBSET Learnable : form = A!Form(r)
    BY <1>2
  <2>2. a.tries \in 0..2
    BY <1>1 DEF FormOf, AgentRun
  <2> QED
    <3> DEFINE b == [a EXCEPT !.at = "wait"]
               c == [b EXCEPT !.tries = b.tries + 1]
    <3>1. b \in AgentRun /\ b.tries = a.tries
      BY <1>1, RunMoved
    <3>2. c \in AgentRun
      <4> HIDE DEF b
      <4>1. b.tries + 1 \in 0..3
        BY <2>2, <3>1
      <4> QED
        BY <3>1, <4>1, RunUpdated
    <3> HIDE DEF c
    <3>3. [c EXCEPT !.form = form] \in AgentRun
      BY <3>2, RunUpdated
    <3> QED
      BY <2>1, <3>1, <3>3 DEF c
<1>4. RowsOf(new, rows[r])
  BY <1>1 DEF RowsOf, AgentRun, LastSays
<1>5. FormOf(new, learned, r \in tooLong)
  <2>1. new.at = "wait" /\ new.tries = a.tries + 1 /\ new.form = A!Form(r) /\ new.on = a.on
    BY <1>1 DEF AgentRun
  <2>2. a.tries \in 0..3
    BY <1>1 DEF AgentRun
  <2> HIDE DEF new, a
  <2>3. CASE a.on = "fallback"
    BY <1>1, <2>1, <2>2, <2>3 DEF FormOf, A!Form, a
  <2>4. CASE a.on # "fallback"
    <3>1. A!Form(r) = IF style = "schema" /\ a.tries > 0 THEN {} ELSE A!Asks[style] \ learned
      BY <2>4 DEF A!Form, a
    <3>2. a.tries <= 2 /\ (style = "plain" => a.tries = 0) /\ (style = "schema" => a.tries <= 1)
      BY <1>1 DEF FormOf
    <3>3. style = "tool" => A!Asks[style] = {"tool", "effort"}
      BY DEF A!Asks
    <3>4. style = "tool" => /\ a.tries = 1 => learned \ A!Form(r) # {}
                            /\ a.tries = 2 => A!Form(r) = {}
      BY <1>1, <3>1, <3>3 DEF FormOf
    <3>5. style = "schema" /\ a.tries = 1 => A!Form(r) = {} /\ ("schema" \in refuses \/ r \in tooLong)
      BY <1>1, <3>1 DEF FormOf
    <3> QED
      BY <1>2, <2>1, <2>2, <2>4, <3>2, <3>4, <3>5 DEF FormOf
  <2> QED
    BY <2>3, <2>4
<1>6. UNCHANGED <<A!world, learned, rows, limited, trouble, raced>> /\ A!Set(r, new)
  BY DEF A!Request
<1>7. new.at = "wait"
  BY <1>1 DEF AgentRun
<1> HIDE DEF new
<1> QED
  BY <1>1, <1>3, <1>4, <1>5, <1>6, <1>7, OneStep DEF AgentsOK, AgentsTyped

(* A run that waits for an answer has a row under way.                     *)
LEMMA Waiting ==
    ASSUME AgentsOK, NEW r \in Runs, aRun[r].at = "wait"
    PROVE  /\ aRun[r] \in AgentRun /\ rows[r] \in Seq(AgentRow) /\ RowsOf(aRun[r], rows[r])
           /\ FormOf(aRun[r], learned, r \in tooLong) /\ r \notin limited
           /\ aRun[r].attempt \in 0..2
           /\ learned \subseteq refuses /\ refuses \subseteq A!Asks[style]
<1>1. /\ aRun[r] \in AgentRun /\ rows[r] \in Seq(AgentRow) /\ RowsOf(aRun[r], rows[r])
      /\ FormOf(aRun[r], learned, r \in tooLong) /\ r \notin limited
      /\ learned \subseteq refuses /\ refuses \subseteq A!Asks[style]
  BY DEF AgentsOK, AgentsTyped, Told
<1>2. aRun[r].attempt \in 0..2
  BY <1>1 DEF RowsOf, AgentRun
<1> QED
  BY <1>1, <1>2

(* A form that worked the second time is one the endpoint refused.         *)
LEMMA WorksIsRefused ==
    ASSUME AgentsOK, NEW r \in Runs, A!Free(r) PROVE A!Works(r) \subseteq refuses
<1>1. aRun[r].at = "wait" /\ (aRun[r].on = "main" => r \notin tooLong)
  BY DEF A!Free, A!Rejects
<1>2. FormOf(aRun[r], learned, r \in tooLong)
  BY <1>1, Waiting
<1> QED
  BY <1>1, <1>2 DEF A!Works, FormOf

(* The run is over, or goes to its next attempt.                           *)
LEMMA FormOver ==
    ASSUME NEW a \in AgentRun, a.at \notin {"ask", "wait"}, NEW known, NEW long
    PROVE  FormOf(a, known, long)
  BY DEF FormOf

LEMMA CompletesOK == ASSUME AgentsOK, NEW r \in Runs, A!Completes(r) PROVE AgentsOK'
<1> DEFINE a == aRun[r]
           new == [a EXCEPT !.at = "done"]
<1>1. a.at = "wait" /\ A!Row(r, "ok") /\ A!Set(r, new) /\ learned' = learned \cup A!Works(r)
      /\ UNCHANGED <<A!world, limited, trouble, raced>> /\ A!Free(r)
  BY DEF A!Completes, A!Free
<1>2. a \in AgentRun /\ RowsOf(a, rows[r]) /\ r \notin limited /\ learned \subseteq refuses
  BY <1>1, Waiting
<1>3. new \in AgentRun /\ new.at = "done" /\ new.attempt = a.attempt /\ new.chain = a.chain
  BY <1>2, RunMoved
<1> HIDE DEF new
<1>4. LastSays(new.at, "ok")
  BY <1>3 DEF LastSays
<1>5. /\ rows' \in [Runs -> Seq(AgentRow)]
      /\ \A q \in Runs : q # r => rows'[q] = rows[q]
      /\ RowsOf(new, rows'[r])
  BY <1>1, <1>2, <1>3, <1>4, Closing DEF AgentsOK
<1>6. learned \subseteq learned' /\ learned' \subseteq refuses
  BY <1>1, <1>2, WorksIsRefused
<1> QED
  BY <1>1, <1>2, <1>3, <1>5, <1>6, FormOver, OneStep

LEMMA InvalidOK == ASSUME AgentsOK, NEW r \in Runs, A!Invalid(r) PROVE AgentsOK'
<1> DEFINE a == aRun[r]
<1>1. a.at = "wait" /\ A!Row(r, "invalid") /\ learned' \in {learned, learned \cup A!Works(r)}
      /\ UNCHANGED <<A!world, limited, trouble, raced>> /\ A!Free(r)
  BY DEF A!Invalid, A!Free
<1>2. a \in AgentRun /\ RowsOf(a, rows[r]) /\ r \notin limited /\ learned \subseteq refuses /\ a.attempt \in 0..2
  BY <1>1, Waiting
<1>3. PICK at \in {"again", "ask", "wait", "done", "failed", "limited", "broken"} :
          at = IF a.attempt = 0 THEN "again" ELSE "failed"
  OBVIOUS
<1> DEFINE b == [a EXCEPT !.at = at]
           new == [b EXCEPT !.attempt = b.attempt + 1]
<1>4. A!Set(r, new)
  BY <1>3 DEF A!Invalid
<1>5. /\ new \in AgentRun /\ new.at = at /\ new.attempt = a.attempt + 1 /\ new.chain = a.chain
  <2>1. b \in AgentRun /\ b.attempt = a.attempt /\ b.at = at /\ b.chain = a.chain
    BY <1>2, RunMoved, ZenonT(40)
  <2> HIDE DEF b
  <2>2. b.attempt + 1 \in 0..3
    BY <1>2, <2>1
  <2>3. new \in AgentRun
    BY <2>1, <2>2, RunUpdated
  <2> QED
    BY <1>2, <2>1, <2>3 DEF AgentRun
<1> HIDE DEF new
<1>11. new.at \in {"again", "failed"}
  BY <1>3, <1>5
<1>6. LastSays(new.at, "invalid")
  BY <1>11 DEF LastSays
<1>7. new.at = "again" => new.attempt <= 2 /\ new.chain = 1
  BY <1>2, <1>3, <1>5 DEF RowsOf, AgentRun
<1>8. /\ rows' \in [Runs -> Seq(AgentRow)]
      /\ \A q \in Runs : q # r => rows'[q] = rows[q]
      /\ RowsOf(new, rows'[r])
      /\ Len(rows'[r]) > 0 /\ rows'[r][Len(rows'[r])].status = "invalid"
  BY <1>1, <1>2, <1>5, <1>6, <1>7, <1>11, Closing DEF AgentsOK
<1>9. learned \subseteq learned' /\ learned' \subseteq refuses
  BY <1>1, <1>2, WorksIsRefused
<1>10. A!Unlucky(r)'
  <2>1. Len(rows'[r]) \in 1..Len(rows'[r])
    BY <1>8
  <2> QED
    BY <1>8, <2>1 DEF A!Unlucky
<1> QED
  BY <1>1, <1>2, <1>4, <1>5, <1>8, <1>9, <1>10, <1>11, FormOver, OneStep

(* An error of the provider: the fallback, once, or the end.               *)
LEMMA Failing ==
    ASSUME AgentsOK, NEW r \in Runs, aRun[r].at = "wait", A!Errs(r), UNCHANGED A!world,
           learned \subseteq learned', learned' \subseteq refuses,
           trouble \subseteq trouble', raced \subseteq raced', limited' = limited,
           r \in trouble' \/ r \in raced'
    PROVE  AgentsOK'
<1> DEFINE a == aRun[r]
<1>1. /\ a \in AgentRun /\ RowsOf(a, rows[r]) /\ r \notin limited /\ a.attempt \in 0..2
      /\ FormOf(a, learned, r \in tooLong)
  BY Waiting
<1>2. PICK at \in {"again", "ask", "wait", "done", "failed", "limited", "broken"} :
          at = IF A!FallsBack(r) /\ a.attempt < 2 THEN "again" ELSE "failed"
  OBVIOUS
<1>3. PICK chain \in 1..2 : chain = IF A!FallsBack(r) THEN 2 ELSE a.chain
  BY <1>1 DEF AgentRun
<1> DEFINE b == [a EXCEPT !.at = at]
           c == [b EXCEPT !.attempt = b.attempt + 1]
           new == [c EXCEPT !.chain = chain]
<1>4. A!Row(r, "error") /\ A!Set(r, new)
  <2>1. A!Set(r, [a EXCEPT !.at = IF A!FallsBack(r) /\ a.attempt < 2 THEN "again" ELSE "failed",
                           !.attempt = @ + 1, !.chain = IF A!FallsBack(r) THEN 2 ELSE @])
    BY DEF A!Errs
  <2>2. b.attempt = a.attempt /\ c.chain = a.chain
    BY <1>1 DEF AgentRun
  <2>3. [a EXCEPT !.at = at, !.attempt = a.attempt + 1, !.chain = chain] = new
    BY <2>2
  <2>4. A!Row(r, "error")
    BY DEF A!Errs
  <2> QED
    BY <1>2, <1>3, <2>1, <2>2, <2>3, <2>4, SMTT(30)
<1>5. new \in AgentRun /\ new.at = at /\ new.attempt = a.attempt + 1 /\ new.chain = chain
  <2>1. b \in AgentRun /\ b.attempt = a.attempt /\ b.at = at
    BY <1>1, RunMoved
  <2> HIDE DEF b
  <2>2. b.attempt + 1 \in 0..3
    BY <1>1, <2>1
  <2>3. c \in AgentRun /\ c.at = at /\ c.attempt = a.attempt + 1
    <3>1. c \in AgentRun
      BY <2>1, <2>2, RunUpdated
    <3> QED
      BY <2>1, <3>1 DEF AgentRun
  <2> HIDE DEF c
  <2>4. new \in AgentRun
    BY <2>3, RunUpdated
  <2> QED
    BY <2>3, <2>4 DEF AgentRun
<1> HIDE DEF new
<1>6. a.chain \in 1..2 /\ (a.on = "fallback" <=> a.chain = 2) /\ a.on \in {"main", "fallback"}
  BY <1>1 DEF RowsOf, AgentRun
<1>7. A!FallsBack(r) => a.on = "main"
  BY <1>6 DEF A!FallsBack
<1>8. /\ new.at \in {"again", "failed"}
      /\ new.at = "again" => new.attempt <= 2
      /\ \/ new.chain = a.chain /\ (new.at = "again" => new.chain = 1)
         \/ a.on = "main"
  BY <1>1, <1>2, <1>3, <1>5, <1>7
<1>9. LastSays(new.at, "error")
  BY <1>8 DEF LastSays
<1>10. /\ rows' \in [Runs -> Seq(AgentRow)]
       /\ \A q \in Runs : q # r => rows'[q] = rows[q]
       /\ RowsOf(new, rows'[r])
  BY <1>1, <1>4, <1>5, <1>8, <1>9, Closing DEF AgentsOK
<1>11. r \in trouble' => A!Unlucky(r)'
  BY DEF A!Unlucky
<1> QED
  BY <1>1, <1>4, <1>5, <1>8, <1>10, <1>11, FormOver, OneStep

LEMMA DownOK == ASSUME AgentsOK, NEW r \in Runs, A!Down(r) PROVE AgentsOK'
  BY Failing DEF A!Down, AgentsOK, AgentsTyped

LEMMA LimitedOK == ASSUME AgentsOK, NEW r \in Runs, A!Limited(r) PROVE AgentsOK'
<1> DEFINE a == aRun[r]
           new == [a EXCEPT !.at = "limited"]
<1>1. a.at = "wait" /\ A!Row(r, "error") /\ A!Set(r, new)
      /\ UNCHANGED <<A!world, learned, raced>> /\ limited' = limited \cup {r} /\ trouble' = trouble \cup {r}
  BY DEF A!Limited, A!Free, A!Waits
<1>2. a \in AgentRun /\ RowsOf(a, rows[r]) /\ learned \subseteq refuses
  BY <1>1, Waiting
<1>3. new \in AgentRun /\ new.at = "limited" /\ new.attempt = a.attempt /\ new.chain = a.chain
  BY <1>2, RunMoved
<1> HIDE DEF new
<1>4. LastSays(new.at, "error")
  BY <1>3 DEF LastSays
<1>5. /\ rows' \in [Runs -> Seq(AgentRow)]
      /\ \A q \in Runs : q # r => rows'[q] = rows[q]
      /\ RowsOf(new, rows'[r])
  BY <1>1, <1>2, <1>3, <1>4, Closing DEF AgentsOK
<1> QED
  BY <1>1, <1>2, <1>3, <1>5, FormOver, OneStep

LEMMA BreaksOK == ASSUME AgentsOK, NEW r \in Runs, A!Breaks(r) PROVE AgentsOK'
<1> DEFINE a == aRun[r]
           new == [a EXCEPT !.at = "broken"]
<1>1. a.at = "wait" /\ A!Set(r, new) /\ UNCHANGED <<A!world, learned, rows, limited, trouble, raced>>
  BY DEF A!Breaks
<1>2. a \in AgentRun /\ RowsOf(a, rows[r]) /\ learned \subseteq refuses /\ r \notin limited
      /\ rows \in [Runs -> Seq(AgentRow)]
  BY <1>1, Waiting DEF AgentsOK, AgentsTyped
<1>3. new \in AgentRun /\ new.at = "broken" /\ new.attempt = a.attempt /\ new.chain = a.chain
  BY <1>2, RunMoved
<1> HIDE DEF new
<1>4. RowsOf(new, rows'[r])
  BY <1>1, <1>2, <1>3 DEF RowsOf, LastSays
<1> QED
  BY <1>1, <1>2, <1>3, <1>4, FormOver, OneStep

(* To ask again after a refused form.                                      *)
LEMMA AsksAgain ==
    ASSUME AgentsOK, NEW r \in Runs, aRun[r].at = "wait",
           A!Set(r, [aRun[r] EXCEPT !.at = "ask"]),
           UNCHANGED <<A!world, rows, limited, trouble>>,
           learned \subseteq learned', learned' \subseteq refuses, raced \subseteq raced',
           FormOf([aRun[r] EXCEPT !.at = "ask"], learned', r \in tooLong)
    PROVE  AgentsOK'
<1> DEFINE a == aRun[r]
           new == [a EXCEPT !.at = "ask"]
<1>2. a \in AgentRun /\ RowsOf(a, rows[r]) /\ r \notin limited /\ rows \in [Runs -> Seq(AgentRow)]
  BY Waiting DEF AgentsOK, AgentsTyped
<1>3. /\ new \in AgentRun /\ new.at = "ask" /\ new.attempt = a.attempt /\ new.chain = a.chain
      /\ new.on = a.on
  BY <1>2, RunMoved
<1> HIDE DEF new
<1>4. RowsOf(new, rows'[r])
  BY <1>2, <1>3 DEF RowsOf, LastSays
<1>5. A!Set(r, new) /\ FormOf(new, learned', r \in tooLong)
  BY DEF new
<1> QED
  BY <1>2, <1>3, <1>4, <1>5, OneStep

LEMMA RefusalOK ==
    ASSUME AgentsOK, NEW r \in Runs, NEW f \in A!Refused(r), A!Refusal(r, f) PROVE AgentsOK'
<1> DEFINE a == aRun[r]
           new == [a EXCEPT !.at = "ask"]
           known == f = "tool" /\ f \in learned
<1>1. /\ a.at = "wait" /\ UNCHANGED <<A!world, limited, trouble>> /\ learned' = learned \cup A!Learns(f)
      /\ raced' = IF known THEN raced \cup {r} ELSE raced
  BY DEF A!Refusal
<1>2. a.on = "main" /\ f \in a.form /\ f \in refuses
  BY DEF A!Refused
<1>3. /\ a \in AgentRun /\ FormOf(a, learned, r \in tooLong)
      /\ learned \subseteq refuses /\ refuses \subseteq A!Asks[style] /\ style \in {"tool", "schema", "plain"}
  BY <1>1, Waiting DEF AgentsOK, AgentsTyped
<1>4. learned \subseteq learned' /\ learned' \subseteq refuses
  BY <1>1, <1>2, <1>3 DEF A!Learns
<1>5. a.tries \in 1..3 /\ (style = "tool" => a.tries # 3) /\ style # "plain"
  BY <1>1, <1>2, <1>3 DEF FormOf, AgentRun, A!Asks
<1>6. CASE known
  <2>1. A!Errs(r) /\ r \in raced' /\ raced \subseteq raced'
    BY <1>1, <1>6 DEF A!Refusal
  <2> QED
    BY <1>1, <1>4, <2>1, Failing
<1>7. CASE ~known
  <2>1. A!Set(r, new) /\ UNCHANGED rows
    BY <1>5, <1>7 DEF A!Refusal, A!Tries
  <2>2. new.at = "ask" /\ new.tries = a.tries /\ new.form = a.form /\ new.on = a.on
    BY <1>3, RunMoved
  <2> HIDE DEF new
  <2>3. style = "tool" => /\ a.tries <= 2 /\ a.tries = 1 => learned' # {}
                          /\ a.tries = 2 => {"tool", "effort"} \subseteq learned'
    <3> SUFFICES ASSUME style = "tool" PROVE /\ a.tries <= 2 /\ a.tries = 1 => learned' # {}
                                             /\ a.tries = 2 => {"tool", "effort"} \subseteq learned'
      OBVIOUS
    <3>1. A!Asks[style] = {"tool", "effort"}
      BY DEF A!Asks
    <3>2. f \in {"tool", "effort"} /\ f \in learned'
      BY <1>1, <1>2, <1>3, <3>1 DEF A!Learns
    <3>3. a.tries = 2 => learned \ a.form # {}
      BY <1>1, <1>3 DEF FormOf
    <3>4. a.tries = 2 => {"tool", "effort"} \subseteq learned'
      BY <1>2, <1>3, <1>4, <3>1, <3>2, <3>3
    <3> QED
      BY <1>5, <3>2, <3>4
  <2>4. style = "schema" => a.tries = 1 /\ "schema" \in refuses
    <3>1. style = "schema" => a.tries <= 2 /\ (a.tries = 2 => a.form = {})
      BY <1>1, <1>3 DEF FormOf
    <3>2. style = "schema" => f = "schema"
      BY <1>2, <1>3 DEF A!Asks
    <3> QED
      BY <1>2, <1>5, <3>1, <3>2
  <2>5. FormOf(new, learned', r \in tooLong)
    BY <1>2, <1>3, <1>5, <2>2, <2>3, <2>4 DEF FormOf
  <2> QED
    BY <1>1, <1>4, <1>7, <2>1, <2>5, AsksAgain DEF new
<1> QED
  BY <1>6, <1>7

LEMMA RejectionOK == ASSUME AgentsOK, NEW r \in Runs, A!Rejection(r) PROVE AgentsOK'
<1> DEFINE a == aRun[r]
           new == [a EXCEPT !.at = "ask"]
<1>1. a.at = "wait" /\ a.on = "main" /\ r \in tooLong /\ UNCHANGED <<A!world, limited, raced>>
  BY DEF A!Rejection, A!Rejects
<1>2. /\ a \in AgentRun /\ FormOf(a, learned, r \in tooLong)
      /\ learned \subseteq refuses /\ style \in {"tool", "schema", "plain"}
  BY <1>1, Waiting DEF AgentsOK, AgentsTyped
<1>3. CASE "schema" \in a.form
  <2>1. A!Set(r, new) /\ UNCHANGED <<rows, trouble, learned>>
    BY <1>3 DEF A!Rejection, A!Learns
  <2>2. new.at = "ask" /\ new.tries = a.tries /\ new.form = a.form /\ new.on = a.on
    BY <1>2, RunMoved
  <2> HIDE DEF new
  <2>3. style = "schema"
    BY <1>1, <1>2, <1>3 DEF FormOf, A!Asks
  <2>4. a.tries = 1
    BY <1>1, <1>2, <1>3, <2>3 DEF FormOf, AgentRun
  <2>5. FormOf(new, learned', r \in tooLong)
    BY <1>1, <2>2, <2>3, <2>4 DEF FormOf
  <2> QED
    BY <1>1, <1>2, <2>1, <2>5, AsksAgain DEF new
<1>4. CASE "schema" \notin a.form
  <2>1. A!Errs(r) /\ trouble' = trouble \cup {r} /\ UNCHANGED learned
    BY <1>4 DEF A!Rejection
  <2> QED
    BY <1>1, <1>2, <2>1, Failing
<1> QED
  BY <1>3, <1>4

LEMMA AgentsStep == AgentsOK /\ [A!Next]_(A!vars) => AgentsOK'
<1> SUFFICES ASSUME AgentsOK, [A!Next]_(A!vars) PROVE AgentsOK'
  OBVIOUS
<1>1. CASE UNCHANGED A!vars
  <2>1. AgentsTyped'
    BY <1>1 DEF AgentsOK, AgentsTyped, A!vars
  <2>2. ASSUME NEW r \in Runs PROVE Told(r)'
    <3>1. RowsOf(aRun[r], rows[r])'
      BY <1>1 DEF AgentsOK, Told, RowsOf, A!vars
    <3>2. FormOf(aRun[r], learned, r \in tooLong)'
      BY <1>1 DEF AgentsOK, Told, FormOf, A!vars
    <3> QED
      BY <1>1, <3>1, <3>2 DEF AgentsOK, Told, A!vars, A!Unlucky
  <2> QED
    BY <2>1, <2>2 DEF AgentsOK
<1>2. ASSUME NEW r \in Runs,
             \/ A!StartRun(r) \/ A!Request(r) \/ A!Completes(r) \/ A!Invalid(r) \/ A!Down(r)
             \/ A!Limited(r) \/ A!Breaks(r) \/ A!Rejection(r)
      PROVE  AgentsOK'
  BY <1>2, StartRunOK, RequestOK, CompletesOK, InvalidOK, DownOK, LimitedOK, BreaksOK, RejectionOK
<1>3. ASSUME NEW r \in Runs, NEW f \in A!Refused(r), A!Refusal(r, f) PROVE AgentsOK'
  BY <1>3, RefusalOK
<1> QED
  BY <1>1, <1>2, <1>3 DEF A!Next

(* What the runs promise is part of what is kept.                          *)
LEMMA AgentsSay == AgentsOK => A!TypeOK /\ A!AttemptsTell
<1> SUFFICES ASSUME AgentsOK PROVE A!TypeOK /\ A!AttemptsTell
  OBVIOUS
<1>1. A!TypeOK
  <2>1. learned \subseteq {"tool", "effort", "schema"}
    BY DEF AgentsOK, AgentsTyped, A!Asks
  <2> QED
    BY <2>1 DEF AgentsOK, AgentsTyped, AgentRun, A!TypeOK, A!Tries
<1>2. ASSUME NEW r \in Runs
      PROVE  /\ Len(rows[r]) <= 3
             /\ \A i \in 1..Len(rows[r]) :
                   /\ rows[r][i].status = "ok" => i = Len(rows[r]) /\ aRun[r].at = "done"
                   /\ rows[r][i].status = "running" => i = Len(rows[r]) /\ ~A!Over(r)
                   /\ rows[r][i].on = "fallback" => i = Len(rows[r]) /\ i > 1 /\ A!Is(r, i - 1, "main", "error")
  <2> DEFINE n == Len(rows[r])
  <2>1. RowsOf(aRun[r], rows[r]) /\ aRun[r] \in AgentRun /\ n \in Nat
    BY DEF AgentsOK, AgentsTyped, Told
  <2>2. n > 0 => LastSays(aRun[r].at, rows[r][n].status) /\ aRun[r].at # "idle"
    BY <2>1 DEF RowsOf
  <2>3. n > 0 => /\ rows[r][n].status = "ok" => aRun[r].at = "done"
                 /\ rows[r][n].status = "running" => ~A!Over(r)
    BY <2>1, <2>2 DEF LastSays, AgentRun, A!Over
  <2>4. ASSUME NEW i \in 1..n
        PROVE  /\ rows[r][i].status = "ok" => i = n /\ aRun[r].at = "done"
               /\ rows[r][i].status = "running" => i = n /\ ~A!Over(r)
    <3>1. i < n => rows[r][i].status \in {"invalid", "error"}
      BY <2>1 DEF RowsOf
    <3>2. CASE i < n
      BY <3>1, <3>2
    <3>3. CASE i = n
      BY <2>1, <2>3, <3>3
    <3> QED
      BY <2>1, <3>2, <3>3
  <2>5. ASSUME NEW i \in 1..n, rows[r][i].on = "fallback"
        PROVE  i = n /\ i > 1 /\ A!Is(r, i - 1, "main", "error")
    BY <2>1, <2>5 DEF RowsOf, A!Is
  <2> QED
    BY <2>1, <2>4, <2>5 DEF RowsOf
<1>3. A!RowsTell
  BY <1>2 DEF A!RowsTell
<1>4. A!QuotaIsFinal /\ A!LearnedIsRefused /\ A!RefusalsAreMet
  BY DEF AgentsOK, AgentsTyped, Told, A!QuotaIsFinal, A!LearnedIsRefused, A!RefusalsAreMet
<1> QED
  BY <1>1, <1>3, <1>4 DEF A!AttemptsTell

(* However many threads ask the one provider, and whatever it refuses and  *)
(* whenever, the rows of a run tell what it did, no run goes on after it   *)
(* was told to wait, what is remembered of the endpoint is what it does    *)
(* refuse, and a refused form costs a run nothing unless another learned   *)
(* it while the run waited (base.Agent.run, http_chat.py).                 *)
THEOREM RunsTellWhatTheyDid == AllSpec => []AttemptsTell
<1> DEFINE Inv == part = "agents" => AgentsOK
<1>1. AllInit => Inv
  BY AgentsInit DEF AllInit
<1>2. Inv /\ [AllNext]_<<part, vars, avars, svars, bvars>> => Inv'
  <2> SUFFICES ASSUME Inv, [AllNext]_<<part, vars, avars, svars, bvars>>, part' = "agents" PROVE AgentsOK'
    OBVIOUS
  <2>1. part = "agents" /\ [A!Next]_(A!vars)
    BY DEF AllNext, avars, A!vars
  <2> QED
    BY <2>1, AgentsStep
<1>3. Inv => AttemptsTell
  BY AgentsSay DEF AttemptsTell
<1> QED
  BY <1>1, <1>2, <1>3, PTL DEF AllSpec

----------------------------------------------------------------------------
(* Settings, for any catalog, hosts, clicks, edits and tests under way.           *)

Entry == [url : Hosts \cup {S!None}, tiers : SUBSET S!Tiers]
Text == [hand : 0..MaxEdits, provider : Providers \cup {S!None}, block : [Providers -> Entry]]

(* What he wrote is in the file, or beside it; a file that is not there    *)
(* holds nothing of his.                                                   *)
SettingsOK ==
    /\ file \in [state : {"absent", "good", "broken"}, text : Text]
    /\ kept \subseteq 0..MaxEdits /\ keys \subseteq Providers /\ edits \in 0..MaxEdits
    /\ \A a \in testing : a.p \in Providers
    /\ file.state = "absent" => hand = 0
    /\ S!HandEditsKept

LEMMA SettingsInit == S!Init => SettingsOK
<1> SUFFICES ASSUME S!Init PROVE SettingsOK
  OBVIOUS
<1>1. S!Blank \in [Providers -> Entry]
  BY DEF S!Blank, Entry
<1>2. S!Nothing \in Text
  BY <1>1, PartsConstants DEF S!Nothing, Text, S!SettingsConstants
<1>3. file \in [state : {"absent", "good", "broken"}, text : Text]
  BY <1>2 DEF S!Init
<1> QED
  BY <1>3, PartsConstants DEF S!Init, SettingsOK, S!HandEditsKept, S!SettingsConstants

LEMMA LoadUserIsText == SettingsOK => S!load_user \in Text
<1>1. S!Nothing \in Text
  BY PartsConstants DEF S!Nothing, S!Blank, Text, Entry, S!SettingsConstants
<1> QED
  BY <1>1 DEF SettingsOK, S!load_user

(* A choice over what was read: what is in it, what stays.                 *)
LEMMA ChoiceIsText ==
    ASSUME SettingsOK, NEW c \in S!Conf
    PROVE  /\ S!Choice(c) \in Text /\ S!Choice(c).hand = S!load_user.hand
           /\ S!Choice(c).provider = c.p
           /\ S!Choice(c).block[c.p].tiers = S!load_user.block[c.p].tiers \cup c.tiers
           /\ c.url # S!None => S!Choice(c).block[c.p].url = c.url
<1> DEFINE t == S!load_user
           b == [url |-> IF c.url = S!None THEN t.block[c.p].url ELSE c.url,
                 tiers |-> t.block[c.p].tiers \cup c.tiers]
           blocks == [t.block EXCEPT ![c.p] = b]
<1>1. t \in Text
  BY LoadUserIsText
<1>2. c.p \in Providers /\ c.url \in Hosts \cup {S!None} /\ c.tiers \subseteq S!Tiers
  BY DEF S!Conf
<1>3. t.block \in [Providers -> Entry] /\ t.block[c.p] \in Entry
  BY <1>1, <1>2 DEF Text
<1>4. b \in Entry
  BY <1>2, <1>3 DEF Entry
<1>5. blocks \in [Providers -> Entry] /\ blocks[c.p] = b
  BY <1>2, <1>3, <1>4
<1>6. S!Choice(c) = [t EXCEPT !.provider = c.p, !.block = blocks]
  <2>1. S!Choice(c) = [t EXCEPT !.provider = c.p, !.block[c.p] = b]
    BY DEF S!Choice
  <2> QED
    BY <1>1, <2>1 DEF Text
<1>7. b.tiers = t.block[c.p].tiers \cup c.tiers /\ (c.url # S!None => b.url = c.url)
  OBVIOUS
<1> HIDE DEF b, blocks
<1> QED
  BY <1>1, <1>2, <1>5, <1>6, <1>7 DEF Text

LEMMA SavedOK ==
    ASSUME SettingsOK, NEW c \in S!Conf, S!Saved(S!Choice(c)), UNCHANGED hand
    PROVE  /\ file' \in [state : {"absent", "good", "broken"}, text : Text]
           /\ file'.state = "good" /\ file'.text = S!Choice(c)
           /\ kept' \subseteq 0..MaxEdits /\ S!HandEditsKept'
<1>1. S!Choice(c) \in Text /\ S!Choice(c).hand = S!load_user.hand
  BY ChoiceIsText
<1>2. file' = [state |-> "good", text |-> S!Choice(c)] /\ kept' = S!SetAside
  BY DEF S!Saved
<1>3. file.text.hand \in 0..MaxEdits
  BY DEF SettingsOK, Text
<1>4. kept' \subseteq 0..MaxEdits
  BY <1>2, <1>3 DEF S!SetAside, SettingsOK
<1>5. hand > 0 => S!Choice(c).hand = hand \/ hand \in kept'
  <2>1. CASE file.state = "good"
    BY <1>1, <1>2, <2>1 DEF SettingsOK, S!HandEditsKept, S!load_user, S!SetAside
  <2>2. CASE file.state = "broken"
    BY <1>2, <2>2 DEF SettingsOK, S!HandEditsKept, S!SetAside
  <2>3. CASE file.state = "absent"
    BY <2>3 DEF SettingsOK
  <2> QED
    BY <2>1, <2>2, <2>3 DEF SettingsOK
<1> QED
  BY <1>1, <1>2, <1>4, <1>5 DEF S!HandEditsKept

LEMMA FormsOK ==
    ASSUME SettingsOK, NEW c \in S!Conf, NEW typed \in BOOLEAN,
           S!model_use(c, typed) \/ S!model_list(c, typed) \/ S!model_test(c, typed)
    PROVE  SettingsOK'
<1>0. c.p \in Providers
  BY DEF S!Conf
<1>1. keys' \subseteq Providers /\ UNCHANGED <<edits, hand>>
  BY <1>0 DEF SettingsOK, S!model_use, S!model_list, S!model_test, S!Typed
<1>2. \A a \in testing' : a.p \in Providers
  BY <1>0 DEF SettingsOK, S!model_use, S!model_list, S!model_test, S!Asking
<1>3. CASE UNCHANGED <<file, kept>>
  BY <1>1, <1>2, <1>3 DEF SettingsOK, S!HandEditsKept
<1>4. CASE S!Saved(S!Choice(c))
  BY <1>1, <1>2, <1>4, SavedOK DEF SettingsOK
<1> QED
  BY <1>3, <1>4 DEF S!model_use, S!model_list, S!model_test

LEMMA HandEditsOK ==
    ASSUME SettingsOK, NEW how \in {"good", "broken"}, NEW p \in Providers \cup {S!None},
           S!HandEdits(how, p)
    PROVE  SettingsOK'
<1> DEFINE new == [file.text EXCEPT !.hand = edits', !.provider = p]
<1>1. edits' \in 0..MaxEdits /\ hand' = edits' /\ UNCHANGED <<kept, keys, testing>>
      /\ file' = [state |-> how, text |-> new]
  BY PartsConstants DEF S!HandEdits, S!Edit, SettingsOK, S!SettingsConstants
<1>2. new \in Text /\ new.hand = edits'
  <2> DEFINE m == [file.text EXCEPT !.hand = edits']
  <2>1. file.text \in Text
    BY DEF SettingsOK
  <2>2. m \in Text /\ m.hand = edits'
    BY <1>1, <2>1 DEF Text
  <2>3. new = [m EXCEPT !.provider = p]
    OBVIOUS
  <2> HIDE DEF m
  <2> QED
    BY <2>2, <2>3 DEF Text
<1> HIDE DEF new
<1> QED
  BY <1>1, <1>2 DEF SettingsOK, S!HandEditsKept

LEMMA SettingsStep == SettingsOK /\ [S!Next]_svars => SettingsOK'
<1> SUFFICES ASSUME SettingsOK, [S!Next]_svars PROVE SettingsOK'
  OBVIOUS
<1>1. CASE UNCHANGED svars
  BY <1>1 DEF svars, SettingsOK, S!HandEditsKept
<1>2. ASSUME NEW a \in testing, NEW ok \in BOOLEAN, S!test_connection(a, ok) PROVE SettingsOK'
  BY <1>2 DEF S!test_connection, SettingsOK, S!HandEditsKept
<1>3. CASE S!dismiss_card
  BY <1>3 DEF S!dismiss_card, SettingsOK, S!HandEditsKept
<1>4. CASE S!Elsewhere
  <2>1. edits' \in 0..MaxEdits /\ keys' \subseteq Providers /\ UNCHANGED <<file, kept, testing, hand>>
    BY <1>4, PartsConstants DEF S!Elsewhere, S!Edit, SettingsOK, S!SettingsConstants
  <2> QED
    BY <2>1 DEF SettingsOK, S!HandEditsKept
<1> QED
  BY <1>1, <1>2, <1>3, <1>4, FormsOK, HandEditsOK DEF S!Next

(* What model_use accepts by checks of its own.                            *)
LEMMA AcceptedIsUsable ==
    ASSUME SettingsOK, NEW c \in S!Conf, NEW typed \in BOOLEAN,
           S!model_use(c, typed), S!HostHolds(c, typed), S!Accepted(c)
    PROVE  /\ S!load'.provider = c.p /\ S!Usable(S!load', keys')
           /\ \A tier \in S!Tiers : S!Routed(S!load', keys', tier)
<1> DEFINE t == S!Choice(c)
<1>1. S!Saved(t) /\ UNCHANGED <<hand, cli>>
  BY DEF S!model_use
<1>2. file'.state = "good" /\ file'.text = t
  BY <1>1, SavedOK
<1>3. /\ t \in Text /\ t.provider = c.p
      /\ t.block[c.p].tiers = S!load_user.block[c.p].tiers \cup c.tiers
      /\ c.url # S!None => t.block[c.p].url = c.url
  BY ChoiceIsText
<1>4. S!load' = S!Over(t)
  BY <1>2 DEF S!load, S!load_user
<1>5. c.p \in Providers /\ c.p # S!None
  BY PartsConstants DEF S!Conf, S!SettingsConstants, S!None
<1>6. S!Over(t).provider = c.p
  BY <1>3, <1>5 DEF S!Over
<1>7. S!Over(t).block[c.p].url = t.block[c.p].url /\ S!Over(t).block[c.p].tiers = S!Tiers
  <2>1. S!Over(t).block[c.p] = [url |-> t.block[c.p].url,
            tiers |-> t.block[c.p].tiers \cup IF c.p \in Preset THEN S!Tiers ELSE {}]
    BY <1>5 DEF S!Over
  <2>2. t.block[c.p].tiers = S!Tiers
    <3>1. c.tiers = S!Tiers
      BY DEF S!Accepted
    <3>2. t.block[c.p].tiers \subseteq S!Tiers
      BY <1>3, <1>5 DEF Text, Entry
    <3> QED
      BY <1>3, <3>1, <3>2
  <2> QED
    BY <2>1, <2>2
<1>8. /\ c.p = Default => cli
      /\ c.p \in NeedsKey => c.p \in keys'
      /\ c.p \in Editable => t.block[c.p].url # S!None
  BY <1>3 DEF S!Accepted
<1> QED
  BY <1>1, <1>4, <1>6, <1>7, <1>8 DEF S!Usable, S!Routed

(* A save keeps what the seller wrote by hand, or sets it aside where it   *)
(* could not be read (config.save_user); and what the form accepts is what *)
(* provider_state calls usable and route builds for both tiers, over any   *)
(* file he may have left (providers/setup.save_choice, providers.route).   *)
THEOREM HandEditsSurvive == AllSpec => SettingsHold
<1>1. AllInit => SettingsOK
  BY SettingsInit DEF AllInit
<1>2. SettingsOK /\ [AllNext]_<<part, vars, avars, svars, bvars>> => SettingsOK'
  <2>1. [AllNext]_<<part, vars, avars, svars, bvars>> => [S!Next]_svars
    BY DEF AllNext
  <2> QED
    BY <2>1, SettingsStep
<1>3. SettingsOK => S!TypeOK /\ S!HandEditsKept
  BY DEF SettingsOK, S!TypeOK
<1>4. SettingsOK /\ [AllNext]_<<part, vars, avars, svars, bvars>>
          => [part = "settings" => S!SavedIsUsable]_svars
  <2>1. SettingsOK => S!SavedIsUsable
    BY AcceptedIsUsable DEF S!SavedIsUsable
  <2> QED
    BY <2>1
<1>5. AllSpec => []SettingsOK
  BY <1>1, <1>2, PTL DEF AllSpec
<1> QED
  BY <1>3, <1>4, <1>5, PTL DEF AllSpec, SettingsHold
=============================================================================
