---------------------------- MODULE CallAnalysis ----------------------------
(***************************************************************************)
(* What the steps of a call's pipeline write and from what: the final      *)
(* transcript (speech/final.py), who spoke (speech/diarize.py), its        *)
(* quality, the summary, the analysis with its claims and assessments, the *)
(* actions and the loops made of them (orchestrator/workflow.py), each     *)
(* agent's step reused when its prompt is the last one's; beside the       *)
(* seller, who names speakers, moves the call to another deal and decides  *)
(* on loops meanwhile (web/app.py, orchestrator/review.py).  PostCall has  *)
(* the states, the jobs and the emails of the same run; EventBus the queue.*)
(*                                                                         *)
(* A transcript is a name and the recogniser's grade of each turn; only    *)
(* the buyers' turns are followed, the seller's own have no one to name.   *)
(* A prompt is the tuple of what it renders, its hash is the tuple itself. *)
(* A step reads, asks, and writes and commits at once: between reading and *)
(* writing anybody may act.                                                *)
(*                                                                         *)
(* An operator named ...Slip is a plausible slip in the code that the      *)
(* operator below it models; the README says which property notices it.    *)
(***************************************************************************)
EXTENDS Naturals, Sequences, FiniteSets

CONSTANTS
    Turns,          \* numbers of the buyers' turns, in the order spoken
    AsrGrade,       \* per transcript, the recogniser's grade of each turn
    People,         \* whom the seller may name
    Deals,          \* deals he may put the call under
    Answers,        \* what the summary and the analysis may say
    Actions,        \* what the actions step may find was promised
    Reports,        \* what the quality check may say of the turns
    RerunFrom,      \* steps a retry or a Re-run starts from
    NoOne,          \* nobody, no deal, nothing yet
    MaxRuns,        \* bound: runs of the pipeline
    MaxClicks,      \* bound: what the seller does
    MaxStops        \* bound: steps that raise, and deaths

Texts  == DOMAIN AsrGrade
First  == CHOOSE t \in Turns : \A u \in Turns : t <= u
Order  == [ok |-> 0, partial |-> 1, garbled |-> 2]
Grades == DOMAIN Order
Steps  == <<"final_transcribed", "diarized", "quality_done", "summarized", "analyzed",
            "actions_extracted", "loops_reconciled">>
Index  == [s \in {Steps[i] : i \in DOMAIN Steps} |-> CHOOSE i \in DOMAIN Steps : Steps[i] = s]
Kinds  == {"quality", "summary", "analysis", "actions"}
KindOf == [i \in 3..6 |-> <<"", "", "quality", "summary", "analysis", "actions">>[i]]
States == DOMAIN Index \cup {"captured", "awaiting_review", "done"}

ASSUME CallAnalysisConstants ==
    /\ Turns \subseteq Nat \ {0} /\ IsFiniteSet(Turns) /\ Turns # {}
    /\ \A x \in Texts : AsrGrade[x] \in [Turns -> {"ok", "partial"}]
    /\ Reports \subseteq [Turns -> {"ok", "partial", "garbled"}]
    /\ RerunFrom \subseteq {Steps[i] : i \in DOMAIN Steps}
    /\ NoOne \notin People \cup Deals \cup Answers \cup Texts
    /\ MaxRuns \in Nat /\ MaxClicks \in Nat /\ MaxStops \in Nat

VARIABLES
    state,      \* calls.wf_state
    text,       \* which transcript the turns hold
    turns,      \* of each turn: its grade, whether that is the recogniser's, cluster, person
    speakers,   \* speakers.person_id of each cluster that is there
    deal,       \* calls.deal_id
    art,        \* newest artifact of each kind: the prompt it answers and the answer
    claims,     \* the claims and assessments of the call
    loops,      \* the call's own loops, one per promise
    run,        \* the pipeline's run
    runs, clicks, stops,
    behind,     \* history: the first step not done since one before it wrote anew
    crossed     \* history: a step wrote for a deal the call had left meanwhile

vars == <<state, text, turns, speakers, deal, art, claims, loops, run, runs, clicks, stops,
          behind, crossed>>
bounds == <<runs, clicks, stops>>

(* Clusters are numbered in the order in which they first speak, so a      *)
(* cluster is named here by the turn that was its first.                   *)
NoTurn    == [grade |-> "ok", asr |-> FALSE, cluster |-> 0, person |-> NoOne]
NoArt     == [input |-> <<>>, out |-> NoOne]
NoClaims  == [out |-> NoOne, text |-> NoOne, deal |-> NoOne, assessed |-> NoOne]
NoLoop    == [is |-> "none", text |-> NoOne, deal |-> NoOne]
NoRun     == [at |-> "idle", i |-> 0, force |-> FALSE, last |-> "captured", done |-> FALSE,
              cached |-> FALSE, input |-> <<>>, deal |-> NoOne, text |-> NoOne]

Init ==
    /\ state = "captured" /\ text = NoOne
    /\ turns = [t \in Turns |-> NoTurn] /\ speakers = [t \in {} |-> NoOne]
    /\ deal = NoOne
    /\ art = [k \in Kinds |-> NoArt] /\ claims = NoClaims
    /\ loops = [a \in Actions |-> NoLoop]
    /\ run = NoRun
    /\ runs = 0 /\ clicks = 0 /\ stops = 0
    /\ behind = 1 /\ crossed = FALSE

----------------------------------------------------------------------------
(* workflow.run_pipeline: a job, a retry, a Re-run from a named step or    *)
(* `salescoach process` begins one.                                        *)
StartAt(from) ==
    IF from # "start" THEN Index[from]
    ELSE CASE state = "captured"     -> 1
           [] state \in DOMAIN Index -> Index[state] + 1
           [] OTHER                  -> 0

Begin(from, force) ==
    /\ run.at = "idle" /\ runs < MaxRuns /\ runs' = runs + 1
    /\ StartAt(from) # 0
    /\ run' = [NoRun EXCEPT !.at = "load", !.i = StartAt(from), !.force = force,
                            !.last = state, !.done = state = "done"]
    /\ UNCHANGED <<state, text, turns, speakers, deal, art, claims, loops, clicks, stops,
                   behind, crossed>>

(* context.transcript_block: each turn with who spoke and its marker.  The *)
(* first cluster goes without a name.  The quality agent is shown the      *)
(* recogniser's markers only.                                              *)
Speaker(t) == IF turns[t].person # NoOne THEN turns[t].person
              ELSE IF turns[t].cluster \in {0, First} THEN NoOne ELSE turns[t].cluster
Marker(t, asrOnly) == IF asrOnly /\ ~turns[t].asr THEN <<"ok", FALSE>>
                      ELSE <<turns[t].grade, turns[t].asr /\ turns[t].grade # "ok">>
Block(asrOnly) == <<text, [t \in Turns |-> <<Speaker(t), Marker(t, asrOnly)>>]>>

(* context.deal_block: which deal the prompt tells of.                     *)
DealBlock == deal

(* build_prompt of the four agents.  The call's title, its date and what   *)
(* the deal's other calls left stay as they are.                           *)
QualityPrompt  == <<Block(TRUE)>>
SummaryPrompt  == <<Block(FALSE), art["quality"].out>>
AnalysisPrompt == <<Block(FALSE), DealBlock, art["quality"].out, art["summary"].out>>
ActionsPrompt  == <<Block(FALSE), DealBlock, art["summary"].out, art["analysis"].out>>

Prompt(kind) ==
    CASE kind = "quality"  -> QualityPrompt
      [] kind = "summary"  -> SummaryPrompt
      [] kind = "analysis" -> AnalysisPrompt
      [] kind = "actions"  -> ActionsPrompt

(* workflow._agent_step: the newest artifact answers the same prompt.      *)
CachedSlip(kind) == art[kind].out # NoOne
Cached(kind) == art[kind].out # NoOne /\ art[kind].input = Prompt(kind)

(* context.load, and whether the agent is asked at all.                    *)
Load ==
    /\ run.at = "load" /\ run.i <= Len(Steps)
    /\ \/ run.i \in DOMAIN KindOf
          /\ run' = [run EXCEPT !.at = "work", !.deal = deal, !.text = text,
                                !.input = Prompt(KindOf[run.i]),
                                !.cached = ~run.force /\ Cached(KindOf[run.i])]
       \/ run.i \notin DOMAIN KindOf
          /\ run' = [run EXCEPT !.at = "work", !.deal = deal, !.text = text]
    /\ UNCHANGED <<state, text, turns, speakers, deal, art, claims, loops, bounds,
                   behind, crossed>>

----------------------------------------------------------------------------
(* The end of a step.  "While a slow step ran, the seller may have ...     *)
(* closed the call": its writes are dropped.  The two audio steps set the  *)
(* state themselves and are not stopped.                                   *)
ClosedNow == run.i > 2 /\ state = "done" /\ run.last # "done"

Dropped ==
    /\ run.at = "work" /\ ClosedNow
    /\ run' = NoRun
    /\ UNCHANGED <<state, text, turns, speakers, deal, art, claims, loops, bounds, behind, crossed>>

Advance ==
    /\ run' = [run EXCEPT !.at = "load", !.i = @ + 1, !.last = Steps[run.i], !.cached = FALSE,
                          !.input = <<>>, !.deal = NoOne, !.text = NoOne]
    /\ state' = Steps[run.i]
    /\ behind' = IF behind = run.i \/ (behind > run.i /\ ~run.cached) THEN run.i + 1 ELSE behind
    /\ UNCHANGED bounds

At(step) == run.at = "work" /\ run.i = Index[step] /\ ~ClosedNow

(* final.transcribe_call: every final turn is replaced by a fresh one.     *)
FreshTurn(x, t) == [NoTurn EXCEPT !.grade = AsrGrade[x][t], !.asr = TRUE]

Transcribe(x) ==
    /\ At("final_transcribed") /\ Advance
    /\ text' = x
    /\ turns' = [t \in Turns |-> FreshTurn(x, t)]
    /\ UNCHANGED <<speakers, deal, art, claims, loops, crossed>>

(* diarize.label_clusters, assign_clusters, and FALLBACK where there is no *)
(* model: the first cluster is the first turn's, any other may be its own. *)
Clusterings == {f \in [Turns -> Turns] : \A t \in Turns : f[t] <= t /\ f[f[t]] = f[t]}

(* diarize.diarize_call: a cluster that is still there keeps its person.   *)
Kept(c) == IF c \in DOMAIN speakers THEN speakers[c] ELSE NoOne

Diarize(f) ==
    /\ At("diarized") /\ Advance
    /\ turns' = [t \in Turns |-> [turns[t] EXCEPT !.cluster = f[t]]]
    /\ speakers' = [c \in {f[t] : t \in Turns} |-> Kept(c)]
    /\ UNCHANGED <<text, deal, art, claims, loops, crossed>>

(* The answer of an agent: the last one when it was not asked.             *)
Answer(kind, out) == out = art[kind].out \/ ~run.cached
Saved(kind, out)  == art' = [art EXCEPT ![kind] = IF run.cached THEN @
                                                 ELSE [input |-> run.input, out |-> out]]

(* workflow.step_quality: the report marks turns down, never up, and does  *)
(* so again when it was reused: the turns may be fresh ones.               *)
MarkedSlip(t, report) ==
    IF ~run.cached /\ Order[report[t]] > Order[turns[t].grade]
    THEN [turns[t] EXCEPT !.grade = report[t], !.asr = FALSE] ELSE turns[t]
Marked(t, report) ==
    IF Order[report[t]] > Order[turns[t].grade]
    THEN [turns[t] EXCEPT !.grade = report[t], !.asr = FALSE] ELSE turns[t]

Quality(report) ==
    /\ At("quality_done") /\ Answer("quality", report) /\ Advance
    /\ Saved("quality", report)
    /\ turns' = [t \in Turns |-> Marked(t, report)]
    /\ UNCHANGED <<text, speakers, deal, claims, loops, crossed>>

(* workflow.step_summary.                                                  *)
Summary(out) ==
    /\ At("summarized") /\ Answer("summary", out) /\ Advance
    /\ Saved("summary", out)
    /\ UNCHANGED <<text, turns, speakers, deal, claims, loops, crossed>>

(* workflow.step_analysis: the claims and assessments are those of the     *)
(* newest answer, under the deal the step began with.                      *)
Analysis(out) ==
    /\ At("analyzed") /\ Answer("analysis", out) /\ Advance
    /\ Saved("analysis", out)
    /\ claims' = IF run.cached THEN claims
                 ELSE [out |-> out, text |-> run.text, deal |-> run.deal, assessed |-> run.deal]
    /\ crossed' = (crossed \/ (~run.cached /\ run.deal # deal))
    /\ UNCHANGED <<text, turns, speakers, deal, loops>>

(* workflow.step_actions.                                                  *)
ActionsFound(out) ==
    /\ At("actions_extracted") /\ Answer("actions", out) /\ Advance
    /\ Saved("actions", out)
    /\ UNCHANGED <<text, turns, speakers, deal, claims, loops, crossed>>

(* workflow.step_reconcile on the call's own loops: a promise gets one if  *)
(* there is none of its name; "proposed loops from an earlier run of this  *)
(* call that the new run no longer produces" are dropped.                  *)
RerunDropsSlip(a, found) == FALSE
RerunDrops(a, found) == loops[a].is = "proposed" /\ a \notin found

(* The turns an action cites are numbers in the transcript it was found in.*)
Cites == art["actions"].input[1][1]

Reconciled(a, found) ==
    CASE a \in found /\ loops[a].is = "none" -> [is |-> "proposed", text |-> Cites, deal |-> run.deal]
      [] RerunDrops(a, found)                -> [loops[a] EXCEPT !.is = "dropped"]
      [] OTHER                               -> loops[a]

Reconcile ==
    LET found == art["actions"].out IN
    /\ At("loops_reconciled") /\ found # NoOne /\ Advance
    /\ loops' = [a \in Actions |-> Reconciled(a, found)]
    /\ crossed' = (crossed \/ (loops' # loops /\ run.deal # deal))
    /\ UNCHANGED <<text, turns, speakers, deal, art, claims>>

(* The end of run_pipeline; the draft is PostCall's.                       *)
Settle ==
    /\ run.at = "load" /\ run.i > Len(Steps)
    /\ state' = IF run.done \/ state = "done" THEN "done" ELSE "awaiting_review"
    /\ run' = NoRun
    /\ UNCHANGED <<text, turns, speakers, deal, art, claims, loops, bounds, behind, crossed>>

(* A step raises, as reconcile does without actions, or the process dies:  *)
(* nothing of the step stays.  Its answer is in agent_runs only.           *)
Stops ==
    /\ run.at # "idle"
    /\ stops < MaxStops /\ stops' = stops + 1
    /\ run' = NoRun
    /\ UNCHANGED <<state, text, turns, speakers, deal, art, claims, loops, runs, clicks,
                   behind, crossed>>

----------------------------------------------------------------------------
(* The seller.                                                             *)
Click == clicks < MaxClicks /\ clicks' = clicks + 1

(* app.call_map_speakers, one cluster of the form.                         *)
NamedSlip(t, c, p) == turns[t]
Named(t, c, p) == IF turns[t].cluster = c THEN [turns[t] EXCEPT !.person = p] ELSE turns[t]

MapSpeaker(c, p) ==
    /\ Click /\ c \in DOMAIN speakers
    /\ turns' = [t \in Turns |-> Named(t, c, p)]
    /\ speakers' = [speakers EXCEPT ![c] = p]
    /\ UNCHANGED <<state, text, deal, art, claims, loops, run, runs, stops, behind, crossed>>

(* app.call_set_deal: "The call's own loops, emails and claims move with   *)
(* it (unlinked ones and ones on the old deal)."                           *)
MovesSlip(d) == d = NoOne
Moves(d) == d \in {NoOne, deal}

SetDeal(d) ==
    /\ Click /\ d # deal
    /\ deal' = d
    /\ claims' = IF claims.out # NoOne /\ Moves(claims.deal)
                 THEN [claims EXCEPT !.deal = d] ELSE claims
    /\ loops' = [a \in Actions |-> IF loops[a].is # "none" /\ Moves(loops[a].deal)
                                   THEN [loops[a] EXCEPT !.deal = d] ELSE loops[a]]
    /\ UNCHANGED <<state, text, turns, speakers, art, run, runs, stops, behind, crossed>>

(* review.confirm_loop, review.reject_loop.                                *)
Decide(a, verdict) ==
    /\ Click /\ loops[a].is = "proposed"
    /\ loops' = [loops EXCEPT ![a].is = verdict]
    /\ UNCHANGED <<state, text, turns, speakers, deal, art, claims, run, runs, stops,
                   behind, crossed>>

(* review.email_done and the buttons that end in it.                       *)
Close ==
    /\ Click /\ state # "done" /\ text # NoOne
    /\ state' = "done"
    /\ UNCHANGED <<text, turns, speakers, deal, art, claims, loops, run, runs, stops,
                   behind, crossed>>

Seller ==
    \/ \E c \in Turns, p \in People : MapSpeaker(c, p)
    \/ \E d \in Deals : SetDeal(d)
    \/ \E a \in Actions, v \in {"confirmed", "rejected"} : Decide(a, v)
    \/ Close

Pipeline ==
    \/ Begin("start", FALSE)
    \/ \E from \in RerunFrom, force \in BOOLEAN : Begin(from, force)
    \/ Load
    \/ Dropped
    \/ \E x \in Texts : Transcribe(x)
    \/ \E f \in Clusterings : Diarize(f)
    \/ \E report \in Reports : Quality(report)
    \/ \E out \in Answers : Summary(out)
    \/ \E out \in Answers : Analysis(out)
    \/ \E out \in SUBSET Actions : ActionsFound(out)
    \/ Reconcile
    \/ Settle
    \/ Stops

Next == Pipeline \/ Seller

Spec == Init /\ [][Next]_vars

----------------------------------------------------------------------------
(* Properties.                                                             *)

TypeOK ==
    /\ state \in States /\ text \in Texts \cup {NoOne}
    /\ turns \in [Turns -> [grade : Grades, asr : BOOLEAN, cluster : Turns \cup {0},
                            person : People \cup {NoOne}]]
    /\ DOMAIN speakers \subseteq Turns
    /\ \A c \in DOMAIN speakers : speakers[c] \in People \cup {NoOne}
    /\ deal \in Deals \cup {NoOne}
    /\ DOMAIN art = Kinds
    /\ claims.deal \in Deals \cup {NoOne} /\ claims.text \in Texts \cup {NoOne}
    /\ \A a \in Actions : loops[a].is \in {"none", "proposed", "dropped", "confirmed", "rejected"}
    /\ run.at \in {"idle", "load", "work"} /\ run.i \in 0..(Len(Steps) + 1)
    /\ behind \in 1..(Len(Steps) + 1)

(* Once the quality check has been done on the transcript there is, no     *)
(* turn is shown as better than its report says, also where the report     *)
(* was reused on turns that had just been written anew                     *)
(* (workflow.step_quality, final.transcribe_call).                         *)
GradesApply ==
    behind > Index["quality_done"] =>
        \A t \in Turns : Order[turns[t].grade] >= Order[art["quality"].out[t]]

(* Once the analysis has been done on the transcript there is, the call's  *)
(* claims are those of the newest analysis and cite turns of that          *)
(* transcript, whatever was re-run, reused, dropped or died in between     *)
(* (workflow.step_analysis: "Turn indexes are the evidence currency").     *)
EvidenceIsHere ==
    behind > Index["analyzed"] =>
        claims.out = art["analysis"].out /\ claims.text = text

(* The claims and loops of a call are under the call's deal, unless a step *)
(* wrote them for a deal the call had left while it ran                    *)
(* (app.call_set_deal).                                                    *)
FindingsFollow ==
    ~crossed => /\ claims.out # NoOne => claims.deal = deal
                /\ \A a \in Actions : loops[a].is # "none" => loops[a].deal = deal

(* Once the loops have been reconciled with the newest actions, every loop *)
(* still proposed is one of those (workflow.step_reconcile).               *)
ProposalsAreCurrent ==
    behind > Index["loops_reconciled"] =>
        \A a \in Actions : loops[a].is = "proposed" => a \in art["actions"].out

(* What was reported of the turns, and quoted from them, is about the      *)
(* turns there are; and what was found is where and what the call is now.  *)
EvidenceStands == GradesApply /\ EvidenceIsHere
FindingsStand  == FindingsFollow /\ ProposalsAreCurrent

(* Not listed; the README names what shows each of them violated.          *)

(* A mapped person is on every turn of his cluster ("a mapped person       *)
(* survives a re-run", tests/test_speech_diarize.py:70).                   *)
MappedIsShown ==
    \A t \in Turns : turns[t].cluster \in DOMAIN speakers =>
        turns[t].person = speakers[turns[t].cluster]

(* "a re-run with unchanged audio is a cache hit"                          *)
(* (context.transcript_block): the same transcript and the same names.     *)
SameAudio == /\ art["quality"].out # NoOne
             /\ art["quality"].input[1][1] = text
             /\ \A t \in Turns : art["quality"].input[1][2][t][1] = Speaker(t)
RerunIsCached ==
    [][(Load /\ run.i = Index["quality_done"] /\ ~run.force /\ SameAudio) => run'.cached]_vars

(* A promise the newest actions name is not left dropped by a re-run that  *)
(* had not found it (workflow.step_reconcile: node_exists).                *)
FoundAgainReturns ==
    behind > Index["loops_reconciled"] =>
        \A a \in art["actions"].out : loops[a].is # "dropped"

(* A loop's evidence_turns are numbers in the transcript there is.         *)
LoopsCiteIt ==
    behind > Index["loops_reconciled"] =>
        \A a \in art["actions"].out : loops[a].text = text

(* The assessments of a call are under its deal, too.                      *)
AssessmentsFollow == ~crossed /\ claims.out # NoOne => claims.assessed = deal

(* The claims and loops are under the call's deal, whenever he moved it.   *)
AlwaysFollow == claims.out # NoOne => claims.deal = deal

(* A call offered for review has been through every step.                  *)
ReviewedIsWhole == state = "awaiting_review" => behind > Len(Steps)
=============================================================================
