---------------------------- MODULE MCDealStrategy ----------------------------
(* An instance of DealStrategy for TLC, and of what else is kept of a      *)
(* deal: what is learned from its calls (Learning), the verdicts derived   *)
(* from what became of it (Outcomes) and its stage (DealOutcome).  These   *)
(* share no state: a behaviour has one of them, `part', do something.      *)
EXTENDS DealStrategy, Methodology, TLC

CONSTANTS Tags, Known, Similar, DealOf, MaxCalls, MaxSeen, MaxNudges, MaxClicks,
          Window, EmergingCalls, EmergingDeals, EmergingShare, EstablishedCalls, EstablishedDeals,
          DormantAfter, RetireAfter, MinShown, Unhelpful, Floor, Factor, Weight,
          Emails, NoEmail, DayLen, ReplyDays, MeetDays, MaxTime, MaxRead,
          Tabs, Stages, Reasons, NoReason, MaxSaves

VARIABLES part,
    calls, obs, wrong, row, legacy, proposal, nudges, weight, offered, lLeft, lWord, evidence,
    now, sent, came, replies, meeting, loop, held, runs, read, using, derived,
    deal, hist, save, saves, raced, told

L == INSTANCE Learning WITH MaxAnalyses <- MaxSeen, left <- lLeft, word <- lWord
O == INSTANCE Outcomes WITH MaxRuns <- MaxRead, element <- read, active <- using, rows <- derived
D == INSTANCE DealOutcome
ASSUME PartConstants == L!LearningConstants /\ O!OutcomesConstants /\ D!DealOutcomeConstants

lvars == <<calls, obs, wrong, row, legacy, proposal, nudges, weight, offered, lLeft, lWord, evidence>>
ovars == <<now, sent, came, replies, meeting, loop, held, runs, read, using, derived>>
dvars == <<deal, hist, save, saves, raced, told>>

AllInit ==
    /\ part \in {"strategy", "learning", "outcomes", "stage"}
    /\ Init /\ L!Init /\ O!Init /\ D!Init
    /\ part # "outcomes" => using = First
    /\ part # "stage" => deal.stage = CHOOSE s \in Stages : TRUE
AllNext ==
    \/ part = "strategy" /\ UNCHANGED <<part, lvars, ovars, dvars>> /\ Next
    \/ part = "learning" /\ UNCHANGED <<part, vars, ovars, dvars>> /\ L!Next
    \/ part = "outcomes" /\ UNCHANGED <<part, vars, lvars, dvars>> /\ O!Next
    \/ part = "stage" /\ UNCHANGED <<part, vars, lvars, ovars>> /\ D!Next
AllSpec == AllInit /\ [][AllNext]_<<part, vars, lvars, ovars, dvars>>

SomeSimilar == {<<"new1", "known">>, <<"new2", "new1">>}
SomeDeals == [c \in 1..MaxCalls |-> c % 2]

SomeRules == {<<"r">>, <<"not_known", "champion">>}

(* Definitions a form or a file may hold, those that are refused too.      *)
Element == [key : ElementKeys, critical : BOOLEAN, cap : {NoCap, 60}, rule : {<<>>} \cup RuleNames,
            risk : {"", "no_urgency"}]
Definition == [elements : UNION {[1..n -> Element] : n \in 1..2},
               order : {<<>>} \cup {<<k>> : k \in ElementKeys},
               known : {<<>>} \cup [count : 1..2, cap : {50}, rule : {<<>>}]]
ValidOnes == {d \in Definition : Valid(d)}

(* Answers of a model about some elements.                                 *)
Item == [status : {"known", "partial", "unknown"}, conf : 1..3,
         quotes : {{}, {"exact"}, {"garbled"}, {"exact", "missing"}, {"negated"}}]
Answers(ks) == [items : [ks -> Item], score : {90}, risks : {{}}]

Files == [Library -> {"absent", "invalid", "valid"}]
Overlay == [active : Library \cup {"none"}, custom : Files]

----------------------------------------------------------------------------
(* What the deal page ranks gaps by names every element of a valid         *)
(* definition once; and whatever the two files hold, the methodology in    *)
(* use exists, no form takes it away, and none puts a custom one in the    *)
(* place of a built-in one.                                                *)
GapsTotal ==
    \A d \in ValidOnes : LET b == Build(d) IN
        IsInjective(b.order) /\ ToSet(b.order) = {e.key : e \in b.elements}

InUseStays ==
    \A t \in Files, o \in Overlay, k \in Library :
        LET u == Active(t, o) IN
        /\ u \in Found(t, o)
        /\ MayDelete(t, o, k) => Active(t, Delete(t, o, k)) = u
        /\ MaySave(t, o, k) => Active(t, Save(t, o, k)) \in {u, k}
        /\ MayChoose(t, o, k) => Active(t, Chosen(t, o, k)) = k

(* These say nothing of the state: TLC works them out in the first one.    *)
Fresh == part = "strategy" /\ left.switches = MaxSwitches /\ left.edits = MaxEdits /\ inputs.analysis = 0
LibraryHolds == Fresh => GapsTotal /\ InUseStays

(* The guard against false optimism: a critical element that no quote of   *)
(* the calls bears out keeps the score under its cap, whatever the model   *)
(* answers, and one made-up quote among good ones is enough to lose it.    *)
Borne(item) == item.status = "known" /\ item.conf >= 2 /\ item.quotes # {}
               /\ item.quotes \subseteq {"exact", "loose", "garbled"}
OptimismGuarded ==
    Fresh => \A d \in {d \in ValidOnes : Len(d.elements) = 1 /\ d.order = <<>>} :
        LET b == Build(d) IN
        \A a \in Answers(ToSet(KeysOf(d))) :
            LET v == Validate(b, a, [buyers |-> 2, dated |-> TRUE], <<>>) IN
            \A e \in b.elements :
                ~Borne(a.items[e.key]) => /\ e.critical => v.score <= e.cap
                                          /\ v.status[e.key] # "known"

(* A behaviour has a death or a switch, not both.                          *)
OneTrouble == (MaxDeaths - left.deaths) + (MaxSwitches - left.switches) <= 1

(* The score and who is on the deal touch none of the run's properties.    *)
Plain == health.score = health.cap /\ health.conf # 1 /\ health.score # 1 /\ inputs.people = 0

(* The two families of Learning do not touch each other, and a recompute   *)
(* is due after every analysis: at most one is waiting.                    *)
OneFamily == part = "learning" =>
    /\ \/ L!Analysed(calls) = {} /\ \A t \in Tags : row[t] = L!Absent
       \/ nudges.shown = 0 /\ weight = Weight
    /\ Cardinality({c \in 1..MaxCalls : \E t \in Tags : (calls[c] = t) # (c \in obs[t])}) <= 1

(* A behaviour of Outcomes is about emails or about calls.                 *)
OneSubject == part = "outcomes" =>
    \/ \A e \in Emails : sent[e] = O!Never /\ meeting.seen = O!Never
    \/ runs = <<>> /\ loop.status = "open" /\ using = First

----------------------------------------------------------------------------
(* A disagreement is shown until it is settled, and a switch of the        *)
(* methodology reaches every deal.                                         *)
NothingMissed == NoDisagreementLost /\ SwitchReaches

(* Whatever the files hold there is a methodology, and whatever a model    *)
(* answers it is not more optimistic than its quotes.                      *)
ReadingHolds == LibraryHolds /\ OptimismGuarded

(* What is learned heeds the seller's word, counts each call once, and is  *)
(* not asked again.                                                        *)
HisWordOnLearned ==
    [](part = "learning" => L!TypeOK /\ L!YouOutrankIt /\ L!EachCountsOnce)
    /\ [][part = "learning" => L!AskedOnNewEvidence]_lvars

(* Verdicts stand, and no switch of the methodology makes a deal advance.  *)
VerdictsHold ==
    [](part = "outcomes" => O!SwitchIsNoAdvance) /\ [][part = "outcomes" => O!RowsStand]_ovars

(* The history of a deal's stage tells how it came to stand as it does.    *)
HistoryTells == part = "stage" => D!TypeOK /\ D!HistoryTells
=============================================================================
