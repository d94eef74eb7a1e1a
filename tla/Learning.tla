-------------------------------- MODULE Learning --------------------------------
(***************************************************************************)
(* The learning layer (salescoach/learning/patterns.py, observe.py, web.py,*)
(* plugins/learning.py and memory/patterns.py): tags seen on calls and live*)
(* nudges the seller acted on or not are counted into patterns and         *)
(* proposals, and the seller confirms, denies, retires, merges, hides and  *)
(* decides.  A recompute, and each of his clicks, is one transaction.      *)
(*                                                                         *)
(* Left out: low-confidence and replayed observations, which count for     *)
(* nothing, and the families that are only counted and shown.  A call      *)
(* carries at most one tag; Calls are numbered by when they took place.    *)
(***************************************************************************)
EXTENDS Integers, Sequences, FiniteSets, FiniteSetsExt

CONSTANTS
    Tags, Known,        \* what a call may show; those of the taxonomy
    Similar,            \* pairs of tags: the first reads like the second
    DealOf,             \* of each call
    MaxCalls, MaxAnalyses, MaxNudges, MaxClicks,    \* bounds
    Window, EmergingCalls, EmergingDeals, EmergingShare,
    EstablishedCalls, EstablishedDeals, DormantAfter, RetireAfter,  \* learning.yaml
    MinShown, Unhelpful, Floor, Factor,
    Weight              \* of the trigger at first, in tenths

LearningConstants ==
    /\ Known \subseteq Tags /\ Similar \subseteq Tags \X Tags
    /\ IsFiniteSet(Tags) /\ "none" \notin Tags /\ "todo" \notin Tags
    /\ DealOf \in [1..MaxCalls -> Nat] /\ {MaxCalls, MaxAnalyses, MaxNudges, MaxClicks} \subseteq Nat
    /\ {Floor, Weight, Factor} \subseteq Nat /\ Factor > 1 /\ MinShown > 0

None == "none"

VARIABLES
    calls,      \* the tag of each analysed call, or None, or "todo"
    obs, wrong, \* pattern_observations of each tag: calls; those excluded
    row,        \* learned_patterns
    legacy,     \* seller_patterns: the status of each tag
    proposal,   \* of each subject: is one open, decided_n of the last decided
    nudges,     \* shown and unhelpful: in all, and since the last decision
    weight, offered,    \* of the trigger: in force, and in its open proposal
    left,       \* of the bounds
    word,       \* history: what the seller last said of each tag
    evidence    \* history: by subject, what spoke for it when he last decided

facts == <<calls, legacy>>
store == <<obs, wrong, row>>
coach == <<nudges, weight>>
vars == <<facts, store, coach, proposal, offered, left, word, evidence>>

Trigger == <<"trigger">>
Subjects == Similar \cup {Trigger}
Silent == [user |-> None, merged |-> None, hidden |-> FALSE]
Absent == [status |-> "absent", label |-> None, seen |-> {}, returned |-> FALSE,
           user |-> None, merged |-> None, hidden |-> FALSE]
Said(r) == [user |-> r.user, merged |-> r.merged, hidden |-> r.hidden]

Init ==
    /\ calls = [c \in 1..MaxCalls |-> "todo"] /\ legacy = [t \in Tags |-> "absent"]
    /\ obs = [t \in Tags |-> {}] /\ wrong = [t \in Tags |-> {}] /\ row = [t \in Tags |-> Absent]
    /\ proposal = [s \in Subjects |-> [open |-> FALSE, decided |-> -1]]
    /\ nudges = [shown |-> 0, bad |-> 0, shownSince |-> 0, badSince |-> 0]
    /\ weight = Weight /\ offered = Weight
    /\ left = [analyses |-> MaxAnalyses, clicks |-> MaxClicks]
    /\ word = [t \in Tags |-> Silent] /\ evidence = [s \in Subjects |-> -1]

----------------------------------------------------------------------------
(* Counting.                                                               *)

Analysed(cs) == {c \in 1..MaxCalls : cs[c] # "todo"}
Newest(cs, n) == {c \in Analysed(cs) : Cardinality({d \in Analysed(cs) : d > c}) < n}
DealsOf(C) == {DealOf[c] : c \in C}

(* promote: '' is None.                                                    *)
Promote(C) ==
    LET window == Newest(calls, Window)
        newer  == Newest(calls, Cardinality(window) \div 2)
    IN  IF /\ Cardinality(C) >= EstablishedCalls /\ Cardinality(DealsOf(C)) >= EstablishedDeals
           /\ C \cap newer # {} /\ C \cap (window \ newer) # {} THEN "established"
        ELSE IF /\ Cardinality(C) >= EmergingCalls /\ Cardinality(DealsOf(C)) >= EmergingDeals
                /\ window # {} /\ 100 * Cardinality(C \cap window) >= EmergingShare * Cardinality(window)
             THEN "emerging" ELSE None

(* absence: by where the tag was last seen among the analysed calls.       *)
Absence(C) ==
    LET all == Analysed(calls)
    IN  IF C \cap all = {} THEN None
        ELSE IF Cardinality(all) > RetireAfter /\ C \cap Newest(calls, RetireAfter) = {} THEN "retired"
        ELSE IF Cardinality(all) > DormantAfter /\ C \cap Newest(calls, DormantAfter) = {} THEN "dormant"
        ELSE None

(* _merge_targets: through chains; a cycle resolves to itself.             *)
Into(r, t) == r[t].merged \in Tags \ {t} /\ r[r[t].merged].status # "absent"
TargetSlip(r, t) == IF Into(r, t) THEN r[t].merged ELSE t
Target(r, t) ==
    LET hop[k \in 0..Cardinality(Tags)] ==
            IF k = 0 THEN t ELSE IF Into(r, hop[k - 1]) THEN r[hop[k - 1]].merged ELSE hop[k - 1]
        last == hop[Cardinality(Tags)]
    IN  IF Into(r, last) THEN t ELSE last

(* observe.sync, which leaves excluded alone, and "Wrong" over what is new.*)
Synced == [t \in Tags |-> {c \in 1..MaxCalls : calls[c] = t}]
ExcludedSlip(r, o, x) == [t \in Tags |-> x[t] \cap o[t]]
Excluded(r, o, x) == [t \in Tags |-> IF r[t].user = "wrong" THEN o[t] ELSE x[t] \cap o[t]]

StaysSlip(r, o, t) == r[t].user # None \/ r[t].merged # None \/ o[t] # {}
Stays(r, o, t) == r[t].user # None \/ r[t].merged # None \/ r[t].hidden \/ o[t] # {}

(* One row of recompute, from the rows and observations it read.           *)
Counted(r, o, x, t) ==
    LET from == {s \in Tags : Target(r, s) = t}
        seen == UNION {o[s] \ x[s] : s \in from}
        verdict == r[t].user \in {"wrong", "retired"}
        label == IF Absence(seen) # None THEN None ELSE Promote(seen)
        status == IF Target(r, t) # t \/ verdict THEN "retired"
                  ELSE IF Absence(seen) # None THEN Absence(seen)
                  ELSE IF label # None \/ r[t].user = "confirmed" THEN "active" ELSE "candidate"
    IN  IF (\E s \in from : o[s] # {}) \/ (r[t].status # "absent" /\ Stays(r, o, t))
        THEN [r[t] EXCEPT !.status = status, !.label = IF status = "active" THEN label ELSE None,
                          !.seen = IF Target(r, t) # t THEN {} ELSE seen,
                          !.returned = @ \/ (/\ r[t].status \in {"dormant", "retired"}
                                             /\ status \in {"candidate", "active"}
                                             /\ r[t].merged = None)]
        ELSE Absent

----------------------------------------------------------------------------
(* Proposals.                                                              *)

(* _propose_merges: a tag that is not of the taxonomy into one that is, or *)
(* into one seen on more calls.                                            *)
Candid(r, t) == r[t].status # "absent" /\ r[t].merged = None /\ r[t].user \in {None, "confirmed"}
Keeps(r, t, u) == \/ Cardinality(r[u].seen) > Cardinality(r[t].seen)
                  \/ Cardinality(r[u].seen) = Cardinality(r[t].seen) /\ <<t, u>> \in Similar
MergeCase(r, s) ==
    /\ s[1] \notin Known /\ Candid(r, s[1])
    /\ s[2] \in Known \/ /\ Candid(r, s[2]) /\ Keeps(r, s[1], s[2])
                         /\ \A k \in Known : <<s[1], k>> \notin Similar

(* _propose_trigger_weights, on all nudges and on those since a decision.  *)
Lower(w) == Max({Floor, (w * 8) \div 10})
Bad(n, bad) == n > 0 /\ 100 * bad >= Unhelpful * n
WeightCase ==
    /\ nudges.shown >= MinShown /\ Bad(nudges.shown, nudges.bad) /\ Lower(weight) < weight
    /\ proposal[Trigger].decided >= 0 => Bad(nudges.shownSince, nudges.badSince)

(* _open_proposal.                                                         *)
MayOpen(p, n) == ~p.open /\ (p.decided = -1 \/ n >= Factor * Max({p.decided, 1}))
Strength(r, s) == IF s = Trigger THEN nudges.shown ELSE Cardinality(r[s[1]].seen)
Proposed(r, p) ==
    [s \in Subjects |-> IF (IF s = Trigger THEN WeightCase ELSE MergeCase(r, s)) /\ MayOpen(p[s], Strength(r, s))
                        THEN [p[s] EXCEPT !.open = TRUE] ELSE p[s]]

(* recompute, on rows r, exclusions x and proposals p just written.        *)
RecomputeFrom(r, x, p) ==
    /\ obs' = Synced
    /\ wrong' = Excluded(r, Synced, x)
    /\ row' = [t \in Tags |-> Counted(r, Synced, wrong', t)]
    /\ proposal' = Proposed(row', p)
    /\ offered' = IF proposal'[Trigger].open /\ ~p[Trigger].open THEN Lower(weight) ELSE offered

(* memory.patterns.recompute: tags that are observed at all.               *)
LegacyAfter(cs, r) ==
    [t \in Tags |-> LET n == Cardinality({c \in 1..MaxCalls : cs[c] = t})
                    IN  IF n = 0 THEN legacy[t]
                        ELSE IF r[t].user \in {"wrong", "retired"} THEN "retired"
                        ELSE IF n >= 2 THEN "active" ELSE "candidate"]

----------------------------------------------------------------------------
(* What happens: a call is analysed, or again; a nudge is shown; the layer *)
(* recomputes, after an event, daily or on the button.                     *)

Analyse(c, t) ==
    /\ c > 1 => calls[c - 1] # "todo"
    /\ calls[c] # t /\ left.analyses > 0 /\ left' = [left EXCEPT !.analyses = @ - 1]
    /\ calls' = [calls EXCEPT ![c] = t]
    /\ legacy' = LegacyAfter(calls', row)
    /\ UNCHANGED <<store, coach, proposal, offered, word, evidence>>

Shown(bad) ==
    /\ nudges.shown < MaxNudges
    /\ nudges' = [n \in DOMAIN nudges |->
                    nudges[n] + IF n \in {"shown", "shownSince"} THEN 1 ELSE bad]
    /\ UNCHANGED <<facts, store, weight, proposal, offered, left, word, evidence>>

Recompute ==
    /\ RecomputeFrom(row, wrong, proposal)
    /\ UNCHANGED <<facts, coach, left, word, evidence>>

----------------------------------------------------------------------------
(* The seller on the learning page.                                        *)

Click == left.clicks > 0 /\ left' = [left EXCEPT !.clicks = @ - 1]

(* _ensure_row: a tag of the taxonomy may be judged before it is seen.     *)
Ensured(t) == IF row[t].status = "absent" THEN [Absent EXCEPT !.status = "candidate"] ELSE row[t]
MayJudge(t) == row[t].status # "absent" \/ t \in Known
Tell(t, r) == word' = [word EXCEPT ![t] = Said(r)]

SetUserState(t, s) ==
    LET r == [Ensured(t) EXCEPT !.user = s]
        x == [wrong EXCEPT ![t] = IF s = "wrong" THEN obs[t] ELSE IF row[t].user = "wrong" THEN {} ELSE @]
    IN  /\ Click /\ MayJudge(t) /\ row[t].user # s
        /\ RecomputeFrom([row EXCEPT ![t] = r], x, proposal)
        /\ legacy' = LegacyAfter(calls, [row EXCEPT ![t] = r])
        /\ Tell(t, r)
        /\ UNCHANGED <<calls, coach, evidence>>

SetPromptUse(t) ==
    LET r == [Ensured(t) EXCEPT !.hidden = ~@]
    IN  /\ Click /\ MayJudge(t)
        /\ row' = [row EXCEPT ![t] = r] /\ Tell(t, r)
        /\ UNCHANGED <<facts, obs, wrong, coach, proposal, offered, evidence>>

(* merge_into refuses a target that was judged, and one that leads back.   *)
Reaches(u, t) ==
    \E n \in 1..Cardinality(Tags) : \E p \in [1..n -> Tags] :
        p[1] = u /\ row[p[n]].merged = t /\ \A i \in 1..(n - 1) : row[p[i]].merged = p[i + 1]
MayMerge(t, u) ==
    /\ MayJudge(t) /\ MayJudge(u) /\ u # t
    /\ Ensured(u).user \notin {"wrong", "retired"} /\ ~Reaches(u, t)
Merged(t, u) == [row EXCEPT ![t] = [Ensured(t) EXCEPT !.merged = u],
                            ![u] = Ensured(u)]

MergeInto(t, u) ==
    /\ Click /\ MayMerge(t, u) /\ row[t].merged # u
    /\ RecomputeFrom(Merged(t, u), wrong, proposal)
    /\ Tell(t, Merged(t, u)[t])
    /\ UNCHANGED <<facts, coach, evidence>>

Unmerge(t) ==
    /\ Click /\ row[t].merged # None
    /\ RecomputeFrom([row EXCEPT ![t].merged = None], wrong, proposal)
    /\ Tell(t, [row[t] EXCEPT !.merged = None])
    /\ UNCHANGED <<facts, coach, evidence>>

(* resolve_proposal: the evidence is read before a merge folds it away.    *)
DecidedNSlip(s, accept) == IF s # Trigger /\ accept THEN 0 ELSE Strength(row, s)
DecidedN(s, accept) == Strength(row, s)
Decide(s, accept) ==
    LET p == [proposal EXCEPT ![s] = [open |-> FALSE, decided |-> DecidedN(s, accept)]]
    IN  /\ Click /\ proposal[s].open
        /\ evidence' = [evidence EXCEPT ![s] = IF s = Trigger THEN nudges.shown
                                               ELSE IF row[s[1]].merged # None THEN 0
                                               ELSE Cardinality(obs[s[1]] \ wrong[s[1]])]
        /\ IF s = Trigger
           THEN /\ weight' = IF accept THEN offered ELSE weight
                /\ nudges' = [nudges EXCEPT !.shownSince = 0, !.badSince = 0]
           ELSE UNCHANGED coach
        /\ IF s # Trigger /\ accept
           THEN /\ MayMerge(s[1], s[2])
                /\ RecomputeFrom(Merged(s[1], s[2]), wrong, p)
                /\ Tell(s[1], Merged(s[1], s[2])[s[1]])
           ELSE RecomputeFrom(row, wrong, p) /\ UNCHANGED word
        /\ UNCHANGED facts

(* The seller's own live_coach.yaml.                                       *)
SetsWeight(w) ==
    /\ Click /\ w # weight /\ weight' = w
    /\ UNCHANGED <<facts, store, nudges, proposal, offered, word, evidence>>

Next ==
    \/ \E c \in 1..MaxCalls, t \in Tags \cup {None} : Analyse(c, t)
    \/ \E bad \in {0, 1} : Shown(bad)
    \/ Recompute
    \/ \E t \in Tags : \/ \E s \in {"confirmed", "wrong", "retired", None} : SetUserState(t, s)
                       \/ SetPromptUse(t) \/ Unmerge(t)
                       \/ \E u \in Tags : MergeInto(t, u)
    \/ \E s \in Subjects, accept \in BOOLEAN : Decide(s, accept)
    \/ \E w \in Floor..Weight : SetsWeight(w)

Spec == Init /\ [][Next]_vars

----------------------------------------------------------------------------
TypeOK ==
    /\ calls \in [1..MaxCalls -> Tags \cup {None, "todo"}]
    /\ \A t \in Tags : obs[t] \cup wrong[t] \subseteq 1..MaxCalls
    /\ \A t \in Tags : row[t].status \in {"absent", "candidate", "active", "dormant", "retired"}
    /\ weight \in Nat

(* "You outrank it": what the seller said of a pattern is there and holds, *)
(* whatever was observed, merged, forgotten and seen again since.          *)
YouOutrankIt ==
    \A t \in Tags : word[t] # Silent =>
        /\ Said(row[t]) = word[t] /\ row[t].status # "absent"
        /\ word[t].user \in {"wrong", "retired"} => row[t].status = "retired"

(* Every observation the store holds counts for exactly one pattern, along *)
(* every chain of merges, and what is marked wrong counts for none, though *)
(* it be observed again or folded into another.                            *)
EachCountsOnce ==
    \A t \in Tags, c \in 1..MaxCalls : c \in obs[t] =>
        Cardinality({u \in Tags : c \in row[u].seen}) = IF word[t].user = "wrong" THEN 0 ELSE 1

(* "The same subject is proposed again only when the evidence has grown to *)
(* twice the n at your decision", if the tag was a pattern of its own then *)
(* (one already merged into another has no n, and is proposed again).      *)
AskedOnNewEvidence ==
    \A s \in Subjects :
        ~proposal[s].open /\ proposal'[s].open /\ evidence[s] > 0 =>
            Strength(row', s) >= Factor * evidence[s]
NotAskedAgain == [][AskedOnNewEvidence]_vars

----------------------------------------------------------------------------
(* Statements of the code's comments that do not hold.                     *)

(* "A pattern merged into another folds its observations into the target": *)
(* a target that nothing shows any more is deleted, and the merge is void. *)
MergesHold ==
    \A t \in Tags : word[t].merged # None => Target(row, t) # t

(* "A dormant (or absence-retired) pattern that recurs is revived with     *)
(* returned=1": so is one whose verdict was taken back.                    *)
ReturnedCameBack ==
    [][\A t \in Tags : row'[t].returned /\ ~row[t].returned =>
          Synced[t] # obs[t] \/ word[t].user \notin {"wrong", "retired"}]_vars

(* seller_patterns "mirrors Wrong / Retire as status 'retired'".           *)
MirrorHolds == \A t \in Tags : word[t].user \in {"wrong", "retired"} => legacy[t] \in {"absent", "retired"}

(* Accepting "Lower the weight" lowers it.                                 *)
AcceptingLowers == [][\A s \in Subjects : Decide(s, TRUE) /\ s = Trigger => weight' < weight]_vars
=============================================================================
