------------------------------- MODULE Outreach -------------------------------
(***************************************************************************)
(* What the application says to a buyer between calls                      *)
(* (salescoach/automation): the follow-up agent decides every due loop     *)
(* once a day and drafts nudges, replies are read from Gmail and analysed, *)
(* and the auto-send executor may send a nudge nobody clicked on.          *)
(*                                                                         *)
(* The scheduler's follow-up thread, the worker that handles events, the   *)
(* auto-send thread and the seller's clicks run side by side on one        *)
(* database.  An evaluation reads its loops at the start, then lets models *)
(* think for minutes: listing, each answer and each write are steps here.  *)
(* approve_and_send is one step, with the outcomes EmailSend gives it.     *)
(*                                                                         *)
(* Days are working days, counted from the day the loops were made.        *)
(*                                                                         *)
(* An operator named ...Slip is a plausible slip in the code that the      *)
(* operator below it models; the README says which property notices it.    *)
(***************************************************************************)
EXTENDS Naturals, Sequences, FiniteSets

CONSTANTS
    Loops,          \* tracked commitments of one deal, owed by the buyer
    Scheduler,      \* the follow-up duty's thread
    Worker,         \* the thread that handles events
    Limit,          \* follow-ups before a loop is escalated
    Gap,            \* min_business_days_between_nudges
    CheckAfter,     \* the cadence rule: days until the next look
    Cap,            \* auto_send.daily_cap
    Facts,          \* what else an evaluation may find
    MaxDay,         \* bound: days
    MaxNudges,      \* bound: nudges drafted
    MaxReplies,     \* bound: replies the buyer writes
    MaxClicks       \* bound: snoozes, "still open"s and nudges asked for

Evaluators == {Scheduler, Worker}
Nudges     == 1..MaxNudges
Never      == MaxDay + 1            \* next_check_at is NULL, or out of sight
Days       == 0..Never

AllFacts == {"none", "superseded", "deal_closed", "paused", "call_processing",
             "newer_call", "own_commitment", "no_recipient", "weekend"}

OutreachConstants ==
    /\ Scheduler # Worker /\ Loops # {}
    /\ {Limit, Gap, CheckAfter, MaxDay, MaxNudges, MaxReplies, MaxClicks} \subseteq Nat
    /\ Cap \in Nat /\ CheckAfter >= 1 /\ Facts \subseteq AllFacts

VARIABLES
    today,
    loops,      \* the loops rows
    closing,    \* loops with an open proposal to close them
    nudges,     \* the emails rows of kind 'nudge'
    decided,    \* followup_decisions of today by rules or agent: how many, per loop
    written,    \* replies the buyer wrote
    stored,     \* replies the poll has stored
    fresh,      \* replies whose analysis is queued
    mail,       \* EMAIL_SENT events not handled yet
    eval,       \* each evaluator: where it is, its loops as it read them
    auto,       \* the auto-send pass: the drafts it read, the send it has not logged
    logged,     \* autosend_log rows of today with outcome 'sent'
    autoSent,   \* history: sends by the auto-send executor today
    clicks,     \* what is left of MaxClicks
    taint       \* history: the races that have happened

vars == <<today, loops, closing, nudges, decided, written, stored, fresh, mail,
          eval, auto, logged, autoSent, clicks, taint>>

Loop == [open : BOOLEAN, next : Days, count : 0..MaxNudges, escalated : BOOLEAN,
         heard : 0..MaxReplies]      \* replies up to last_activity_at

Statuses == {"none", "drafted", "sending", "sent", "failed", "saved_to_gmail", "rejected"}
Nudge == [status : Statuses, loop : Loops, asked : BOOLEAN, sentOn : Days, counted : BOOLEAN,
          fit : BOOLEAN]        \* as it stands it is low risk and has sat for hold_minutes

(* "overlap": two evaluations at once.  "moved": a loop changed between    *)
(* its reading and the decision about it.  "late": a send was not counted  *)
(* when its loop was next evaluated.  "swapped": a draft was edited after  *)
(* the auto-send executor had read it.  "unlogged": the executor died      *)
(* between a send and its log row.  "masked": a nudge was asked for and an *)
(* earlier check hid the one that was pending.                             *)
Races == {"overlap", "moved", "late", "swapped", "unlogged", "masked"}
Taint(s) == taint' = taint \cup s
If(b, race) == IF b THEN {race} ELSE {}

AnyLoop == CHOOSE l \in Loops : TRUE
NewRow  == [open |-> TRUE, next |-> Never, count |-> 0, escalated |-> FALSE, heard |-> 0]
Idle == [at |-> "idle", todo |-> {}, rows |-> [l \in Loops |-> NewRow], loop |-> AnyLoop,
         asked |-> FALSE]
Resting(t) == eval[t].at = "idle"

Blank == [status |-> "none", loop |-> AnyLoop, asked |-> FALSE,
          sentOn |-> Never, counted |-> FALSE, fit |-> FALSE]

Init ==
    /\ today = 0
    /\ loops = [l \in Loops |-> NewRow]
    /\ closing = {}
    /\ nudges = [n \in Nudges |-> Blank]
    /\ decided = [l \in Loops |-> 0]
    /\ written = 0 /\ stored = 0 /\ fresh = {}
    /\ mail = {}
    /\ eval = [t \in Evaluators |-> Idle]
    /\ auto = [batch |-> {}, sent |-> FALSE]
    /\ logged = 0 /\ autoSent = 0
    /\ clicks = MaxClicks
    /\ taint = {}

----------------------------------------------------------------------------
(* cadence.                                                                *)

LaterOf(a, b) == IF a >= b THEN a ELSE b
Sight(d) == IF d > MaxDay THEN Never ELSE d
NextAfter(d) == Sight(LaterOf(d + CheckAfter, d + 1))

----------------------------------------------------------------------------
(* Starting an evaluation: evaluate_due lists and reads every due loop     *)
(* that has no decision of today; evaluate_one reads the one it is for.    *)

Scheduled(l) ==
    IF loops[l].open /\ loops[l].next = Never /\ ~loops[l].escalated
    THEN [loops[l] EXCEPT !.next = LaterOf(Sight(CheckAfter), today)]
    ELSE loops[l]

DueLoops(rows) == {l \in Loops : rows[l].open /\ rows[l].next <= today}

UndecidedSlip == Loops
Undecided == {l \in Loops : decided[l] = 0}

EvaluateDue(t) ==
    /\ Resting(t)
    /\ LET rows == [l \in Loops |-> Scheduled(l)]
           todo == DueLoops(rows) \cap Undecided
       IN  /\ rows # loops \/ todo # {}
           /\ loops' = rows
           /\ eval' = IF todo = {} THEN eval
                      ELSE [eval EXCEPT ![t] = [Idle EXCEPT !.at = "next", !.todo = todo,
                                                            !.rows = rows]]
    /\ Taint(If(\E u \in Evaluators : ~Resting(u), "overlap"))
    /\ UNCHANGED <<today, closing, nudges, decided, written, stored, fresh, mail, auto,
                   logged, autoSent, clicks>>

(* The seller pressed "Nudge": FOLLOW_UP_NUDGE, handled by the worker.     *)
EvaluateOne(l) ==
    /\ Resting(Worker) /\ clicks > 0
    /\ clicks' = clicks - 1
    /\ eval' = [eval EXCEPT ![Worker] = [Idle EXCEPT !.at = "next", !.todo = {l},
                                                     !.rows = loops, !.asked = TRUE]]
    /\ Taint(If(~Resting(Scheduler), "overlap"))
    /\ UNCHANGED <<today, loops, closing, nudges, decided, written, stored, fresh, mail,
                   auto, logged, autoSent>>

----------------------------------------------------------------------------
(* gather and _rules.  The loop is as it was listed; everything else is    *)
(* read now.                                                               *)

Pending(l) == {n \in Nudges : /\ nudges[n].loop = l
                              /\ nudges[n].status \in {"drafted", "sending", "failed",
                                                       "saved_to_gmail"}}
SentFor(l) == {n \in Nudges : nudges[n].loop = l /\ nudges[n].status = "sent"}
SpentSlip(row) == row.count > Limit
Spent(row) == row.count >= Limit
TooSoon(l) == \E n \in SentFor(l) : nudges[n].sentOn + Gap > today
Earliest(l) == CHOOSE d \in Days : /\ \E n \in SentFor(l) : Sight(nudges[n].sentOn + Gap) = d
                                   /\ \A n \in SentFor(l) : Sight(nudges[n].sentOn + Gap) <= d

Verdict(check, next) == [check |-> check, next |-> next, park |-> FALSE]

(* The deterministic checks, the most certain first.                       *)
Checks(l, row, fact) ==
    LET later == NextAfter(today)
        On(hit, verdict) == [hit |-> hit, verdict |-> verdict]
    IN << On(l \in closing, Verdict("completed", Sight(today + 1))),
          On(fact = "superseded", [Verdict("superseded", Never) EXCEPT !.park = TRUE]),
          On(fact = "deal_closed", [Verdict("deal_closed", later) EXCEPT !.park = TRUE]),
          On(fact = "paused", Verdict("deal_paused", Never)),
          On(stored > row.heard, Verdict("replied", later)),
          On(fact = "call_processing", Verdict("newer_call_processing", Sight(today + 1))),
          On(fact = "newer_call", Verdict("newer_call", later)),
          On(fact = "own_commitment", Verdict("own_commitment", later)),
          On(Pending(l) # {}, Verdict("nudge_pending", Sight(today + 1))),
          On(row.escalated, Verdict("already_escalated", Never)),
          On(Spent(row), Verdict("escalate", Never)),
          On(TooSoon(l), Verdict("too_soon", IF TooSoon(l) THEN Earliest(l) ELSE Never)),
          On(fact = "no_recipient", Verdict("no_recipient", later)),
          On(fact = "weekend", Verdict("weekend", Sight(today + 1))),
          On(TRUE, Verdict("agent", later)) >>

Rules(l, row, fact) ==
    LET checks == Checks(l, row, fact)
        first  == CHOOSE i \in DOMAIN checks :
                      checks[i].hit /\ \A j \in 1..(i - 1) : ~checks[j].hit
    IN  checks[first].verdict

HoldsWhenAskedSlip == {"completed", "own_commitment", "no_recipient"}
HoldsWhenAsked == {"completed", "own_commitment", "nudge_pending", "no_recipient"}

Masking == {"superseded", "deal_closed", "deal_paused", "replied", "newer_call_processing",
            "newer_call"}

----------------------------------------------------------------------------
(* _apply: the decision, in one transaction.                               *)

Moved(t, l) == loops[l] # eval[t].rows[l]
Turn(t) == IF eval[t].todo = {} THEN Idle ELSE [eval[t] EXCEPT !.at = "next"]
Done(t) == eval' = [eval EXCEPT ![t] = Turn(t)]

CountsToday(t) == ~eval[t].asked
Decide(t, l) == decided' = IF CountsToday(t) THEN [decided EXCEPT ![l] = @ + 1] ELSE decided

(* The reply or the newer call becomes the loop's last activity.           *)
HeardAfter(l, v) ==
    CASE v.check = "replied"    -> {stored}
      [] v.check = "newer_call" -> loops[l].heard..written
      [] OTHER                  -> {loops[l].heard}

Apply(t, l, v) ==
    /\ \E h \in HeardAfter(l, v) :
           loops' = [loops EXCEPT ![l] =
                        [loops[l] EXCEPT !.next = v.next, !.heard = h,
                                         !.escalated = \/ loops[l].escalated
                                                       \/ v.check = "escalate"]]
    /\ closing' = IF v.park /\ loops[l].open THEN closing \cup {l} ELSE closing
    /\ Decide(t, l)
    /\ UNCHANGED <<today, nudges, written, stored, fresh, mail, auto, logged, autoSent, clicks>>

(* The next loop of the list: a rule decides it, or a model is asked.      *)
Evaluate(t, l, fact) ==
    /\ eval[t].at = "next" /\ l \in eval[t].todo
    /\ LET v    == Rules(l, eval[t].rows[l], fact)
           rest == [eval[t] EXCEPT !.todo = @ \ {l}, !.loop = l]
           rule == IF eval[t].asked THEN v.check \in HoldsWhenAsked ELSE v.check # "agent"
       IN  IF rule
           THEN /\ Apply(t, l, v)
                /\ eval' = [eval EXCEPT ![t] = IF rest.todo = {} THEN Idle ELSE rest]
           ELSE /\ eval' = [eval EXCEPT ![t] =
                               [rest EXCEPT !.at = IF rest.asked THEN "draft" ELSE "agent"]]
                /\ UNCHANGED <<today, loops, closing, nudges, decided, written, stored, fresh,
                               mail, auto, logged, autoSent, clicks>>
    /\ Taint(If(\E n \in SentFor(l) : ~nudges[n].counted, "late")
             \cup If(/\ eval[t].asked /\ Pending(l) # {}
                     /\ Rules(l, eval[t].rows[l], fact).check \in Masking, "masked"))

(* The follow-up agent answers something other than a nudge, or fails.     *)
AgentDecides(t, check) ==
    /\ eval[t].at = "agent"
    /\ check \in {"wait_until", "escalate", "close_as_stale", "ask_user"}
    /\ LET v == [Verdict(check, IF check = "escalate" THEN Never ELSE NextAfter(today))
                    EXCEPT !.park = (check = "close_as_stale")]
       IN  Apply(t, eval[t].loop, v)
    /\ Done(t)
    /\ Taint(If(Moved(t, eval[t].loop), "moved"))

AgentWantsNudge(t) ==
    /\ eval[t].at = "agent"
    /\ eval' = [eval EXCEPT ![t].at = "draft"]
    /\ UNCHANGED <<today, loops, closing, nudges, decided, written, stored, fresh, mail, auto,
                   logged, autoSent, clicks, taint>>

(* draft_nudge: the second agent's answer becomes an emails row.  It       *)
(* committed the decision when it started, so a death leaves that behind.  *)
DraftNudge(t, n) ==
    LET l == eval[t].loop IN
    /\ eval[t].at = "draft"
    /\ n \in Nudges /\ \A m \in Nudges : (nudges[m].status = "none") <=> (m >= n)
    /\ nudges' = [nudges EXCEPT ![n] = [Blank EXCEPT !.status = "drafted", !.loop = l,
                                                     !.asked = eval[t].asked]]
    /\ loops' = [loops EXCEPT ![l].next = NextAfter(today)]
    /\ Decide(t, l)
    /\ Done(t)
    /\ Taint(If(Moved(t, l), "moved"))
    /\ UNCHANGED <<today, closing, written, stored, fresh, mail, auto, logged, autoSent, clicks>>

DraftFails(t) ==
    /\ eval[t].at = "draft"
    /\ loops' = [loops EXCEPT ![eval[t].loop].next = NextAfter(today)]
    /\ Decide(t, eval[t].loop)
    /\ Done(t)
    /\ UNCHANGED <<today, closing, nudges, written, stored, fresh, mail, auto, logged,
                   autoSent, clicks, taint>>
----------------------------------------------------------------------------
(* The seller's answers about a loop.                                      *)

Answer(l, row) ==
    /\ clicks > 0 /\ loops[l].open
    /\ clicks' = clicks - 1
    /\ loops' = [loops EXCEPT ![l] = row]
    /\ UNCHANGED <<today, nudges, decided, written, stored, fresh, mail, eval, auto,
                   logged, autoSent, taint>>

Snooze(l) == /\ \E d \in (today + 1)..Never : Answer(l, [loops[l] EXCEPT !.next = d])
             /\ UNCHANGED closing
StillOpen(l) == /\ Answer(l, [loops[l] EXCEPT !.next = today, !.heard = written])
                /\ UNCHANGED closing
Close(l) == /\ Answer(l, [loops[l] EXCEPT !.open = FALSE])
            /\ closing' = closing \ {l}

RejectClosing(l) ==
    /\ l \in closing
    /\ closing' = closing \ {l}
    /\ UNCHANGED <<today, loops, nudges, decided, written, stored, fresh, mail, eval, auto,
                   logged, autoSent, clicks, taint>>

----------------------------------------------------------------------------
(* One nudge: the seller's page, and what becomes of an attempt to send.   *)

Unsent == {"drafted", "failed"}

Touch(n, row) ==
    /\ nudges' = [nudges EXCEPT ![n] = row]
    /\ UNCHANGED <<today, loops, closing, decided, written, stored, fresh, eval, auto, logged,
                   autoSent, clicks, taint>>

Outcome(n, status) ==
    [nudges[n] EXCEPT !.status = status, !.sentOn = IF status = "sent" THEN today ELSE Never]

(* approve_and_send, or the settling of an attempt whose answer was lost;  *)
(* a send is announced in the transaction that records it.                 *)
Attempt(n, from, to) ==
    /\ nudges[n].status \in from
    /\ \E status \in to :
          /\ Touch(n, Outcome(n, status))
          /\ mail' = IF status = "sent" THEN mail \cup {n} ELSE mail

SellerSends(n) == Attempt(n, Unsent, {"sent", "sending", "failed", "saved_to_gmail"})
Settle(n) == \/ Attempt(n, {"sending"}, {"sent", "failed", "saved_to_gmail"})
             \/ Attempt(n, {"saved_to_gmail"}, {"sent"})

Edit(n) ==
    /\ nudges[n].status \in Unsent
    /\ nudges' = [nudges EXCEPT ![n].status = "drafted", ![n].fit = FALSE]
    /\ Taint(If(n \in auto.batch, "swapped"))
    /\ UNCHANGED <<today, loops, closing, decided, written, stored, fresh, mail, eval, auto,
                   logged, autoSent, clicks>>

Discard(n) ==
    /\ nudges[n].status \in Unsent
    /\ Touch(n, [nudges[n] EXCEPT !.status = "rejected"])
    /\ UNCHANGED mail

(* A draft that is low risk has sat for hold_minutes.                      *)
Ripen(n) ==
    /\ nudges[n].status = "drafted" /\ ~nudges[n].fit
    /\ Touch(n, [nudges[n] EXCEPT !.fit = TRUE])
    /\ UNCHANGED mail

(* on_email_sent, in the worker.  The event may be handled again.          *)
UncountedSlip(n) == TRUE
Uncounted(n) == ~nudges[n].counted

CountSent(n, again) ==
    /\ Resting(Worker) /\ n \in mail
    /\ mail' = IF again THEN mail ELSE mail \ {n}
    /\ again => Uncounted(n)
    /\ IF Uncounted(n)
       THEN /\ nudges' = [nudges EXCEPT ![n].counted = TRUE]
            /\ LET l == nudges[n].loop
               IN  loops' = [loops EXCEPT ![l] =
                                [loops[l] EXCEPT !.count = loops[l].count + 1,
                                                 !.heard = written,
                                                 !.next = NextAfter(today)]]
       ELSE UNCHANGED <<nudges, loops>>
    /\ UNCHANGED <<today, closing, decided, written, stored, fresh, eval, auto, logged,
                   autoSent, clicks, taint>>

----------------------------------------------------------------------------
(* replies.poll, and the analysis of what it stored.                       *)

BuyerWrites ==
    /\ written < MaxReplies
    /\ written' = written + 1
    /\ UNCHANGED <<today, loops, closing, nudges, decided, stored, fresh, mail, eval, auto,
                   logged, autoSent, clicks, taint>>

(* Only threads of emails we sent are read; message ids are unique.        *)
Poll ==
    /\ \E n \in Nudges : nudges[n].status = "sent"
    /\ stored < written
    /\ stored' = written
    /\ fresh' = fresh \cup (stored + 1)..written
    /\ UNCHANGED <<today, loops, closing, nudges, decided, written, mail, eval, auto, logged,
                   autoSent, clicks, taint>>

(* The quote moves a loop by itself, is parked for the seller, or nothing. *)
Analyze(r, l, effect) ==
    /\ Resting(Worker) /\ r \in fresh
    /\ fresh' = fresh \ {r}
    /\ loops' = IF effect = "applied" THEN [loops EXCEPT ![l].open = FALSE] ELSE loops
    /\ closing' = IF effect = "parked" /\ loops[l].open THEN closing \cup {l} ELSE closing
    /\ UNCHANGED <<today, nudges, decided, written, stored, mail, eval, auto, logged, autoSent,
                   clicks, taint>>

----------------------------------------------------------------------------
(* autosend.run_once.                                                      *)

(* check, in part: the row as the pass read it.                            *)
ChecksOutSlip(n) == nudges[n].status = "drafted"
ChecksOut(n) == nudges[n].status = "drafted" /\ nudges[n].fit

PassStarts ==
    /\ auto.batch = {} /\ ~auto.sent
    /\ auto' = [auto EXCEPT !.batch = {n \in Nudges : ChecksOut(n)}]
    /\ auto' # auto
    /\ UNCHANGED <<today, loops, closing, nudges, decided, written, stored, fresh, mail, eval,
                   logged, autoSent, clicks, taint>>

UnderCapSlip == logged <= Cap
UnderCap == logged < Cap

First(batch) == CHOOSE n \in batch : \A m \in batch : n <= m

(* Sending hours, the policy, or an approval that is refused.              *)
Refuse ==
    /\ auto.batch # {} /\ ~auto.sent
    /\ auto' = [auto EXCEPT !.batch = auto.batch \ {First(auto.batch)}]
    /\ UNCHANGED <<today, loops, closing, nudges, decided, written, stored, fresh, mail, eval,
                   logged, autoSent, clicks, taint>>

(* approve_and_send reads the row again, but looks only at its status and  *)
(* lint.                                                                   *)
AutoSend(n, status) ==
    /\ auto.batch # {} /\ ~auto.sent
    /\ n = First(auto.batch) /\ UnderCap
    /\ nudges[n].status \in Unsent
    /\ nudges' = [nudges EXCEPT ![n] = Outcome(n, status)]
    /\ mail' = IF status = "sent" THEN mail \cup {n} ELSE mail
    /\ auto' = [batch |-> auto.batch \ {n}, sent |-> status = "sent"]
    /\ autoSent' = IF status = "sent" THEN autoSent + 1 ELSE autoSent
    /\ UNCHANGED <<today, loops, closing, decided, written, stored, fresh, eval, logged, clicks,
                   taint>>

LogSent ==
    /\ auto.sent
    /\ logged' = logged + 1
    /\ auto' = [auto EXCEPT !.sent = FALSE]
    /\ UNCHANGED <<today, loops, closing, nudges, decided, written, stored, fresh, mail, eval,
                   autoSent, clicks, taint>>

----------------------------------------------------------------------------
(* The server dies and is restarted; a new day (no run spans midnight).    *)

Dies ==
    /\ auto.batch # {} \/ auto.sent \/ \E t \in Evaluators : ~Resting(t)
    /\ eval' = [t \in Evaluators |-> Idle]
    /\ auto' = [batch |-> {}, sent |-> FALSE]
    /\ Taint(If(auto.sent, "unlogged"))
    /\ decided' = [l \in Loops |->
          decided[l] + Cardinality({t \in Evaluators : /\ eval[t].at = "draft" /\ CountsToday(t)
                                                       /\ eval[t].loop = l})]
    /\ UNCHANGED <<today, loops, closing, nudges, written, stored, fresh, mail, logged,
                   autoSent, clicks>>

NextDay ==
    /\ today < MaxDay
    /\ auto.batch = {} /\ ~auto.sent /\ \A t \in Evaluators : Resting(t)
    /\ today' = today + 1
    /\ decided' = [l \in Loops |-> 0]
    /\ logged' = 0 /\ autoSent' = 0
    /\ UNCHANGED <<loops, closing, nudges, written, stored, fresh, mail, eval, auto, clicks,
                   taint>>

----------------------------------------------------------------------------
Evaluation(t) ==
    \/ EvaluateDue(t)
    \/ \E l \in Loops, fact \in Facts : Evaluate(t, l, fact)
    \/ \E check \in {"wait_until", "escalate", "close_as_stale", "ask_user"} :
          AgentDecides(t, check)
    \/ AgentWantsNudge(t)
    \/ \E n \in Nudges : DraftNudge(t, n)
    \/ DraftFails(t)

Seller ==
    \/ \E l \in Loops : \/ EvaluateOne(l) \/ Snooze(l) \/ StillOpen(l) \/ Close(l)
                        \/ RejectClosing(l)
    \/ \E n \in Nudges : \/ SellerSends(n) \/ Settle(n) \/ Discard(n) \/ Edit(n)

Handling ==
    \/ \E n \in Nudges, again \in BOOLEAN : CountSent(n, again)
    \/ Poll
    \/ \E r \in 1..MaxReplies, l \in Loops, effect \in {"applied", "parked", "nothing"} :
          Analyze(r, l, effect)

AutoSending == \/ PassStarts \/ Refuse \/ LogSent
               \/ \E n \in Nudges, status \in {"sent", "sending", "failed"} : AutoSend(n, status)

Next == \/ \E t \in Evaluators : Evaluation(t)
        \/ Seller \/ Handling \/ AutoSending
        \/ BuyerWrites \/ \E n \in Nudges : Ripen(n)
        \/ Dies \/ NextDay

Spec == Init /\ [][Next]_vars

----------------------------------------------------------------------------
TypeOK ==
    /\ today \in 0..MaxDay
    /\ loops \in [Loops -> Loop]
    /\ closing \subseteq Loops
    /\ nudges \in [Nudges -> Nudge]
    /\ decided \in [Loops -> Nat]
    /\ written \in 0..MaxReplies /\ stored \in 0..written /\ fresh \subseteq 1..stored
    /\ mail \subseteq Nudges
    /\ logged \in Nat /\ autoSent \in Nat /\ clicks \in 0..MaxClicks
    /\ taint \subseteq Races

Short(races) == taint \cap races = {}

(* "a nudge for it is drafted and waiting for his Send": a loop has one    *)
(* nudge waiting at a time, through re-runs, deaths, and nudges asked for  *)
(* while others think, unless two evaluations ran at once, or a reply, a   *)
(* call or the deal's state hid it from the check.                         *)
OnePending ==
    Short({"overlap", "masked"}) => \A l \in Loops : Cardinality(Pending(l)) <= 1

(* follow_up_count is the number of nudges that really went out and were   *)
(* announced: none is counted twice, or lost, when events are handled      *)
(* again.                                                                  *)
CountedOnce ==
    /\ \A l \in Loops : loops[l].count = Cardinality({n \in SentFor(l) : nudges[n].counted})
    /\ \A n \in Nudges : nudges[n].counted => nudges[n].status = "sent"
    /\ \A n \in Nudges : nudges[n].status = "sent" /\ ~nudges[n].counted => n \in mail

(* The limit of follow-ups holds: beyond those the seller asked for, no    *)
(* more than Limit nudges about a loop go out, as long as sends were       *)
(* counted before the next evaluation.                                     *)
LimitHolds ==
    Short({"overlap", "moved", "late"}) =>
        \A l \in Loops : Cardinality({n \in SentFor(l) : ~nudges[n].asked}) <= Limit

(* "Decide every due loop once per day.  Safe to call repeatedly."         *)
DecidedOnce == Short({"overlap"}) => \A l \in Loops : decided[l] <= 1

(* The daily cap bounds what is sent without a click, not only what is     *)
(* logged.                                                                 *)
CapHolds == Short({"unlogged"}) => autoSent <= Cap

(* What goes out without a click has sat for hold_minutes and is low risk, *)
(* as it is when it goes out.                                              *)
AutoSendsHeld ==
    [][autoSent' > autoSent =>
          "swapped" \in taint' \/
          \A n \in Nudges : nudges'[n].status = "sent" /\ nudges[n].status # "sent" =>
              nudges[n].fit]_vars

(* As the module's text says: "checked fresh on each run".                 *)
CheckedFresh ==
    [][autoSent' > autoSent =>
          \A n \in Nudges : nudges'[n].status = "sent" /\ nudges[n].status # "sent" =>
              nudges[n].fit]_vars
=============================================================================
