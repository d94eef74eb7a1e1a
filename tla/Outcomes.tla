------------------------------- MODULE Outcomes -------------------------------
(***************************************************************************)
(* What came of the seller's emails, promises and calls                    *)
(* (learning/outcomes.py, recompute): derived_outcomes is rebuilt from the *)
(* rows of other tables, which keep changing and some of which arrive      *)
(* late.  One deal, one Gmail thread.                                      *)
(*                                                                         *)
(* Times are numbered; every DayLen of them is a day, and the calendar has *)
(* no weekend.  A verdict is 1, 0 or Open, or None while there is no row.  *)
(***************************************************************************)
EXTENDS Integers, Sequences, FiniteSets, FiniteSetsExt

CONSTANTS
    Emails, NoEmail,
    Methods,                \* methodologies
    DayLen,
    ReplyDays, MeetDays,    \* reply_business_days, meeting_within_days
    MaxTime, MaxRuns        \* bounds: the time, the strategist's runs

OutcomesConstants ==
    /\ NoEmail \notin Emails /\ DayLen \in Nat \ {0}
    /\ {ReplyDays, MeetDays, MaxTime, MaxRuns} \subseteq Nat

Never == -1
None == -1  Open == 2

VARIABLES
    now,
    sent,       \* emails.sent_at
    came, replies,  \* when the buyer's replies came; those email_replies has
    meeting,    \* of the deal's calendar: when it was first seen, when it starts
    loop,       \* a promise of the buyer's with a due date
    held,       \* the deal's second call: when, and whether a new buyer was on it
    runs,       \* the strategist's runs: the call, its methodology, what it did to the element
    element,    \* the element's row in each methodology: "absent", "unknown", "known"
    active,     \* the methodology in use
    rows        \* derived_outcomes

facts == <<sent, came, replies, meeting, loop, held, runs, element, active>>
vars == <<now, facts, rows>>

Day(t) == t \div DayLen
Kinds == {"email_replied", "meeting_after_email"}
CallsOf(rs) == {rs[i].call : i \in DOMAIN rs}

Init ==
    /\ now = 0 /\ sent = [e \in Emails |-> Never]
    /\ came = {} /\ replies = {}
    /\ meeting = [seen |-> Never, start |-> Never]
    /\ loop = [status |-> "open", closed |-> Never, due |-> 1]
    /\ held = [at |-> Never, newcomer |-> FALSE] /\ runs = <<>> /\ element = [m \in Methods |-> "absent"] /\ active \in Methods
    /\ rows = [email |-> [k \in Kinds |-> [e \in Emails |-> None]], loop |-> None, call |-> [c \in {1, 2} |-> None]]

----------------------------------------------------------------------------
(* _email_replied: a reply answers the latest email that was out when it   *)
(* came, however late it was fetched.                                      *)
OutSlip(t) == {e \in Emails : sent[e] # Never}
Out(t) == {e \in Emails : sent[e] # Never /\ sent[e] <= t}
Answers(t) ==
    IF Out(t) = {} THEN NoEmail
    ELSE CHOOSE e \in Out(t) : \A f \in Out(t) : sent[f] <= sent[e]

Deadline(e) == Day(sent[e]) + ReplyDays
InTime(e) == {t \in replies : Answers(t) = e /\ t >= sent[e] /\ Day(t) <= Deadline(e)}
Replied(e) ==
    IF sent[e] = Never THEN None
    ELSE IF InTime(e) # {} THEN 1 ELSE IF Day(now) <= Deadline(e) THEN Open ELSE 0

(* _meeting_after_email.                                                   *)
Until(e) == sent[e] + MeetDays * DayLen
Met(e) ==
    IF sent[e] = Never THEN None
    ELSE IF meeting.seen > sent[e] /\ meeting.seen <= Until(e) /\ meeting.start > sent[e] THEN 1
    ELSE IF Day(now) <= Day(Until(e)) THEN Open ELSE 0

(* _loop_on_time.                                                          *)
OnTime ==
    IF loop.status = "done" THEN (IF Day(loop.closed) <= loop.due THEN 1 ELSE 0)
    ELSE IF Day(now) <= loop.due THEN Open ELSE 0

(* _call_advanced, of a deal's second call: somebody new on the buyer's    *)
(* side, a promise of theirs kept by then, or an element that went from    *)
(* unknown to known by a run of this call; a row that a run created counts *)
(* when the run before it used the same methodology.                       *)
SameMethodSlip(i) == TRUE
SameMethod(i) == i > 1 /\ runs[i - 1].method = runs[i].method

Learnt(c) == \E i \in DOMAIN runs : /\ runs[i].call = c
                                    /\ runs[i].did = "changed" \/ (runs[i].did = "created" /\ SameMethod(i))
Advanced(c) ==
    IF c = 1 \/ c \notin CallsOf(runs) THEN None
    ELSE IF held.newcomer \/ Learnt(c) \/ (OnTime = 1 /\ loop.closed <= held.at) THEN 1 ELSE 0

(* recompute, by the learning step or the scheduler.                       *)
Recompute ==
    /\ rows' = [email |-> [k \in Kinds |-> [e \in Emails |->
                             IF k = "email_replied" THEN Replied(e) ELSE Met(e)]],
                loop |-> OnTime, call |-> [c \in {1, 2} |-> Advanced(c)]]
    /\ UNCHANGED <<now, facts>>

----------------------------------------------------------------------------
(* The tables it reads, as the rest of the program writes them.            *)
Passes == now < MaxTime /\ now' = now + 1 /\ UNCHANGED <<facts, rows>>

Send(e) ==
    /\ sent[e] = Never /\ sent' = [sent EXCEPT ![e] = now]
    /\ UNCHANGED <<now, came, replies, meeting, loop, held, runs, element, active, rows>>

(* A reply is there from when it came; the poll fetches it later.          *)
BuyerReplies ==
    /\ \E e \in Emails : sent[e] # Never /\ sent[e] < now
    /\ now \notin came /\ Cardinality(came) < 2 /\ came' = came \cup {now}
    /\ UNCHANGED <<now, sent, replies, meeting, loop, held, runs, element, active, rows>>
Fetches ==
    /\ \E t \in came \ replies : t < now /\ replies' = replies \cup {t}
    /\ UNCHANGED <<now, sent, came, meeting, loop, held, runs, element, active, rows>>

Books ==
    /\ meeting.seen = Never /\ \E s \in now..MaxTime : meeting' = [seen |-> now, start |-> s]
    /\ UNCHANGED <<now, sent, came, replies, loop, held, runs, element, active, rows>>

Closes ==
    /\ loop.status = "open" /\ loop' = [loop EXCEPT !.status = "done", !.closed = now]
    /\ UNCHANGED <<now, sent, came, replies, meeting, held, runs, element, active, rows>>

Holds ==
    /\ held.at = Never /\ runs # <<>>
    /\ \E new \in BOOLEAN : held' = [at |-> now, newcomer |-> new]
    /\ UNCHANGED <<now, sent, came, replies, meeting, loop, runs, element, active, rows>>

(* A run creates the element's row or changes it; the seller may switch.   *)
Strategist(c) ==
    /\ Len(runs) < MaxRuns /\ (runs = <<>> => c = 1) /\ (c = 2 => held.at # Never) /\ (2 \in CallsOf(runs) => c = 2)
    /\ \E status \in {"unknown", "known"} :
        LET old == element[active] IN
        /\ old = "known" => status = "known"
        /\ element' = [element EXCEPT ![active] = status]
        /\ runs' = Append(runs, [call |-> c, method |-> active,
                                 did |-> IF old = status \/ status = "unknown" THEN "nothing"
                                         ELSE IF old = "absent" THEN "created" ELSE "changed"])
    /\ UNCHANGED <<now, sent, came, replies, meeting, loop, held, active, rows>>
Switches ==
    /\ \E m \in Methods \ {active} : active' = m
    /\ UNCHANGED <<now, sent, came, replies, meeting, loop, held, runs, element, rows>>

Next ==
    \/ Recompute \/ Passes \/ BuyerReplies \/ Fetches \/ Books \/ Closes \/ Holds \/ Switches
    \/ (\E e \in Emails : Send(e)) \/ (\E c \in {1, 2} : Strategist(c))
Spec == Init /\ [][Next]_vars

----------------------------------------------------------------------------
Verdicts == {None, Open, 0, 1}

(* What happened is not taken back: a verdict of 1 stays, and one of 0     *)
(* becomes only 1, when a reply that came in time is fetched late.  What   *)
(* is sent, booked or run afterwards changes nothing about it.             *)
Stands(old, new) == (old = 1 => new = 1) /\ (old = 0 => new \in {0, 1})
RowsStand ==
    /\ \A k \in Kinds, e \in Emails : Stands(rows.email[k][e], rows'.email[k][e])
    /\ Stands(rows.loop, rows'.loop)
    /\ \A c \in {1, 2} : Stands(rows.call[c], rows'.call[c])
VerdictsStand == [][RowsStand]_rows

(* Changing the methodology is no progress of the deal: with every element *)
(* read for the first time after a switch, nobody new and no promise kept, *)
(* no call has advanced.                                                   *)
Fresh(i) == i = 1 \/ runs[i - 1].method # runs[i].method
SwitchIsNoAdvance ==
    rows.call[2] = 1 =>
        \/ held.newcomer \/ loop.status = "done"
        \/ \E i \in DOMAIN runs : runs[i].did # "nothing" /\ (~Fresh(i) \/ runs[i].did = "changed")
=============================================================================
