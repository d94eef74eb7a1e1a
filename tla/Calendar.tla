------------------------------- MODULE Calendar -------------------------------
(***************************************************************************)
(* The seller's calendar (salescoach/automation/calendar.py): meetings are *)
(* copied from Google Calendar, some are armed for recording, the recorder *)
(* duty starts and stops their recordings, and [SLOTS] in a draft is       *)
(* replaced by times that are free.                                        *)
(*                                                                         *)
(* The calendar duty and the worker may both be copying, the recorder and  *)
(* a click may both be starting a call; reading the calendar and starting  *)
(* a call take long and are steps of their own.  LiveCapture models what a *)
(* call is; here one is live or none is.                                   *)
(***************************************************************************)
EXTENDS Integers, Sequences, FiniteSets

CONSTANTS
    Meetings, None,
    Syncers,        \* threads that copy the calendar: the duty, the worker
    Recorder, Click,    \* what starts a recording: the duty, the button "now"
    Starts,         \* when meetings may start
    Duration, Lead, Grace,      \* record.lead_minutes, record.grace_minutes
    Back, Ahead,    \* the window that is read: two hours back, upcoming_days ahead
    MaxTime, MaxCalls, MaxMoves, MaxClicks, MaxEdits,     \* bounds
    Answers,        \* what reading the calendar for slots may return: sets of events
    Scheduling      \* config/scheduling.yaml

Starters == {Recorder, Click}

(* config/scheduling.yaml as it is meant, and events that end after they   *)
(* start.  No day comes twice among the business days.                     *)
SchedulingConstants ==
    /\ {Scheduling.grid, Scheduling.length} \subseteq Nat \ {0}
    /\ {Scheduling.opens, Scheduling.closes, Scheduling.buffer, Scheduling.notBefore, Scheduling.want} \subseteq Nat
    /\ Scheduling.days \in Seq(Nat) /\ Scheduling.anchors \in Seq(Nat) \ {<<>>}
    /\ \A i, j \in DOMAIN Scheduling.days : Scheduling.days[i] = Scheduling.days[j] => i = j
    /\ \A a \in Scheduling.avoid : {a.s, a.e} \subseteq Int /\ a.s < a.e
    /\ \A events \in Answers : \A e \in events : {e.s, e.e} \subseteq Int /\ e.s < e.e

CalendarConstants ==
    /\ None \notin Meetings /\ Recorder # Click
    /\ {Duration, Lead, Grace, Back, Ahead, MaxTime, MaxCalls, MaxMoves, MaxClicks, MaxEdits}
           \subseteq Nat
    /\ Duration > 0 /\ Starts \subseteq 0..MaxTime
    /\ SchedulingConstants

VARIABLES
    now,
    agenda,     \* external: when each meeting starts; None: not on the calendar
    moves,      \* what is left of MaxMoves
    rows,       \* the calendar_meetings rows
    sync,       \* each syncer: the window and the events it has read
    start,      \* each starter: how far it is
    live,       \* the live call, 0 for none
    calls,      \* the meeting each call records, or None
    wanted,     \* history: armed by the seller and not disarmed
    vanished,   \* history: since it was armed, a copy came that had not found it
    clicks,     \* what is left of MaxClicks
    email,      \* a draft with the marker
    fill,       \* a fill_slots that waits for the calendar: the text it read
    offered,    \* history: the answer it got last, and the slots it made of it
    taint       \* history: the races that have happened

recording == <<now, agenda, moves, rows, sync, start, live, calls, wanted,
               vanished, clicks, taint>>
drafting  == <<email, fill, offered>>
vars == <<recording, drafting>>

Races == {"started twice", "unlinked"}
Taint(s) == taint' = taint \cup s
If(b, race) == IF b THEN {race} ELSE {}
Short(races) == taint \cap races = {}

NoRow == [stored |-> FALSE, start |-> 0, record |-> FALSE, call |-> 0, error |-> FALSE]
Resting == [at |-> "idle", todo |-> {}, meeting |-> None]
NoRead  == [at |-> "idle", from |-> 0, events |-> [m \in Meetings |-> None]]

Init ==
    /\ now = 0 /\ moves = MaxMoves /\ clicks = MaxClicks
    /\ agenda \in [Meetings -> Starts]
    /\ rows = [m \in Meetings |-> NoRow]
    /\ sync = [s \in Syncers |-> NoRead]
    /\ start = [w \in Starters |-> Resting]
    /\ live = 0 /\ calls = <<>>
    /\ wanted = {} /\ vanished = {} /\ taint = {}
    /\ email = [status |-> "drafted", text |-> 0, marker |-> TRUE]
    /\ fill = [at |-> "idle", text |-> 0]
    /\ offered = [events |-> {}, slots |-> {}]

----------------------------------------------------------------------------
(* sync_events.                                                            *)

InWindow(t, from) == from - Back <= t /\ t <= from + Ahead

SyncReads(s) ==
    /\ sync[s].at = "idle"
    /\ LET events == [m \in Meetings |->
               IF agenda[m] # None /\ InWindow(agenda[m], now) THEN agenda[m] ELSE None]
       IN  /\ sync' = [sync EXCEPT ![s] = [at |-> "read", from |-> now, events |-> events]]
           /\ vanished' = vanished \cup {m \in Meetings : events[m] = None}
    /\ UNCHANGED <<now, agenda, moves, rows, start, live, calls, wanted,
                   clicks, taint>>

(* The connector does not answer, or not with a list of events.            *)
SyncFails(s) ==
    /\ sync[s].at = "read"
    /\ sync' = [sync EXCEPT ![s] = NoRead]
    /\ UNCHANGED <<now, agenda, moves, rows, start, live, calls, wanted,
                   vanished, clicks, taint>>

UpsertedSlip(row, t) == [NoRow EXCEPT !.stored = TRUE, !.start = t, !.call = row.call]
Upserted(row, t) == [row EXCEPT !.stored = TRUE, !.start = t]

Drops(m, s) == rows[m].stored /\ rows[m].call = 0 /\ InWindow(rows[m].start, sync[s].from)

SyncWrites(s) ==
    /\ sync[s].at = "read"
    /\ LET found == {m \in Meetings : sync[s].events[m] # None}
           gone  == {m \in Meetings \ found : Drops(m, s)}
       IN  /\ rows' = [m \in Meetings |->
                  IF m \in found THEN Upserted(rows[m], sync[s].events[m])
                  ELSE IF m \in gone THEN NoRow ELSE rows[m]]
           /\ Taint(If(\E w \in Starters : start[w].meeting \in gone, "unlinked"))
    /\ sync' = [sync EXCEPT ![s] = NoRead]
    /\ UNCHANGED <<now, agenda, moves, start, live, calls, wanted, vanished, clicks>>

----------------------------------------------------------------------------
(* Arming, and starting a recording: start_recording checks the row,       *)
(* starts the call, and writes the call's id into the row.                 *)

SetRecord(m, on) ==
    /\ rows[m].stored /\ clicks > 0
    /\ clicks' = clicks - 1
    /\ rows' = [rows EXCEPT ![m].record = on, ![m].error = FALSE]
    /\ wanted' = IF on THEN wanted \cup {m} ELSE wanted \ {m}
    /\ vanished' = IF \E s \in Syncers : sync[s].at = "read" /\ sync[s].events[m] = None
                   THEN vanished ELSE vanished \ {m}
    /\ UNCHANGED <<now, agenda, moves, sync, start, live, calls, taint>>

RecordableSlip(m) == rows[m].stored
Recordable(m) == rows[m].stored /\ rows[m].call = 0

(* The failure stays on the row; the duty also disarms it.                 *)
Failed(who, m) ==
    IF rows[m].stored
    THEN [rows EXCEPT ![m].error = TRUE, ![m].record = @ /\ who # Recorder]
    ELSE rows

Earliest(ms) == CHOOSE m \in ms : \A k \in ms : rows[m].start <= rows[k].start
AfterFailure(todo) == IF todo = {} THEN Resting ELSE [Resting EXCEPT !.at = "due", !.todo = todo]

Begins(who, m) ==
    /\ IF Recordable(m)
       THEN /\ start' = [start EXCEPT ![who] = [at |-> "starting", meeting |-> m,
                                                 todo |-> start[who].todo \ {m}]]
            /\ UNCHANGED rows
            /\ Taint(If(\E w \in Starters : start[w].meeting = m, "started twice"))
       ELSE /\ start' = [start EXCEPT ![who] = AfterFailure(@.todo \ {m})]
            /\ rows' = IF who = Recorder THEN Failed(who, m) ELSE rows
            /\ UNCHANGED taint

ClickNow(m) ==
    /\ start[Click].at = "idle" /\ rows[m].stored /\ clicks > 0
    /\ clicks' = clicks - 1
    /\ Begins(Click, m)
    /\ UNCHANGED <<now, agenda, moves, sync, live, calls, wanted, vanished>>

DueNow ==
    /\ start[Recorder].at = "due"
    /\ Begins(Recorder, Earliest(start[Recorder].todo))
    /\ UNCHANGED <<now, agenda, moves, sync, live, calls, wanted, vanished,
                   clicks>>

StartCall(who, works) ==
    /\ start[who].at = "starting"
    /\ works => live = 0 /\ Len(calls) < MaxCalls
    /\ IF works
       THEN /\ calls' = Append(calls, start[who].meeting)
            /\ live' = Len(calls) + 1
            /\ start' = [start EXCEPT ![who].at = "linking"]
            /\ UNCHANGED rows
       ELSE /\ rows' = Failed(who, start[who].meeting)
            /\ start' = [start EXCEPT ![who] = AfterFailure(@.todo)]
            /\ UNCHANGED <<calls, live>>
    /\ UNCHANGED <<now, agenda, moves, sync, wanted, vanished, clicks, taint>>

CallOf(m) == CHOOSE c \in DOMAIN calls : /\ calls[c] = m
                                         /\ \A k \in DOMAIN calls : calls[k] = m => k <= c

LinkCall(who) ==
    /\ start[who].at = "linking"
    /\ LET m == start[who].meeting IN
       rows' = IF rows[m].stored
               THEN [rows EXCEPT ![m].call = CallOf(m), ![m].error = FALSE] ELSE rows
    /\ start' = [start EXCEPT ![who] = Resting]
    /\ UNCHANGED <<now, agenda, moves, sync, live, calls, wanted, vanished,
                   clicks, taint>>

(* recorder_tick: stop what has been over for the grace period, give up    *)
(* what is over, and turn to what is due unless a call is live.            *)
OverSlip(m) == now > rows[m].start + Duration + Grace
Over(m) == now >= rows[m].start + Duration + Grace
Armed(m) == rows[m].stored /\ rows[m].record /\ rows[m].call = 0

Tick ==
    /\ start[Recorder].at = "idle"
    /\ LET stop   == live # 0 /\ \E m \in Meetings : rows[m].call = live /\ Over(m)
           missed == {m \in Meetings : Armed(m) /\ now >= rows[m].start + Duration}
           due    == {m \in Meetings : Armed(m) /\ now >= rows[m].start - Lead} \ missed
       IN  /\ stop \/ missed # {} \/ (due # {} /\ live = 0)
           /\ live' = IF stop THEN 0 ELSE live
           /\ rows' = [m \in Meetings |->
                  IF m \in missed THEN [rows[m] EXCEPT !.record = FALSE, !.error = TRUE]
                  ELSE rows[m]]
           /\ start' = [start EXCEPT ![Recorder] =
                           IF live' = 0 THEN AfterFailure(due) ELSE Resting]
    /\ UNCHANGED <<now, agenda, moves, sync, calls, wanted, vanished, clicks,
                   taint>>

----------------------------------------------------------------------------
(* The rest of the world: the live page, the calendar, the clock, a death. *)

OtherCall ==
    /\ live = 0 /\ Len(calls) < MaxCalls
    /\ calls' = Append(calls, None)
    /\ live' = Len(calls) + 1
    /\ UNCHANGED <<now, agenda, moves, rows, sync, start, wanted, vanished,
                   clicks, taint>>

StopCall ==
    /\ live # 0
    /\ live' = 0
    /\ UNCHANGED <<now, agenda, moves, rows, sync, start, calls, wanted,
                   vanished, clicks, taint>>

Reschedule(m, t) ==
    /\ moves > 0 /\ agenda[m] # t
    /\ moves' = moves - 1
    /\ agenda' = [agenda EXCEPT ![m] = t]
    /\ UNCHANGED <<now, rows, sync, start, live, calls, wanted, vanished,
                   clicks, taint>>

Pass ==
    /\ now < MaxTime
    /\ now' = now + 1
    /\ UNCHANGED <<agenda, moves, rows, sync, start, live, calls, wanted,
                   vanished, clicks, taint>>

Dies ==
    /\ \/ \E s \in Syncers : sync[s].at # "idle"
       \/ \E w \in Starters : start[w].at # "idle"
    /\ sync' = [s \in Syncers |-> NoRead]
    /\ start' = [w \in Starters |-> Resting]
    /\ live' = 0
    /\ Taint(If(\E w \in Starters : start[w].at = "linking", "unlinked"))
    /\ UNCHANGED <<now, agenda, moves, rows, calls, wanted, vanished, clicks>>

----------------------------------------------------------------------------
(* compute_slots.  A day is counted in quarters of an hour, of which one   *)
(* grid step is several; days are the business days from the first that    *)
(* the notice allows.                                                      *)

OverlapsSlip(a, b) == a.s <= b.s /\ b.s < a.e
Overlaps(a, b) == a.s < b.e /\ b.s < a.e

(* busy_intervals: what would really block him.                            *)
Blocks(e) == e.kind \in {"meeting", "out of office all day"}
Busy(events, day) == {[s |-> e.s - Scheduling.buffer, e |-> e.e + Scheduling.buffer] :
                         e \in {x \in events : x.day = day /\ Blocks(x)}}

Span(t) == [s |-> t, e |-> t + Scheduling.length]
OnGrid(t) == t % Scheduling.grid = 0 /\ t >= Scheduling.opens /\ t + Scheduling.length <= Scheduling.closes

Free(events, day) ==
    {t \in 0..Scheduling.closes :
        /\ OnGrid(t) /\ (day = 1 => t > Scheduling.notBefore)
        /\ \A a \in Scheduling.avoid : ~Overlaps(Span(t), a)
        /\ \A b \in Busy(events, day) : ~Overlaps(Span(t), b)}

Distance(a, b) == IF a >= b THEN a - b ELSE b - a
Nearest(ts, anchor) ==
    CHOOSE t \in ts : \A u \in ts : \/ Distance(t, anchor) < Distance(u, anchor)
                                    \/ Distance(t, anchor) = Distance(u, anchor) /\ t <= u

(* One slot a day, preferred days first: the n-th that has a free time     *)
(* takes the n-th anchor, in turn.                                         *)
Open(events) == {i \in DOMAIN Scheduling.days : Free(events, Scheduling.days[i]) # {}}
Turn(open, i) == Cardinality({k \in open : k <= i})
Anchor(n) == Scheduling.anchors[((n - 1) % Len(Scheduling.anchors)) + 1]
Slot(events, i) ==
    [day |-> Scheduling.days[i],
     at  |-> Nearest(Free(events, Scheduling.days[i]), Anchor(Turn(Open(events), i)))]
ComputeSlots(events) ==
    {Slot(events, i) : i \in {k \in Open(events) : Turn(Open(events), k) <= Scheduling.want}}

FillReads ==
    /\ fill.at = "idle" /\ email.status = "drafted" /\ email.marker
    /\ fill' = [at |-> "reading", text |-> email.text]
    /\ UNCHANGED <<recording, email, offered>>

Editable == email.status = "drafted"

(* With two free times the marker goes, in the text as it was read.        *)
FillWrites(events) ==
    /\ fill.at = "reading"
    /\ offered' = [events |-> events, slots |-> ComputeSlots(events)]
    /\ email' = IF Cardinality(ComputeSlots(events)) >= 2 /\ Editable
                THEN [email EXCEPT !.text = fill.text, !.marker = FALSE] ELSE email
    /\ fill' = [fill EXCEPT !.at = "idle"]
    /\ UNCHANGED recording

FillFails ==
    /\ fill.at = "reading"
    /\ fill' = [fill EXCEPT !.at = "idle"]
    /\ UNCHANGED <<recording, email, offered>>

EditDraft(keeps) ==
    /\ email.status = "drafted" /\ email.text < MaxEdits
    /\ email' = [email EXCEPT !.text = @ + 1, !.marker = keeps]
    /\ UNCHANGED <<recording, fill, offered>>

SendDraft ==
    /\ email.status = "drafted" /\ ~email.marker
    /\ email' = [email EXCEPT !.status = "sent"]
    /\ UNCHANGED <<recording, fill, offered>>

----------------------------------------------------------------------------
Syncing(s) == SyncReads(s) \/ SyncWrites(s) \/ SyncFails(s)
Starting(w) == (\E works \in BOOLEAN : StartCall(w, works)) \/ LinkCall(w)

Copying   == \E s \in Syncers : Syncing(s)
Recording == Tick \/ DueNow \/ \E w \in Starters : Starting(w)
Seller    == \/ \E m \in Meetings : ClickNow(m) \/ \E on \in BOOLEAN : SetRecord(m, on)
             \/ OtherCall \/ StopCall
World     == Pass \/ Dies \/ \E m \in Meetings, t \in Starts \cup {None} : Reschedule(m, t)
Filling   == \/ FillReads \/ FillFails \/ \E events \in Answers : FillWrites(events)
             \/ \E keeps \in BOOLEAN : EditDraft(keeps)
             \/ SendDraft

Next == \/ (Copying \/ Recording \/ Seller \/ World) /\ UNCHANGED drafting
        \/ Filling

(* The duty runs every few seconds and a started call is linked or fails;  *)
(* time goes on.                                                           *)
Fairness == /\ WF_vars(Tick /\ UNCHANGED drafting)
            /\ WF_vars(DueNow /\ UNCHANGED drafting)
            /\ \A w \in Starters : WF_vars(Starting(w) /\ UNCHANGED drafting)
            /\ WF_vars(Pass /\ UNCHANGED drafting)

Spec == Init /\ [][Next]_vars /\ Fairness

----------------------------------------------------------------------------
TypeOK ==
    /\ now \in 0..MaxTime /\ agenda \in [Meetings -> Starts \cup {None}]
    /\ \A m \in Meetings : /\ rows[m].start \in Starts \cup {0}
                           /\ rows[m].call \in 0..Len(calls)
    /\ live \in 0..Len(calls) /\ Len(calls) <= MaxCalls
    /\ taint \subseteq Races

(* A meeting he armed is still armed, recorded, or says why it is not; it  *)
(* is never quietly disarmed by the copies that refresh its row, unless    *)
(* one of them had not found it on the calendar.                           *)
ArmedIsKept ==
    \A m \in wanted \ vanished :
        /\ rows[m].stored
        /\ rows[m].record \/ rows[m].call # 0 \/ rows[m].error

(* A meeting is recorded once, however the duty, clicks, stops and copies  *)
(* interleave, unless a second start overtook the first or its link was    *)
(* lost.                                                                   *)
RecordedOnce ==
    Short({"started twice", "unlinked"}) =>
        \A c, d \in DOMAIN calls : calls[c] = calls[d] /\ calls[c] # None => c = d

(* What he armed is recorded, and once.                                    *)
ArmedIsRecorded == ArmedIsKept /\ RecordedOnce

(* The recording of a meeting does not run on for ever.                    *)
StopsItself ==
    \A m \in Meetings, c \in 1..MaxCalls :
        (live = c /\ rows[m].call = c) ~> (live # c)

(* What fill_slots offers, quarter by quarter: inside working hours, never *)
(* in a time to avoid, with the buffer free on both sides, one a day; and  *)
(* it gives up only when fewer than two days have such a time.             *)
Taken(events, day, q) == \E e \in events : e.day = day /\ Blocks(e) /\ e.s <= q /\ q < e.e
Fits(events, day, t) ==
    /\ t % Scheduling.grid = 0 /\ Scheduling.opens <= t /\ t + Scheduling.length <= Scheduling.closes
    /\ day = 1 => t > Scheduling.notBefore
    /\ \A q \in t..(t + Scheduling.length - 1), a \in Scheduling.avoid : ~(a.s <= q /\ q < a.e)
    /\ \A q \in (t - Scheduling.buffer)..(t + Scheduling.length + Scheduling.buffer - 1) : ~Taken(events, day, q)

SlotsAreFree ==
    LET e == offered.events
        days == {d \in {Scheduling.days[i] : i \in DOMAIN Scheduling.days} :
                    \E t \in 0..Scheduling.closes : Fits(e, d, t)}
    IN  /\ \A s \in offered.slots : Fits(e, s.day, s.at)
        /\ \A s, u \in offered.slots : s.day = u.day => s = u
        /\ offered # [events |-> {}, slots |-> {}] =>
               Cardinality(offered.slots) = IF Cardinality(days) < Scheduling.want
                                            THEN Cardinality(days) ELSE Scheduling.want
=============================================================================
