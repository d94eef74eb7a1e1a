------------------------------ MODULE MCCalendar ------------------------------
(* An instance of Calendar for TLC, beside a LiveCapture at rest: the      *)
(* recorder starts its calls, and Calendar says of them only whether one   *)
(* is live.                                                                *)
EXTENDS LiveCapture, TLC

CONSTANTS Meetings, NoMeeting, Syncers, Recorder, Click, Starts, Duration, Lead, Grace, Back,
          Ahead, MaxTime, MaxCalls, MaxMoves, MaxClicks, MaxEdits, Answers, Scheduling

VARIABLES now, agenda, moves, rows, sync, start, live, calls, wanted, vanished, clicks,
          email, fill, offered, taint

Cal == INSTANCE Calendar WITH None <- NoMeeting
ASSUME InstanceConstants == Cal!CalendarConstants

CalendarSpec == /\ Init /\ Cal!Init
                /\ [][Cal!Next /\ UNCHANGED vars]_<<Cal!vars, vars>>
                /\ Cal!Fairness

(* Quarters of an hour from 10:00: half-hour meetings on a half-hour grid, *)
(* a quarter's buffer, a time to avoid in the middle of the day.           *)
DayRules == [grid |-> 2, opens |-> 1, closes |-> 10, length |-> 2, buffer |-> 1, notBefore |-> 3,
             avoid |-> {[s |-> 6, e |-> 8]}, days |-> <<2, 1, 3>>, want |-> 2,
             anchors |-> <<2, 8>>]

Event(day, s, e, kind) == [day |-> day, s |-> s, e |-> e, kind |-> kind]
SomeEvents == {Event(1, 0, 7, "meeting"), Event(2, 2, 3, "meeting"), Event(2, 5, 9, "meeting"),
               Event(2, 1, 10, "declined"), Event(3, 0, 40, "out of office all day"),
               Event(1, 7, 8, "meeting")}
SomeAnswers == SUBSET SomeEvents

(* Recording and drafting share nothing: while a draft is filled, nothing  *)
(* is recorded.                                                            *)
Apart == \/ Cal!drafting = <<[status |-> "drafted", text |-> 0, marker |-> TRUE],
                         [at |-> "idle", text |-> 0], [events |-> {}, slots |-> {}]>>
         \/ /\ now = 0 /\ moves = MaxMoves /\ \A s \in Syncers : sync[s] = Cal!NoRead
            /\ calls = <<>> /\ \A m \in Meetings : ~rows[m].stored
(* At most one kind of race in a behaviour.                                *)
OneRace == Cardinality(taint) <= 1

----------------------------------------------------------------------------
(* A meeting he armed stays armed, is recorded, or says why it is not; and *)
(* it is recorded once, unless one of the races has happened.              *)
ArmedIsRecorded == Cal!ArmedIsRecorded

(* What a draft offers is free, one time a day, as many as there are.      *)
SlotsAreFree == Cal!SlotsAreFree

(* The recording of a meeting does not run on for ever.                    *)
StopsItself == Cal!StopsItself
=============================================================================
