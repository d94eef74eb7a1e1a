-------------------------------- MODULE Intake --------------------------------
(***************************************************************************)
(* How a meeting somebody else recorded becomes a call: the poller of one  *)
(* recorder (sources/__init__.py, poll and poll_one), uploads of the same  *)
(* meetings by hand, the one import path they share (sources/base.py,      *)
(* import_normalized), and the question "which speaker are you?" that      *)
(* holds a call until the seller answers (resolve_speaker).                *)
(*                                                                         *)
(* Several importers run at once: the scheduler's poll, `salescoach        *)
(* sources poll`, request threads.  The look for an existing call, the     *)
(* writing of the raw payload and the transaction that makes the call are  *)
(* three steps; that transaction is one, and so is that of an answer,      *)
(* whose look is another.                                                  *)
(*                                                                         *)
(* An operator named ...Slip is a plausible slip in the code that the      *)
(* operator below it models; the README says which property notices it.    *)
(***************************************************************************)
EXTENDS Integers, FiniteSets

CONSTANTS
    Meetings,       \* the recorder's meetings
    Internal,       \* those that are no sales call: skipped on every poll
    Unlabelled,     \* those whose transcript does not say who the seller is
    Pollers,        \* the scheduler's thread, `salescoach sources poll`
    Threads,        \* web requests: uploads, and answers on the call page
    NoMeeting,
    Overlap,        \* sources.OVERLAP
    Lookback,       \* FIRST_LOOKBACK_DAYS
    Cap,            \* MAX_PER_POLL
    MaxTime         \* bound: ticks of the clock

Importers == Pollers \cup Threads
Kinds     == {"recorder", "upload"}
Kind(p)   == IF p \in Pollers THEN "recorder" ELSE "upload"
Never     == -1
Times     == 0..MaxTime

ASSUME IntakeConstants ==
    /\ Internal \subseteq Meetings /\ Unlabelled \subseteq Meetings
    /\ NoMeeting \notin Meetings
    /\ Pollers \cap Threads = {}
    /\ {Overlap, Lookback, Cap, MaxTime} \subseteq Nat

VARIABLES
    clock,
    started,    \* when each meeting took place
    listed,     \* when the recorder had its transcript
    lastOk,     \* state sources:<kind>:last_ok
    call,       \* the calls row of each source_ref, and its CALL_ENDED
    raw,        \* payloads kept under data/inbox/<kind>/
    known,      \* the seller's label is remembered
    at, job,    \* what each process is doing
    recorded,   \* history: failures that some poll put on record
    horizon,    \* history: how far back the first poll looked
    asked,      \* history: calls held for the question ...
    answered,   \* ... and those the seller answered for
    taint       \* history: a look went stale before its write

seller == <<asked, answered>>
recorder == <<clock, started, listed>>
poll == <<lastOk, recorded, horizon>>
vars == <<recorder, poll, call, raw, known, at, job, seller, taint>>

NoCall == [wf |-> "none", event |-> "no", kind |-> "recorder"]
Idle == [m |-> NoMeeting, todo |-> {}, failed |-> {}, moment |-> 0, since |-> 0, fresh |-> FALSE,
         answer |-> FALSE, hold |-> FALSE, made |-> FALSE]

Init ==
    /\ clock = 0
    /\ started = [m \in Meetings |-> Never] /\ listed = [m \in Meetings |-> Never]
    /\ lastOk = Never /\ recorded = {} /\ horizon = -Lookback
    /\ call = [m \in Meetings |-> NoCall]
    /\ raw = {} /\ known = FALSE
    /\ at = [p \in Importers |-> "idle"] /\ job = [p \in Importers |-> Idle]
    /\ asked = {} /\ answered = {} /\ taint = FALSE

Imported(m) == call[m].wf # "none"

Goto(p, place, new) ==
    /\ at' = [at EXCEPT ![p] = place]
    /\ job' = [job EXCEPT ![p] = new]

----------------------------------------------------------------------------
(* The world and the recorder, which is done with a transcript some time   *)
(* after the meeting.                                                      *)
Tick ==
    /\ clock < MaxTime
    /\ clock' = clock + 1
    /\ UNCHANGED <<started, listed, poll, call, raw, known, at, job, seller, taint>>

Meet(m) ==
    /\ started[m] = Never
    /\ started' = [started EXCEPT ![m] = clock]
    /\ UNCHANGED <<clock, listed, poll, call, raw, known, at, job, seller, taint>>

Transcribed(m) ==
    /\ started[m] # Never /\ listed[m] = Never
    /\ listed' = [listed EXCEPT ![m] = clock]
    /\ UNCHANGED <<clock, started, poll, call, raw, known, at, job, seller, taint>>

----------------------------------------------------------------------------
(* sources.poll: the moment and the window are fixed first.                *)

SinceSlip == IF lastOk = Never THEN clock - Lookback ELSE lastOk
Since == IF lastOk = Never THEN clock - Lookback ELSE lastOk - Overlap

StartPoll(p) ==
    /\ at[p] = "idle"
    /\ Goto(p, "listing", [Idle EXCEPT !.moment = clock, !.since = Since, !.fresh = (lastOk = Never)])
    /\ UNCHANGED <<recorder, poll, call, raw, known, seller, taint>>

(* The adapter lists the window, in the recorder's order; no more than     *)
(* MAX_PER_POLL are looked at, the ones imported already included.         *)
InWindow(p) == {m \in Meetings : listed[m] # Never /\ started[m] >= job[p].since}

List(p, todo) ==
    /\ at[p] = "listing"
    /\ todo \subseteq InWindow(p)
    /\ todo = InWindow(p) \/ Cardinality(todo) = Cap
    /\ Cardinality(todo) <= Cap
    /\ Goto(p, "next", [job[p] EXCEPT !.todo = todo])
    /\ UNCHANGED <<recorder, poll, call, raw, known, seller, taint>>

(* "The LIST worked, so the window moves on."                              *)
FinishPoll(p) ==
    /\ at[p] = "next" /\ job[p].todo = {}
    /\ lastOk' = job[p].moment
    /\ recorded' = recorded \cup job[p].failed
    /\ horizon' = IF job[p].fresh /\ job[p].since > horizon THEN job[p].since ELSE horizon
    /\ Goto(p, "idle", Idle)
    /\ UNCHANGED <<recorder, call, raw, known, seller, taint>>

(* Listing or the last commit raised, or the process died: the window      *)
(* stays where it was.                                                     *)
Dies(p) ==
    /\ at[p] # "idle"
    /\ Goto(p, "idle", Idle)
    /\ UNCHANGED <<recorder, poll, call, raw, known, seller, taint>>

----------------------------------------------------------------------------
(* base.import_normalized.  A poller goes through its list, an upload has  *)
(* one meeting and may come with the answer to the question.               *)

Turn(p, m, answer) ==
    \/ /\ p \in Pollers /\ at[p] = "next"
       /\ m \in job[p].todo /\ ~answer
    \/ p \in Threads /\ at[p] = "idle" /\ listed[m] # Never

(* The meeting is dealt with: a poller goes on to its next one.            *)
After(p, m, failed) ==
    IF p \in Pollers
    THEN Goto(p, "next", [job[p] EXCEPT !.m = NoMeeting, !.todo = @ \ {m}, !.failed = @ \cup failed,
                                        !.hold = FALSE, !.made = FALSE])
    ELSE Goto(p, "idle", Idle)

(* A team meeting, or one that is imported already.                        *)
PassOver(p, m, answer) ==
    /\ Turn(p, m, answer)
    /\ (p \in Pollers /\ m \in Internal) \/ Imported(m)
    /\ ~(answer /\ call[m].wf = "held")
    /\ After(p, m, {})
    /\ UNCHANGED <<recorder, poll, call, raw, known, seller, taint>>

(* Imported again, now with the answer: that answers for the held call.    *)
AnswerAgain(p, m) ==
    /\ Turn(p, m, TRUE)
    /\ call[m].wf = "held"
    /\ Goto(p, "answering", [Idle EXCEPT !.m = m, !.hold = (call[m].wf = "held")])
    /\ UNCHANGED <<recorder, poll, call, raw, known, seller, taint>>

(* map_speakers holds a call when nobody on it is known to be the seller.  *)
Hold(m, answer) == m \in Unlabelled /\ ~known /\ ~answer

Look(p, m, answer) ==
    /\ Turn(p, m, answer)
    /\ ~(p \in Pollers /\ m \in Internal) /\ ~Imported(m)
    /\ Goto(p, "saving", [job[p] EXCEPT !.m = m, !.answer = answer, !.hold = Hold(m, answer)])
    /\ UNCHANGED <<recorder, poll, call, raw, known, seller, taint>>

(* save_raw tells whether this import created the file.                    *)
SaveRaw(p) ==
    LET file == <<Kind(p), job[p].m>> IN
    /\ at[p] = "saving"
    /\ raw' = raw \cup {file}
    /\ Goto(p, "creating", [job[p] EXCEPT !.made = file \notin raw])
    /\ UNCHANGED <<recorder, poll, call, known, seller, taint>>

(* _create: the call, its turns and, unless it is held, its event.         *)
FirstStateSlip(p) == IF job[p].hold THEN "held" ELSE "captured"
FirstState(p) == IF job[p].hold THEN "held" ELSE "diarized"

PublishesSlip(p) == TRUE
Publishes(p) == ~job[p].hold

Create(p) ==
    LET m == job[p].m IN
    /\ at[p] = "creating" /\ ~Imported(m)
    /\ call' = [call EXCEPT ![m] = [wf    |-> FirstState(p),
                                    event |-> IF Publishes(p) THEN "queued" ELSE "no",
                                    kind  |-> Kind(p)]]
    /\ asked' = IF job[p].hold THEN asked \cup {m} ELSE asked
    /\ After(p, m, {})
    /\ UNCHANGED <<recorder, poll, raw, known, answered, taint>>

(* Something raised: the transcript could not be fetched or read, the      *)
(* store was locked, the profile is not set up, or source_ref was there    *)
(* already.  The payload is taken back.                                    *)
TakenBackSlip(p) == {<<Kind(p), job[p].m>>}
TakenBack(p) == IF job[p].made THEN {<<Kind(p), job[p].m>>} ELSE {}

(* Another import relies on the file that this one created.                *)
Shared(p) == \E q \in Importers \ {p} :
                 at[q] = "creating" /\ job[q].m = job[p].m /\ Kind(q) = Kind(p)

Fails(p) ==
    /\ at[p] \in {"saving", "creating"}
    /\ raw' = IF at[p] = "creating" THEN raw \ TakenBack(p) ELSE raw
    /\ taint' = (taint \/ (job[p].made /\ (Imported(job[p].m) \/ Shared(p))))
    /\ After(p, job[p].m, {job[p].m})
    /\ UNCHANGED <<recorder, poll, call, known, seller>>

----------------------------------------------------------------------------
(* base.resolve_speaker: the look at the call ...                          *)
WaitingSlip(m) == Imported(m)
Waiting(m) == call[m].wf = "held"

AnswerLook(p, m) ==
    /\ p \in Threads /\ at[p] = "idle"
    /\ Waiting(m)
    /\ Goto(p, "answering", [Idle EXCEPT !.m = m, !.hold = (call[m].wf = "held")])
    /\ UNCHANGED <<recorder, poll, call, raw, known, seller, taint>>

(* ... and the turns, the state and the event, whose key is used once.     *)
AnswerWrite(p, remember) ==
    LET m == job[p].m IN
    /\ at[p] = "answering"
    /\ call' = [call EXCEPT ![m].wf = "diarized",
                            ![m].event = IF @ = "no" THEN "queued" ELSE @]
    /\ answered' = answered \cup {m}
    /\ known' = (known \/ remember)
    /\ taint' = (taint \/ (job[p].hold /\ call[m].wf # "held"))
    /\ Goto(p, "idle", Idle)
    /\ UNCHANGED <<recorder, poll, raw, asked>>

----------------------------------------------------------------------------
(* The worker handles CALL_ENDED; run_pipeline refuses a held call, and    *)
(* the event is parked after its attempts.                                 *)
Handle(m) ==
    /\ call[m].event = "queued"
    /\ call' = [call EXCEPT ![m].wf = IF @ = "held" THEN @ ELSE "processed",
                            ![m].event = IF call[m].wf = "held" THEN "parked" ELSE "handled"]
    /\ UNCHANGED <<recorder, poll, raw, known, at, job, seller, taint>>

----------------------------------------------------------------------------
PollStep(p) ==
    \/ StartPoll(p) \/ FinishPoll(p)
    \/ \E todo \in SUBSET Meetings : List(p, todo)

ImportStep(p) ==
    \/ \E m \in Meetings, answer \in BOOLEAN : PassOver(p, m, answer) \/ Look(p, m, answer)
    \/ \E m \in Meetings : AnswerAgain(p, m)
    \/ SaveRaw(p) \/ Create(p) \/ Fails(p)

Next ==
    \/ Tick
    \/ \E m \in Meetings : Meet(m) \/ Transcribed(m) \/ Handle(m)
    \/ \E p \in Pollers : PollStep(p)
    \/ \E p \in Importers : ImportStep(p)
    \/ \E p \in Threads, m \in Meetings : AnswerLook(p, m)
    \/ \E p \in Threads, remember \in BOOLEAN : AnswerWrite(p, remember)
    \/ \E p \in Importers : Dies(p)

Spec == Init /\ [][Next]_vars

----------------------------------------------------------------------------
Places  == {"idle", "listing", "next", "saving", "creating", "answering"}
Windows == (-Lookback - Overlap)..MaxTime
Call    == [wf : {"none", "held", "diarized", "processed"},
            event : {"no", "queued", "handled", "parked"}, kind : Kinds]
Job     == [m : Meetings \cup {NoMeeting}, todo : SUBSET Meetings, failed : SUBSET Meetings,
            moment : Times, since : Windows, fresh : BOOLEAN, answer : BOOLEAN,
            hold : BOOLEAN, made : BOOLEAN]

TypeOK ==
    /\ clock \in Times
    /\ started \in [Meetings -> {Never} \cup Times] /\ listed \in [Meetings -> {Never} \cup Times]
    /\ lastOk \in {Never} \cup Times /\ horizon \in Windows
    /\ call \in [Meetings -> Call]
    /\ raw \subseteq Kinds \X Meetings
    /\ at \in [Importers -> Places] /\ job \in [Importers -> Job]
    /\ {recorded, asked, answered} \subseteq SUBSET Meetings
    /\ {known, taint} \subseteq BOOLEAN

Clean == ~taint

(* A meeting the recorder finished within the overlap, and not from before *)
(* the first lookback, ...                                                 *)
OnTime(m) == listed[m] # Never /\ listed[m] <= started[m] + Overlap
Expected(m) == m \notin Internal /\ OnTime(m) /\ started[m] >= horizon

(* ... is in, or its failure was put on record.                            *)
Accounted(m) == Imported(m) \/ m \in recorded

(* "Recorders finish transcripts late; look back past the last poll", and  *)
(* "a meeting that failed is retried while it is still inside OVERLAP, and *)
(* is on record here either way": one that the next poll will not list any *)
(* more has been imported or put on record, whatever failed, died or ran   *)
(* beside it.                                                              *)
NothingMissed ==
    lastOk # Never => \A m \in Meetings :
        Expected(m) => Accounted(m) \/ started[m] >= lastOk - Overlap

(* "A newly enabled recorder brings in the last two days", of the meetings *)
(* it had when the first poll began.                                       *)
LastTwoDays ==
    lastOk # Never => \A m \in Meetings :
        Expected(m) /\ listed[m] < horizon + Lookback =>
            Accounted(m) \/ started[m] >= lastOk - Overlap

(* "What arrived, before anything interpreted it": the payload of a call   *)
(* is kept, also when another import of it fails.                          *)
RawKept == Clean => \A m \in Meetings : Imported(m) => <<call[m].kind, m>> \in raw

(* "Nothing is processed until then": a call the coach asked about waits   *)
(* for the answer, and no event of it is spent meanwhile.                  *)
AskedWaits == \A m \in asked \ answered : call[m].wf = "held" /\ call[m].event = "no"

(* "Only now does the pipeline start": a call ready for the pipeline has   *)
(* its event waiting, and one that went on is not taken back to its start. *)
ReadyIsQueued == Clean => \A m \in Meetings : call[m].wf = "diarized" <=> call[m].event = "queued"

(* The seller's answer decides what becomes of an imported call, and what  *)
(* arrived is kept whatever it is.                                         *)
AnswersHold == RawKept /\ AskedWaits /\ ReadyIsQueued
=============================================================================
