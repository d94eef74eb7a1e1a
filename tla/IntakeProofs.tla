---------------------------- MODULE IntakeProofs ----------------------------
(* Theorems about Intake, for every number of meetings, pollers and        *)
(* requests, and any overlap and lookback; and about the watched folder    *)
(* (Folder) and the opening of the store (Store), for any readers, names,  *)
(* files, rows and openers.                                                *)
EXTENDS MCIntake, Sequences, FiniteSetTheorems, TLAPS

USE DEF Never

(* Whoever is importing or answering has a meeting to do it for.           *)
HasMeeting == \A p \in Importers : at[p] \in {"saving", "creating", "answering"} => job[p].m \in Meetings

(* Nothing on record lies in the future, and a transcript has a meeting.   *)
Past ==
    /\ \A m \in Meetings : listed[m] # Never => started[m] # Never
    /\ lastOk <= clock
    /\ \A p \in Importers : job[p].moment <= clock

(* Every meeting expected from before time w is accounted for.             *)
Settled(w) == \A m \in Meetings : Expected(m) => Accounted(m) \/ started[m] >= w

(* A poll that listed without a first lookback begins where the last one   *)
(* had settled everything before.                                          *)
Listing(p) ==
    ~job[p].fresh => Settled(job[p].since) /\ job[p].since <= clock - Overlap

(* What a poll's window held is imported, has failed, or is on its list    *)
(* still.                                                                  *)
Going(p) ==
    \A m \in Meetings :
        Expected(m) /\ (job[p].fresh => started[m] >= job[p].since) =>
            \/ Accounted(m) \/ m \in job[p].failed \/ m \in job[p].todo
            \/ started[m] >= job[p].moment - Overlap

Polling ==
    \A p \in Pollers :
        /\ at[p] = "listing" => Listing(p)
        /\ at[p] \in {"next", "saving", "creating"} => Going(p)
        /\ at[p] # "answering"

IInv == TypeOK /\ HasMeeting /\ Past /\ NothingMissed /\ Polling

(* No list of a poll is cut short: a full one is everything there is.      *)
Roomy == \A todo \in SUBSET Meetings : Cardinality(todo) = Cap => todo = Meetings

----------------------------------------------------------------------------
(* The updates the actions make keep a job a job.                          *)
LEMMA JobUpdates ==
  ASSUME NEW j \in Job
  PROVE  /\ Idle \in Job
         /\ \A t \in Times, s \in Windows, f \in BOOLEAN :
                [Idle EXCEPT !.moment = t, !.since = s, !.fresh = f] \in Job
         /\ \A todo \in SUBSET Meetings : [j EXCEPT !.todo = todo] \in Job
         /\ \A m \in Meetings, b \in BOOLEAN : [Idle EXCEPT !.m = m, !.hold = b] \in Job
         /\ \A m \in Meetings, a, b \in BOOLEAN : [j EXCEPT !.m = m, !.answer = a, !.hold = b] \in Job
         /\ \A b \in BOOLEAN : [j EXCEPT !.made = b] \in Job
         /\ \A m, failed \in SUBSET Meetings :
                [j EXCEPT !.m = NoMeeting, !.todo = @ \ m, !.failed = @ \cup failed,
                          !.hold = FALSE, !.made = FALSE] \in Job
<1>1. 0 \in Times /\ 0 \in Windows
  BY IntakeConstants DEF Times, Windows
<1>2. Idle \in Job
  BY <1>1 DEF Idle, Job
<1> QED
  BY <1>1, <1>2 DEF Idle, Job

LEMMA InitIInv == Init => IInv
<1> SUFFICES ASSUME Init PROVE IInv
  OBVIOUS
<1>1. Idle \in Job /\ 0 \in Times /\ -Lookback \in Windows
  BY IntakeConstants DEF Idle, Job, Times, Windows
<1>2. NoCall \in Call
  BY DEF NoCall, Call, Kinds
<1>3. TypeOK
  BY <1>1, <1>2 DEF Init, TypeOK, Places, Times
<1>4. HasMeeting /\ Polling
  BY DEF Init, HasMeeting, Polling, Importers
<1>5. Past
  <2>1. Idle.moment = 0
    BY DEF Idle
  <2> QED
    BY <2>1 DEF Init, Past
<1>6. NothingMissed
  BY DEF Init, NothingMissed
<1> QED
  BY <1>3, <1>4, <1>5, <1>6 DEF IInv

(* A process changes its place and its job, and nobody else's.             *)
LEMMA GotoKeeps ==
  ASSUME TypeOK, HasMeeting, NEW p \in Importers, NEW place \in Places, NEW new \in Job,
         Goto(p, place, new),
         place \in {"saving", "creating", "answering"} => new.m \in Meetings
  PROVE  /\ at' \in [Importers -> Places] /\ job' \in [Importers -> Job]
         /\ HasMeeting'
         /\ at'[p] = place /\ job'[p] = new
         /\ \A q \in Importers \ {p} : at'[q] = at[q] /\ job'[q] = job[q]
BY DEF Goto, TypeOK, HasMeeting

----------------------------------------------------------------------------
(* Time and the recorder stand still, and what is accounted for stays so.  *)
Grows ==
    /\ UNCHANGED recorder
    /\ recorded \subseteq recorded' /\ horizon <= horizon'
    /\ \A m \in Meetings : Imported(m) => Imported(m)'

LEMMA SettledStays ==
  ASSUME TypeOK, TypeOK', Grows, NEW w \in Int, Settled(w)
  PROVE  Settled(w)'
<1> SUFFICES ASSUME NEW m \in Meetings, Expected(m)', ~(started[m] >= w)
             PROVE  Accounted(m)'
  BY DEF Settled, Grows, recorder
<1>1. Expected(m)
  <2>1. {started[m], horizon, horizon'} \subseteq Int
    BY IntakeConstants DEF TypeOK, Windows, Times
  <2> QED
    BY <2>1 DEF Expected, OnTime, Grows, recorder
<1> QED
  BY <1>1 DEF Settled, Grows, Accounted

LEMMA PollerStays ==
  ASSUME TypeOK, TypeOK', Polling, Grows,
         NEW q \in Pollers, at'[q] = at[q], job'[q] = job[q]
  PROVE  /\ at'[q] = "listing" => Listing(q)'
         /\ at'[q] \in {"next", "saving", "creating"} => Going(q)'
         /\ at'[q] # "answering"
<1>0. q \in Importers /\ job[q] \in Job /\ job[q].since \in Int
  BY IntakeConstants DEF Importers, TypeOK, Job, Windows, Times
<1>1. ASSUME at[q] = "listing" PROVE Listing(q)'
  BY <1>0, <1>1, SettledStays DEF Polling, Listing, Grows, recorder
<1>2. ASSUME at[q] \in {"next", "saving", "creating"} PROVE Going(q)'
  <2>1. \A m \in Meetings : /\ Expected(m)' => Expected(m)
                            /\ Accounted(m) => Accounted(m)'
    <3>1. \A m \in Meetings : {started[m], horizon, horizon'} \subseteq Int
      BY IntakeConstants DEF TypeOK, Windows, Times
    <3> QED
      BY <3>1 DEF Expected, OnTime, Grows, recorder, Accounted
  <2> QED
    BY <1>2, <2>1 DEF Polling, Going, Grows, recorder
<1> QED
  BY <1>1, <1>2 DEF Polling

LEMMA MissedStays ==
  ASSUME IInv, TypeOK', Grows, lastOk' = lastOk
  PROVE  NothingMissed'
<1>1. lastOk - Overlap \in Int
  BY IntakeConstants DEF IInv, TypeOK, Times
<1>2. CASE lastOk = Never
  BY <1>2 DEF NothingMissed
<1>3. CASE lastOk # Never
  <2>1. Settled(lastOk - Overlap)
    BY <1>3 DEF IInv, NothingMissed, Settled
  <2>2. Settled(lastOk - Overlap)'
    <3> DEFINE w == lastOk - Overlap
    <3>1. w \in Int /\ Settled(w)
      BY <1>1, <2>1
    <3>2. w' = w
      OBVIOUS
    <3>3. \A v \in Int : Settled(v) => Settled(v)'
      BY SettledStays DEF IInv
    <3>4. PICK v \in Int : v = w
      BY <3>1
    <3> HIDE DEF w
    <3>5. Settled(v)'
      BY <3>1, <3>3, <3>4
    <3> QED
      BY <3>2, <3>4, <3>5 DEF Settled, w
  <2> QED
    BY <2>2 DEF NothingMissed, Settled
<1> QED
  BY <1>2, <1>3

(* What the previous two give a step of process p that leaves last_ok and  *)
(* the clock alone.                                                        *)
LEMMA StepStays ==
  ASSUME IInv, TypeOK', HasMeeting', Grows, lastOk' = lastOk,
         NEW p \in Importers,
         \A q \in Importers \ {p} : at'[q] = at[q] /\ job'[q] = job[q],
         job'[p].moment <= clock,
         p \in Pollers => /\ at'[p] = "listing" => Listing(p)'
                          /\ at'[p] \in {"next", "saving", "creating"} => Going(p)'
                          /\ at'[p] # "answering"
  PROVE  IInv'
<1>1. Past'
  BY DEF IInv, Past, Grows, recorder
<1>2. NothingMissed'
  BY MissedStays
<1>3. Polling'
  <2> SUFFICES ASSUME NEW q \in Pollers
               PROVE  /\ at'[q] = "listing" => Listing(q)'
                      /\ at'[q] \in {"next", "saving", "creating"} => Going(q)'
                      /\ at'[q] # "answering"
    BY DEF Polling
  <2>1. CASE q = p
    BY <2>1
  <2>2. CASE q # p
    <3>1. at'[q] = at[q] /\ job'[q] = job[q]
      BY <2>2 DEF Importers
    <3> QED
      BY <3>1, PollerStays DEF IInv
  <2> QED
    BY <2>1, <2>2
<1> QED
  BY <1>1, <1>2, <1>3 DEF IInv

----------------------------------------------------------------------------
(* Time, the recorder and the worker.                                      *)

(* A process that does nothing keeps what Polling says of it, when what it *)
(* listed for can only have been there already.                            *)
LEMMA WorldStays ==
  ASSUME IInv, TypeOK', UNCHANGED <<poll, call, at, job>>, clock <= clock',
         \A m \in Meetings : listed'[m] # Never => started'[m] # Never,
         \A m \in Meetings :
             \/ Expected(m)' => Expected(m) /\ started'[m] = started[m]
             \/ ~OnTime(m)' \/ started'[m] >= clock - Overlap
  PROVE  IInv'
<1>0. /\ \A m \in Meetings : started'[m] \in Int /\ started[m] \in Int
      /\ clock \in Int /\ clock' \in Int /\ lastOk \in Int /\ Overlap \in Int
      /\ \A p \in Importers : job[p].moment \in Int /\ job[p].since \in Int
  BY IntakeConstants DEF IInv, TypeOK, Times, Job, Windows
<1>1. HasMeeting'
  BY DEF IInv, HasMeeting
<1>2. Past'
  BY <1>0 DEF IInv, Past, poll
<1>3. \A m \in Meetings : Accounted(m) <=> Accounted(m)'
  BY DEF Accounted, Imported, poll
<1>4. NothingMissed'
  <2> SUFFICES ASSUME lastOk # Never, NEW m \in Meetings, Expected(m)', ~Accounted(m)
               PROVE  started'[m] >= lastOk - Overlap
    BY <1>3 DEF NothingMissed, poll
  <2>1. CASE Expected(m) /\ started'[m] = started[m]
    BY <2>1 DEF IInv, NothingMissed
  <2>2. CASE started'[m] >= clock - Overlap
    BY <1>0, <2>2 DEF IInv, Past
  <2> QED
    BY <2>1, <2>2 DEF Expected
<1>5. Polling'
  <2> SUFFICES ASSUME NEW p \in Pollers
               PROVE  /\ at[p] = "listing" => Listing(p)'
                      /\ at[p] \in {"next", "saving", "creating"} => Going(p)'
                      /\ at[p] # "answering"
    BY DEF Polling
  <2>0. p \in Importers
    BY DEF Importers
  <2>1. ASSUME at[p] = "listing", ~job[p].fresh
        PROVE  Settled(job[p].since)' /\ job[p].since <= clock' - Overlap
    <3>1. Settled(job[p].since) /\ job[p].since <= clock - Overlap
      BY <2>1 DEF IInv, Polling, Listing
    <3>2. ASSUME NEW m \in Meetings, Expected(m)', ~Accounted(m) PROVE started'[m] >= job[p].since
      <4>1. CASE Expected(m) /\ started'[m] = started[m]
        BY <3>1, <3>2, <4>1 DEF Settled
      <4>2. CASE started'[m] >= clock - Overlap
        BY <1>0, <2>0, <3>1, <4>2
      <4> QED
        BY <3>2, <4>1, <4>2 DEF Expected
    <3> QED
      BY <1>0, <1>3, <2>0, <3>1, <3>2 DEF Settled
  <2>2. ASSUME at[p] \in {"next", "saving", "creating"}, NEW m \in Meetings, Expected(m)',
               job[p].fresh => started'[m] >= job[p].since, ~Accounted(m)
        PROVE  \/ m \in job[p].failed \/ m \in job[p].todo
               \/ started'[m] >= job[p].moment - Overlap
    <3>1. CASE Expected(m) /\ started'[m] = started[m]
      BY <2>2, <3>1 DEF IInv, Polling, Going
    <3>2. CASE started'[m] >= clock - Overlap
      BY <1>0, <2>0, <3>2 DEF IInv, Past
    <3> QED
      BY <2>2, <3>1, <3>2 DEF Expected
  <2> QED
    BY <1>3, <2>1, <2>2 DEF IInv, Polling, Listing, Going
<1> QED
  BY <1>1, <1>2, <1>4, <1>5 DEF IInv

LEMMA TickKeeps == ASSUME IInv, Tick PROVE IInv'
<1>1. TypeOK' /\ clock <= clock'
  BY IntakeConstants DEF IInv, Tick, TypeOK, Times, poll, seller
<1>2. \A m \in Meetings : Expected(m)' => Expected(m)
  BY DEF Tick, Expected, OnTime, poll
<1> QED
  BY <1>1, <1>2, WorldStays DEF Tick, IInv, Past

LEMMA MeetKeeps == ASSUME IInv, NEW m \in Meetings, Meet(m) PROVE IInv'
<1>1. TypeOK' /\ clock <= clock'
  BY DEF IInv, Meet, TypeOK, Times, poll, seller
<1>2. /\ listed' = listed /\ listed[m] = Never
      /\ \A n \in Meetings \ {m} : started'[n] = started[n]
  BY DEF IInv, Past, TypeOK, Meet
<1>3. \A n \in Meetings : listed'[n] # Never => started'[n] # Never
  BY <1>2 DEF IInv, Past
<1>4. ~OnTime(m)'
  BY <1>2 DEF OnTime
<1>5. \A n \in Meetings \ {m} : Expected(n)' => Expected(n) /\ started'[n] = started[n]
  BY <1>2 DEF Meet, Expected, OnTime, poll
<1> QED
  BY <1>1, <1>3, <1>4, <1>5, WorldStays DEF Meet

LEMMA TranscribedKeeps == ASSUME IInv, NEW m \in Meetings, Transcribed(m) PROVE IInv'
<1>1. TypeOK' /\ clock <= clock'
  BY DEF IInv, Transcribed, TypeOK, Times, poll, seller
<1>2. /\ started' = started /\ listed'[m] = clock
      /\ \A n \in Meetings \ {m} : listed'[n] = listed[n]
  BY DEF IInv, TypeOK, Transcribed
<1>3. \A n \in Meetings : listed'[n] # Never => started'[n] # Never
  BY <1>2 DEF IInv, Past, Transcribed
<1>4. OnTime(m)' => started'[m] >= clock - Overlap
  <2>1. {clock, started[m], Overlap} \subseteq Int
    BY IntakeConstants DEF IInv, TypeOK, Times
  <2> QED
    BY <1>2, <2>1 DEF OnTime
<1>5. \A n \in Meetings \ {m} : Expected(n)' => Expected(n) /\ started'[n] = started[n]
  BY <1>2 DEF Transcribed, Expected, OnTime, poll
<1> QED
  BY <1>1, <1>3, <1>4, <1>5, WorldStays DEF Transcribed

LEMMA HandleKeeps == ASSUME IInv, NEW m \in Meetings, Handle(m) PROVE IInv'
<1>0. call[m] \in Call
  BY DEF IInv, TypeOK
<1>1. TypeOK'
  BY <1>0 DEF IInv, Handle, TypeOK, Call, recorder, poll, seller
<1>2. Grows /\ lastOk' = lastOk
  <2>1. \A n \in Meetings : Imported(n) => Imported(n)'
    BY <1>0 DEF IInv, TypeOK, Call, Handle, Imported
  <2> QED
    BY <2>1, IntakeConstants DEF IInv, TypeOK, Windows, Times, Handle, Grows, recorder, poll
<1>3. HasMeeting' /\ Past'
  BY DEF IInv, HasMeeting, Past, Handle, recorder, poll
<1>4. Polling'
  BY <1>1, <1>2, PollerStays DEF IInv, Polling, Handle
<1> QED
  BY <1>1, <1>2, <1>3, <1>4, MissedStays DEF IInv

----------------------------------------------------------------------------
(* Polls.                                                                  *)
LEMMA StartPollKeeps == ASSUME IInv, NEW p \in Pollers, StartPoll(p) PROVE IInv'
<1>0. p \in Importers /\ TypeOK /\ HasMeeting
  BY DEF Importers, IInv
<1> DEFINE new == [Idle EXCEPT !.moment = clock, !.since = Since, !.fresh = (lastOk = Never)]
<1>1. /\ new \in Job /\ new.moment = clock /\ new.since = Since /\ new.fresh = (lastOk = Never)
      /\ Since \in Int
  <2>1. Since \in Windows /\ clock \in Times
    BY <1>0, IntakeConstants DEF TypeOK, Times, Windows, Since
  <2>2. job[p] \in Job
    BY <1>0 DEF TypeOK
  <2>3. new \in Job
    BY <2>1, <2>2, JobUpdates
  <2>4. Since \in Int
    BY <2>1, IntakeConstants DEF Windows, Times
  <2> QED
    BY <2>3, <2>4 DEF Idle
<1>2. Goto(p, "listing", new)
  BY DEF StartPoll
<1> HIDE DEF new
<1>3. /\ at' \in [Importers -> Places] /\ job' \in [Importers -> Job] /\ HasMeeting'
      /\ at'[p] = "listing" /\ job'[p] = new
      /\ \A q \in Importers \ {p} : at'[q] = at[q] /\ job'[q] = job[q]
  BY <1>0, <1>1, <1>2, GotoKeeps DEF Places
<1>4. TypeOK'
  BY <1>0, <1>3 DEF StartPoll, TypeOK, recorder, poll, seller
<1>5. Grows /\ lastOk' = lastOk
  BY <1>0, IntakeConstants DEF TypeOK, Windows, Times, StartPoll, Grows, recorder, poll, Imported
<1>6. Listing(p)'
  <2> SUFFICES ASSUME lastOk # Never
               PROVE  Settled(Since)' /\ Since <= clock - Overlap
    <3>1. Since' = Since
      BY DEF Since, StartPoll, recorder, poll
    <3> QED
      BY <1>1, <1>3, <1>5, <3>1 DEF Listing, Settled, Grows, recorder
  <2>1. Settled(lastOk - Overlap)
    BY DEF IInv, NothingMissed, Settled
  <2>2. Since = lastOk - Overlap /\ lastOk <= clock
    BY DEF IInv, Past, Since
  <2>3. \A v \in Int : Settled(v) => Settled(v)'
    BY <1>0, <1>4, <1>5, SettledStays
  <2>4. PICK v \in Int : v = Since
    BY <1>1
  <2>5. Settled(v)'
    BY <2>1, <2>2, <2>3, <2>4 DEF Settled
  <2>6. Since' = Since
    BY DEF Since, StartPoll, recorder, poll
  <2>7. Since <= clock - Overlap
    BY <1>0, <2>2, IntakeConstants DEF TypeOK, Times
  <2> QED
    BY <2>4, <2>5, <2>6, <2>7 DEF Settled
<1>7. job'[p].moment <= clock
  BY <1>0, <1>1, <1>3 DEF TypeOK, Times
<1> QED
  BY <1>0, <1>3, <1>4, <1>5, <1>6, <1>7, StepStays

LEMMA ListKeeps ==
  ASSUME IInv, Roomy, NEW p \in Pollers, NEW todo \in SUBSET Meetings, List(p, todo)
  PROVE  IInv'
<1>0. p \in Importers /\ TypeOK /\ HasMeeting /\ job[p] \in Job /\ clock \in Int
  BY DEF Importers, IInv, TypeOK, Times
<1> DEFINE new == [job[p] EXCEPT !.todo = todo]
<1>1. /\ new \in Job /\ new.todo = todo /\ new.failed = job[p].failed
      /\ new.moment = job[p].moment /\ new.since = job[p].since /\ new.fresh = job[p].fresh
  <2>1. new \in Job
    BY <1>0, JobUpdates
  <2> QED
    BY <1>0, <2>1 DEF Job
<1>2. Goto(p, "next", new)
  BY DEF List
<1> HIDE DEF new
<1>3. /\ at' \in [Importers -> Places] /\ job' \in [Importers -> Job] /\ HasMeeting'
      /\ at'[p] = "next" /\ job'[p] = new
      /\ \A q \in Importers \ {p} : at'[q] = at[q] /\ job'[q] = job[q]
  BY <1>0, <1>1, <1>2, GotoKeeps DEF Places
<1>4. TypeOK'
  BY <1>0, <1>3 DEF List, TypeOK, recorder, poll, seller
<1>5. Grows /\ lastOk' = lastOk
  BY <1>0, IntakeConstants DEF TypeOK, Windows, Times, List, Grows, recorder, poll, Imported
<1>6. Going(p)'
  <2>1. todo = InWindow(p)
    BY DEF List, Roomy, InWindow
  <2>2. \A m \in Meetings : Expected(m)' <=> Expected(m)
    BY DEF List, Expected, OnTime, recorder, poll
  <2>3. \A m \in Meetings : Accounted(m)' <=> Accounted(m)
    BY DEF List, Accounted, Imported, poll
  <2>4. at[p] = "listing" /\ started' = started
    BY DEF List, recorder
  <2>5. \A m \in Meetings : Expected(m) /\ started[m] >= job[p].since => m \in todo
    BY <2>1 DEF InWindow, Expected, OnTime
  <2>6. \A m \in Meetings : Expected(m) /\ ~job[p].fresh => Accounted(m) \/ started[m] >= job[p].since
    BY <2>4 DEF IInv, Polling, Listing, Settled
  <2> QED
    BY <1>1, <1>3, <2>2, <2>3, <2>4, <2>5, <2>6 DEF Going, Job
<1>7. job'[p].moment <= clock
  BY <1>0, <1>1, <1>3 DEF IInv, Past
<1> QED
  BY <1>0, <1>3, <1>4, <1>5, <1>6, <1>7, StepStays

LEMMA FinishPollKeeps == ASSUME IInv, NEW p \in Pollers, FinishPoll(p) PROVE IInv'
<1>0. p \in Importers /\ TypeOK /\ HasMeeting /\ job[p] \in Job
  BY DEF Importers, IInv, TypeOK
<1>1. {horizon, horizon', job[p].since, job[p].moment, clock, Overlap} \subseteq Int
  BY <1>0, IntakeConstants DEF TypeOK, Windows, Times, Job, FinishPoll
<1>2. Idle \in Job /\ Idle.moment = 0
  BY <1>0, JobUpdates DEF Idle
<1>3. /\ at' \in [Importers -> Places] /\ job' \in [Importers -> Job] /\ HasMeeting'
      /\ at'[p] = "idle" /\ job'[p] = Idle
      /\ \A q \in Importers \ {p} : at'[q] = at[q] /\ job'[q] = job[q]
  BY <1>0, <1>2, GotoKeeps DEF Places, FinishPoll
<1>4. TypeOK'
  BY <1>0, <1>3 DEF FinishPoll, TypeOK, Job, recorder, seller
<1>5. Grows
  BY <1>1 DEF FinishPoll, Grows, recorder, Imported
<1>6. Past'
  BY <1>0, <1>2, <1>3, IntakeConstants DEF IInv, Past, FinishPoll, recorder, TypeOK, Times
<1>7. NothingMissed'
  <2>1. Going(p) /\ job[p].todo = {} /\ lastOk' = job[p].moment /\ recorded' = recorded \cup job[p].failed
    BY DEF IInv, Polling, FinishPoll
  <2>2. \A m \in Meetings : Expected(m)' => Expected(m) /\ (job[p].fresh => started[m] >= job[p].since)
    <3>1. \A m \in Meetings : started[m] \in Int
      BY <1>0, IntakeConstants DEF TypeOK, Times
    <3> QED
      BY <1>1, <3>1 DEF FinishPoll, Expected, OnTime, recorder
  <2>3. started' = started /\ call' = call
    BY DEF FinishPoll, recorder
  <2> QED
    BY <2>1, <2>2, <2>3 DEF Going, NothingMissed, Accounted, Imported
<1>8. Polling'
  <2> SUFFICES ASSUME NEW q \in Pollers
               PROVE  /\ at'[q] = "listing" => Listing(q)'
                      /\ at'[q] \in {"next", "saving", "creating"} => Going(q)'
                      /\ at'[q] # "answering"
    BY DEF Polling
  <2>1. CASE q = p
    BY <1>3, <2>1
  <2>2. CASE q # p
    BY <1>0, <1>3, <1>4, <1>5, <2>2, PollerStays DEF Importers, IInv
  <2> QED
    BY <2>1, <2>2
<1> QED
  BY <1>3, <1>4, <1>6, <1>7, <1>8 DEF IInv

----------------------------------------------------------------------------
(* Imports and answers: a process moves on, and the calls only grow.       *)
Rest ==
    /\ call \in [Meetings -> Call] /\ raw \subseteq Kinds \X Meetings
    /\ {asked, answered} \subseteq SUBSET Meetings /\ {known, taint} \subseteq BOOLEAN

Moves(p, place, new) ==
    /\ Goto(p, place, new)
    /\ UNCHANGED <<recorder, poll>>
    /\ \A m \in Meetings : Imported(m) => Imported(m)'

(* The list of a poll gets shorter by what is dealt with.                  *)
Goes(p, new) ==
    /\ at[p] \in {"next", "saving", "creating"}
    /\ new.moment = job[p].moment /\ new.since = job[p].since /\ new.fresh = job[p].fresh
    /\ job[p].failed \subseteq new.failed
    /\ \A m \in job[p].todo \ new.todo : m \in Internal \/ Imported(m)' \/ m \in new.failed

LEMMA MoveKeeps ==
  ASSUME IInv, Rest', NEW p \in Importers, NEW place \in Places, NEW new \in Job,
         Moves(p, place, new),
         place \in {"saving", "creating", "answering"} => new.m \in Meetings,
         new.moment <= clock,
         p \in Pollers => \/ place = "idle"
                          \/ place \in {"next", "saving", "creating"} /\ Goes(p, new)
  PROVE  IInv'
<1>0. TypeOK /\ HasMeeting
  BY DEF IInv
<1>1. /\ at' \in [Importers -> Places] /\ job' \in [Importers -> Job] /\ HasMeeting'
      /\ at'[p] = place /\ job'[p] = new
      /\ \A q \in Importers \ {p} : at'[q] = at[q] /\ job'[q] = job[q]
  BY <1>0, GotoKeeps DEF Moves
<1>2. TypeOK'
  BY <1>0, <1>1 DEF TypeOK, Rest, Moves, recorder, poll
<1>3. Grows /\ lastOk' = lastOk
  BY <1>0, IntakeConstants DEF TypeOK, Windows, Times, Grows, Moves, recorder, poll
<1>4. ASSUME p \in Pollers, place \in {"next", "saving", "creating"}, Goes(p, new)
      PROVE  Going(p)'
  <2>1. Going(p)
    BY <1>4 DEF Goes, IInv, Polling
  <2>2. started' = started /\ \A m \in Meetings : Expected(m)' <=> Expected(m)
    BY DEF Moves, Expected, OnTime, recorder, poll
  <2>3. \A m \in Meetings : Accounted(m) => Accounted(m)'
    BY DEF Moves, Accounted, poll
  <2>4. ASSUME NEW m \in Meetings, Expected(m), m \in job[p].todo
        PROVE  Accounted(m)' \/ m \in new.failed \/ m \in new.todo
    BY <1>4, <2>4 DEF Goes, Expected, Accounted
  <2> QED
    BY <1>1, <1>4, <2>1, <2>2, <2>3, <2>4 DEF Going, Goes
<1>5. p \in Pollers => /\ at'[p] = "listing" => Listing(p)'
                       /\ at'[p] \in {"next", "saving", "creating"} => Going(p)'
                       /\ at'[p] # "answering"
  BY <1>1, <1>4
<1> QED
  BY <1>0, <1>1, <1>2, <1>3, <1>5, StepStays

LEMMA RestUnchanged == ASSUME IInv, UNCHANGED <<call, raw, known, seller, taint>> PROVE Rest'
  BY DEF IInv, TypeOK, Rest, seller

(* The common end of an import.                                            *)
LEMMA AfterKeeps ==
  ASSUME IInv, Rest', NEW p \in Importers, NEW m \in Meetings, NEW failed \in SUBSET Meetings,
         After(p, m, failed), UNCHANGED <<recorder, poll>>,
         \A n \in Meetings : Imported(n) => Imported(n)',
         p \in Pollers => at[p] \in {"next", "saving", "creating"},
         (p \in Pollers /\ m \in Internal) \/ Imported(m)' \/ m \in failed
  PROVE  IInv'
<1>0. job[p] \in Job /\ Idle.moment = 0 /\ clock \in Times /\ job[p].moment <= clock
  BY DEF IInv, TypeOK, Idle, Past
<1>1. CASE p \in Pollers
  <2> DEFINE new == [job[p] EXCEPT !.m = NoMeeting, !.todo = @ \ {m}, !.failed = @ \cup failed,
                                   !.hold = FALSE, !.made = FALSE]
  <2>1. new \in Job
    BY <1>0, JobUpdates
  <2>2. /\ new.moment = job[p].moment /\ new.since = job[p].since /\ new.fresh = job[p].fresh
        /\ new.failed = job[p].failed \cup failed /\ new.todo = job[p].todo \ {m}
    BY <1>0 DEF Job
  <2>3. Goto(p, "next", new)
    BY <1>1 DEF After
  <2> HIDE DEF new
  <2>4. Goes(p, new)
    BY <1>1, <2>2 DEF Goes
  <2> QED
    BY <1>0, <2>1, <2>2, <2>3, <2>4, MoveKeeps DEF Moves, Places
<1>2. CASE p \notin Pollers
  <2>1. Goto(p, "idle", Idle)
    BY <1>2 DEF After
  <2>2. Idle \in Job
    BY <1>0, JobUpdates
  <2>3. Idle.moment <= clock
    BY <1>0, IntakeConstants DEF Times
  <2> QED
    BY <1>2, <2>1, <2>2, <2>3, MoveKeeps DEF Moves, Places
<1> QED
  BY <1>1, <1>2

LEMMA PassOverKeeps ==
  ASSUME IInv, NEW p \in Importers, NEW m \in Meetings, NEW answer \in BOOLEAN, PassOver(p, m, answer)
  PROVE  IInv'
<1>1. Rest'
  BY RestUnchanged DEF PassOver
<1>2. \A n \in Meetings : Imported(n)' <=> Imported(n)
  BY DEF PassOver, Imported
<1>3. p \in Pollers => at[p] = "next"
  BY IntakeConstants DEF PassOver, Turn
<1> QED
  BY <1>1, <1>2, <1>3, AfterKeeps DEF PassOver

LEMMA LookKeeps ==
  ASSUME IInv, NEW p \in Importers, NEW m \in Meetings, NEW answer \in BOOLEAN, Look(p, m, answer)
  PROVE  IInv'
<1>0. job[p] \in Job /\ job[p].moment <= clock
  BY DEF IInv, TypeOK, Past
<1> DEFINE new == [job[p] EXCEPT !.m = m, !.answer = answer, !.hold = Hold(m, answer)]
<1>1. new \in Job
  <2>1. Hold(m, answer) \in BOOLEAN
    BY DEF Hold
  <2> QED
    BY <1>0, <2>1, JobUpdates
<1>2. /\ new.moment = job[p].moment /\ new.since = job[p].since /\ new.fresh = job[p].fresh
      /\ new.failed = job[p].failed /\ new.todo = job[p].todo /\ new.m = m
  BY <1>0 DEF Job
<1>3. Moves(p, "saving", new)
  BY DEF Look, Moves, Imported
<1> HIDE DEF new
<1>4. p \in Pollers => Goes(p, new)
  BY <1>2, IntakeConstants DEF Look, Turn, Goes
<1> QED
  BY <1>0, <1>1, <1>2, <1>3, <1>4, RestUnchanged, MoveKeeps DEF Look, Places

LEMMA SaveRawKeeps == ASSUME IInv, NEW p \in Importers, SaveRaw(p) PROVE IInv'
<1>0. job[p] \in Job /\ job[p].moment <= clock /\ job[p].m \in Meetings
  BY DEF IInv, TypeOK, Past, HasMeeting, SaveRaw
<1> DEFINE new == [job[p] EXCEPT !.made = <<Kind(p), job[p].m>> \notin raw]
<1>1. new \in Job
  BY <1>0, JobUpdates
<1>2. /\ new.moment = job[p].moment /\ new.since = job[p].since /\ new.fresh = job[p].fresh
      /\ new.failed = job[p].failed /\ new.todo = job[p].todo /\ new.m = job[p].m
  BY <1>0 DEF Job
<1>3. Moves(p, "creating", new)
  BY DEF SaveRaw, Moves, Imported
<1> HIDE DEF new
<1>4. Goes(p, new)
  BY <1>2 DEF SaveRaw, Goes
<1>5. Rest'
  <2>1. <<Kind(p), job[p].m>> \in Kinds \X Meetings
    BY <1>0 DEF Kind, Kinds
  <2> QED
    BY <2>1 DEF IInv, TypeOK, Rest, SaveRaw, seller
<1> QED
  BY <1>0, <1>1, <1>2, <1>3, <1>4, <1>5, MoveKeeps DEF Places

LEMMA CreateKeeps == ASSUME IInv, NEW p \in Importers, Create(p) PROVE IInv'
<1>0. job[p] \in Job /\ job[p].m \in Meetings /\ call \in [Meetings -> Call]
  BY DEF IInv, TypeOK, HasMeeting, Create
<1>1. PICK m \in Meetings : m = job[p].m
  BY <1>0
<1> DEFINE row == [wf    |-> FirstState(p), event |-> IF Publishes(p) THEN "queued" ELSE "no",
                   kind  |-> Kind(p)]
<1>2. row \in Call /\ row.wf # "none"
  BY DEF Call, Kind, Kinds, FirstState
<1>3. call' = [call EXCEPT ![m] = row]
  BY <1>1 DEF Create
<1> HIDE DEF row
<1>4. Imported(m)' /\ \A n \in Meetings : Imported(n) => Imported(n)'
  BY <1>0, <1>2, <1>3 DEF Imported
<1>5. Rest'
  BY <1>0, <1>1, <1>2, <1>3 DEF IInv, TypeOK, Rest, Create
<1>6. After(p, m, {}) /\ UNCHANGED <<recorder, poll>> /\ at[p] = "creating"
  BY <1>1 DEF Create
<1> QED
  BY <1>4, <1>5, <1>6, AfterKeeps

LEMMA FailsKeeps == ASSUME IInv, NEW p \in Importers, Fails(p) PROVE IInv'
<1>0. job[p] \in Job /\ job[p].m \in Meetings
  BY DEF IInv, TypeOK, HasMeeting, Fails
<1>1. \A n \in Meetings : Imported(n) => Imported(n)'
  BY DEF Fails, Imported
<1>2. Rest'
  BY <1>0 DEF IInv, TypeOK, Rest, Fails, seller, TakenBack, Job, Imported, Shared
<1> QED
  BY <1>0, <1>1, <1>2, AfterKeeps DEF Fails

(* An upload, or a request, goes to or comes from an answer.               *)
LEMMA AnswersKeeps ==
  ASSUME IInv, NEW p \in Threads, NEW m \in Meetings, AnswerAgain(p, m) \/ AnswerLook(p, m)
  PROVE  IInv'
<1>0. /\ p \in Importers /\ p \notin Pollers /\ clock \in Nat /\ job[p] \in Job
      /\ Idle.moment = 0
  BY IntakeConstants DEF Importers, IInv, TypeOK, Times, Idle
<1> DEFINE new == [Idle EXCEPT !.m = m, !.hold = (call[m].wf = "held")]
<1>1. new \in Job
  BY <1>0, JobUpdates
<1>2. new.moment = 0 /\ new.m = m
  BY <1>0 DEF Idle
<1>3. Moves(p, "answering", new)
  BY DEF AnswerAgain, AnswerLook, Moves, Imported
<1> HIDE DEF new
<1>4. Rest'
  BY RestUnchanged DEF AnswerAgain, AnswerLook
<1> QED
  BY <1>0, <1>1, <1>2, <1>3, <1>4, MoveKeeps DEF Places

LEMMA AnswerWriteKeeps ==
  ASSUME IInv, NEW p \in Threads, NEW remember \in BOOLEAN, AnswerWrite(p, remember)
  PROVE  IInv'
<1>0. /\ p \in Importers /\ p \notin Pollers /\ clock \in Nat /\ job[p] \in Job
      /\ Idle.moment = 0 /\ job[p].m \in Meetings /\ call \in [Meetings -> Call]
  BY IntakeConstants DEF Importers, IInv, TypeOK, Times, Idle, HasMeeting, AnswerWrite
<1>1. Idle \in Job
  BY <1>0, JobUpdates
<1>2. call' \in [Meetings -> Call] /\ \A n \in Meetings : Imported(n) => Imported(n)'
  BY <1>0, SMTT(30) DEF AnswerWrite, Call, Imported
<1>3. Moves(p, "idle", Idle)
  BY <1>2 DEF AnswerWrite, Moves
<1>4. Rest'
  BY <1>0, <1>2 DEF IInv, TypeOK, Rest, AnswerWrite
<1> QED
  BY <1>0, <1>1, <1>3, <1>4, MoveKeeps DEF Places

LEMMA DiesKeeps == ASSUME IInv, NEW p \in Importers, Dies(p) PROVE IInv'
<1>0. clock \in Nat /\ job[p] \in Job /\ Idle.moment = 0
  BY DEF IInv, TypeOK, Times, Idle
<1>1. Idle \in Job
  BY <1>0, JobUpdates
<1>2. Moves(p, "idle", Idle)
  BY DEF Dies, Moves, Imported
<1> QED
  BY <1>0, <1>1, <1>2, RestUnchanged, MoveKeeps DEF Dies, Places

----------------------------------------------------------------------------
(* The steps together, and the theorems.                                   *)
LEMMA StepIInv == ASSUME Roomy, IInv, [Next]_vars PROVE IInv'
<1>1. CASE Tick
  BY <1>1, TickKeeps
<1>2. ASSUME NEW m \in Meetings, Meet(m) \/ Transcribed(m) \/ Handle(m) PROVE IInv'
  BY <1>2, MeetKeeps, TranscribedKeeps, HandleKeeps
<1>3. ASSUME NEW p \in Pollers, PollStep(p) PROVE IInv'
  BY <1>3, StartPollKeeps, ListKeeps, FinishPollKeeps DEF PollStep
<1>4. ASSUME NEW p \in Importers, ImportStep(p) PROVE IInv'
  <2>1. ASSUME NEW m \in Meetings, NEW answer \in BOOLEAN, PassOver(p, m, answer) \/ Look(p, m, answer)
        PROVE  IInv'
    BY <2>1, PassOverKeeps, LookKeeps
  <2>2. ASSUME NEW m \in Meetings, AnswerAgain(p, m) PROVE IInv'
    BY <2>2, AnswersKeeps DEF AnswerAgain, Turn
  <2> QED
    BY <1>4, <2>1, <2>2, SaveRawKeeps, CreateKeeps, FailsKeeps DEF ImportStep
<1>5. ASSUME NEW p \in Threads, NEW m \in Meetings, AnswerLook(p, m) PROVE IInv'
  BY <1>5, AnswersKeeps
<1>6. ASSUME NEW p \in Threads, NEW remember \in BOOLEAN, AnswerWrite(p, remember) PROVE IInv'
  BY <1>6, AnswerWriteKeeps
<1>7. ASSUME NEW p \in Importers, Dies(p) PROVE IInv'
  BY <1>7, DiesKeeps
<1>8. CASE UNCHANGED vars
  <2>1. TypeOK' /\ Rest' /\ Grows /\ lastOk' = lastOk
    BY <1>8, IntakeConstants DEF vars, recorder, poll, seller, IInv, TypeOK, Rest, Grows, Imported,
       Windows, Times
  <2>2. \A m \in Meetings : Expected(m)' <=> Expected(m)
    BY <1>8 DEF vars, recorder, poll, Expected, OnTime
  <2> QED
    BY <1>8, <2>1, <2>2, WorldStays DEF vars, recorder, poll, IInv, Past, TypeOK, Times
<1> QED
  BY <1>1, <1>2, <1>3, <1>4, <1>5, <1>6, <1>7, <1>8 DEF Next

(* A recorder with no more meetings in all than one poll may look at.      *)
LEMMA RoomForAll ==
  ASSUME IsFiniteSet(Meetings), Cardinality(Meetings) <= Cap
  PROVE  Roomy
<1> SUFFICES ASSUME NEW todo \in SUBSET Meetings, Cardinality(todo) = Cap PROVE todo = Meetings
  BY DEF Roomy
<1>1. /\ Cardinality(todo) <= Cardinality(Meetings)
      /\ Cardinality(Meetings) = Cardinality(todo) => Meetings = todo
  BY FS_Subset
<1>2. Cardinality(todo) \in Nat /\ Cardinality(Meetings) \in Nat
  BY FS_Subset, FS_CardinalityType
<1> QED
  BY <1>1, <1>2

(* A recorder whose meetings fit into one poll has every one it finished   *)
(* in time imported or its failure put on record before the poller's       *)
(* window moves past it, through any number of pollers and requests, of    *)
(* failed imports and of processes that die (sources.poll, poll_one).      *)
THEOREM NothingIsMissed ==
  ASSUME IsFiniteSet(Meetings), Cardinality(Meetings) <= Cap
  PROVE  Spec => []NothingMissed
<1>1. Init => IInv
  BY InitIInv
<1>2. IInv /\ [Next]_vars => IInv'
  BY StepIInv, RoomForAll
<1>3. IInv => NothingMissed
  BY DEF IInv
<1> QED
  BY <1>1, <1>2, <1>3, PTL DEF Spec

----------------------------------------------------------------------------
(* What is kept and who waits, whatever the polls list and record.         *)
Fields == {"m", "todo", "failed", "moment", "since", "fresh", "answer", "hold", "made"}

Card(p) ==
    /\ job[p] = [x \in Fields |-> job[p][x]]
    /\ job[p].hold \in BOOLEAN /\ job[p].made \in BOOLEAN
    /\ at[p] \in {"saving", "creating", "answering"} => job[p].m \in Meetings
    /\ at[p] = "answering" => job[p].hold

Cards ==
    /\ at \in [Importers -> Places] /\ job = [p \in Importers |-> job[p]]
    /\ \A p \in Importers : Card(p)

Rows ==
    /\ call \in [Meetings -> Call]
    /\ asked \subseteq Meetings /\ answered \subseteq Meetings /\ taint \in BOOLEAN

(* No event goes with a call before it is ready.                           *)
Unready == \A m \in Meetings : call[m].wf \in {"none", "held"} => call[m].event = "no"

(* A process about to make a call has its payload on disk.                 *)
HasPayload == Clean => \A p \in Importers : at[p] = "creating" => <<Kind(p), job[p].m>> \in raw

AInv == Cards /\ Rows /\ Unready /\ HasPayload /\ AnswersHold

LEMMA InitAInv == Init => AInv
<1> SUFFICES ASSUME Init PROVE AInv
  OBVIOUS
<1>1. Cards
  BY DEF Init, Cards, Card, Fields, Idle, Places
<1>2. Rows /\ Unready
  BY DEF Init, Rows, Unready, NoCall, Call, Kinds
<1>3. HasPayload /\ RawKept /\ AskedWaits /\ ReadyIsQueued
  BY DEF Init, HasPayload, RawKept, AskedWaits, ReadyIsQueued, Imported, NoCall
<1> QED
  BY <1>1, <1>2, <1>3 DEF AInv, AnswersHold

(* A process moves to a place with a job.                                  *)
LEMMA CardsMove ==
  ASSUME Cards, NEW p \in Importers, NEW place \in Places, NEW new, Goto(p, place, new),
         new = [x \in Fields |-> new[x]], new.hold \in BOOLEAN, new.made \in BOOLEAN,
         place \in {"saving", "creating", "answering"} => new.m \in Meetings,
         place = "answering" => new.hold
  PROVE  /\ Cards' /\ at'[p] = place /\ job'[p] = new
         /\ \A q \in Importers \ {p} : at'[q] = at[q] /\ job'[q] = job[q]
<1>1. /\ at'[p] = place /\ job'[p] = new
      /\ \A q \in Importers \ {p} : at'[q] = at[q] /\ job'[q] = job[q]
      /\ at' \in [Importers -> Places] /\ job' = [q \in Importers |-> job'[q]]
  BY DEF Goto, Cards
<1>2. ASSUME NEW q \in Importers PROVE Card(q)'
  <2>1. CASE q = p
    BY <1>1, <2>1 DEF Card
  <2>2. CASE q # p
    BY <1>1, <2>2 DEF Cards, Card
  <2> QED
    BY <2>1, <2>2
<1> QED
  BY <1>1, <1>2 DEF Cards

LEMMA IdleCard ==
  /\ Idle = [x \in Fields |-> Idle[x]] /\ Idle.hold = FALSE /\ Idle.made = FALSE
  /\ \A m \in Meetings, b \in BOOLEAN :
        LET new == [Idle EXCEPT !.m = m, !.hold = b]
        IN  new = [x \in Fields |-> new[x]] /\ new.m = m /\ new.hold = b /\ new.made = FALSE
BY DEF Idle, Fields

(* A step of one process that leaves the calls, the payloads and the       *)
(* answers alone.                                                          *)
LEMMA PlainKeeps ==
  ASSUME AInv, Cards', UNCHANGED <<call, raw, seller, taint>>,
         \A q \in Importers : at'[q] = "creating" => at[q] = "creating" /\ job'[q] = job[q]
  PROVE  AInv'
<1>1. Rows' /\ Unready'
  BY DEF AInv, Rows, Unready, seller
<1>2. HasPayload'
  BY DEF AInv, HasPayload, Clean
<1>3. AnswersHold'
  BY DEF AInv, AnswersHold, RawKept, AskedWaits, ReadyIsQueued, Clean, Imported, seller
<1> QED
  BY <1>1, <1>2, <1>3 DEF AInv

LEMMA CardsAfter ==
  ASSUME Cards, NEW p \in Importers, NEW m, NEW failed, After(p, m, failed)
  PROVE  /\ Cards' /\ at'[p] \in {"next", "idle"}
         /\ \A q \in Importers \ {p} : at'[q] = at[q] /\ job'[q] = job[q]
<1>1. CASE p \in Pollers
  <2> DEFINE new == [job[p] EXCEPT !.m = NoMeeting, !.todo = @ \ {m}, !.failed = @ \cup failed,
                                   !.hold = FALSE, !.made = FALSE]
  <2>1. Goto(p, "next", new)
    BY <1>1 DEF After
  <2>2. new = [x \in Fields |-> new[x]] /\ new.hold = FALSE /\ new.made = FALSE
    BY DEF Cards, Card, Fields
  <2> HIDE DEF new
  <2> QED
    BY <2>1, <2>2, CardsMove DEF Places
<1>2. CASE p \notin Pollers
  <2>1. Goto(p, "idle", Idle)
    BY <1>2 DEF After
  <2> QED
    BY <2>1, IdleCard, CardsMove DEF Places
<1> QED
  BY <1>1, <1>2

LEMMA PollKeepsAnswers ==
  ASSUME AInv, NEW p \in Pollers, PollStep(p)
  PROVE  AInv'
<1>0. p \in Importers /\ Cards
  BY DEF Importers, AInv
<1>1. CASE StartPoll(p)
  <2> DEFINE new == [Idle EXCEPT !.moment = clock, !.since = Since, !.fresh = (lastOk = Never)]
  <2>1. Goto(p, "listing", new)
    BY <1>1 DEF StartPoll
  <2>2. new = [x \in Fields |-> new[x]] /\ new.hold = FALSE /\ new.made = FALSE
    BY DEF Idle, Fields
  <2> HIDE DEF new
  <2>3. /\ Cards' /\ at'[p] = "listing"
        /\ \A q \in Importers \ {p} : at'[q] = at[q] /\ job'[q] = job[q]
    BY <1>0, <2>1, <2>2, CardsMove DEF Places
  <2> QED
    BY <1>1, <2>3, PlainKeeps DEF StartPoll
<1>2. ASSUME NEW todo \in SUBSET Meetings, List(p, todo) PROVE AInv'
  <2> DEFINE new == [job[p] EXCEPT !.todo = todo]
  <2>1. Goto(p, "next", new)
    BY <1>2 DEF List
  <2>2. new = [x \in Fields |-> new[x]] /\ new.hold \in BOOLEAN /\ new.made \in BOOLEAN
    BY <1>0 DEF Cards, Card, Fields
  <2> HIDE DEF new
  <2>3. /\ Cards' /\ at'[p] = "next"
        /\ \A q \in Importers \ {p} : at'[q] = at[q] /\ job'[q] = job[q]
    BY <1>0, <2>1, <2>2, CardsMove DEF Places
  <2> QED
    BY <1>2, <2>3, PlainKeeps DEF List
<1>3. CASE FinishPoll(p)
  <2>1. /\ Cards' /\ at'[p] = "idle"
        /\ \A q \in Importers \ {p} : at'[q] = at[q] /\ job'[q] = job[q]
    BY <1>0, <1>3, IdleCard, CardsMove DEF FinishPoll, Places
  <2> QED
    BY <1>3, <2>1, PlainKeeps DEF FinishPoll
<1> QED
  BY <1>1, <1>2, <1>3 DEF PollStep

LEMMA DiesKeepsAnswers == ASSUME AInv, NEW p \in Importers, Dies(p) PROVE AInv'
<1>1. /\ Cards' /\ at'[p] = "idle"
      /\ \A q \in Importers \ {p} : at'[q] = at[q] /\ job'[q] = job[q]
  BY IdleCard, CardsMove DEF Dies, Places, AInv
<1> QED
  BY <1>1, PlainKeeps DEF Dies

LEMMA LookKeepsAnswers ==
  ASSUME AInv, NEW p \in Importers, NEW m \in Meetings, NEW answer \in BOOLEAN,
         PassOver(p, m, answer) \/ Look(p, m, answer)
  PROVE  AInv'
<1>1. CASE PassOver(p, m, answer)
  <2>1. /\ Cards' /\ at'[p] \in {"next", "idle"}
        /\ \A q \in Importers \ {p} : at'[q] = at[q] /\ job'[q] = job[q]
    BY <1>1, CardsAfter DEF PassOver, AInv
  <2> QED
    BY <1>1, <2>1, PlainKeeps DEF PassOver
<1>2. CASE Look(p, m, answer)
  <2> DEFINE new == [job[p] EXCEPT !.m = m, !.answer = answer, !.hold = Hold(m, answer)]
  <2>1. Goto(p, "saving", new)
    BY <1>2 DEF Look
  <2>2. Hold(m, answer) \in BOOLEAN
    BY DEF Hold
  <2>3. new = [x \in Fields |-> new[x]] /\ new.hold \in BOOLEAN /\ new.made \in BOOLEAN /\ new.m = m
    BY <2>2 DEF AInv, Cards, Card, Fields
  <2> HIDE DEF new
  <2>4. /\ Cards' /\ at'[p] = "saving"
        /\ \A q \in Importers \ {p} : at'[q] = at[q] /\ job'[q] = job[q]
    BY <2>1, <2>3, CardsMove DEF Places, AInv
  <2> QED
    BY <1>2, <2>4, PlainKeeps DEF Look
<1> QED
  BY <1>1, <1>2

LEMMA ToAnswerKeepsAnswers ==
  ASSUME AInv, NEW p \in Importers, NEW m \in Meetings, AnswerAgain(p, m) \/ AnswerLook(p, m)
  PROVE  AInv'
<1> DEFINE new == [Idle EXCEPT !.m = m, !.hold = (call[m].wf = "held")]
<1>1. Goto(p, "answering", new) /\ call[m].wf = "held"
  BY DEF AnswerAgain, AnswerLook, Waiting
<1>2. new = [x \in Fields |-> new[x]] /\ new.hold /\ new.made = FALSE /\ new.m = m
  BY <1>1, IdleCard
<1> HIDE DEF new
<1>3. /\ Cards' /\ at'[p] = "answering"
      /\ \A q \in Importers \ {p} : at'[q] = at[q] /\ job'[q] = job[q]
  BY <1>1, <1>2, CardsMove DEF Places, AInv, Cards, Card
<1> QED
  BY <1>3, PlainKeeps DEF AnswerAgain, AnswerLook

LEMMA SaveRawKeepsAnswers == ASSUME AInv, NEW p \in Importers, SaveRaw(p) PROVE AInv'
<1> DEFINE file == <<Kind(p), job[p].m>>
           new  == [job[p] EXCEPT !.made = file \notin raw]
<1>1. Goto(p, "creating", new)
  BY DEF SaveRaw
<1>2. /\ new = [x \in Fields |-> new[x]] /\ new.hold \in BOOLEAN /\ new.made \in BOOLEAN
      /\ new.m = job[p].m /\ new.m \in Meetings
  BY DEF AInv, Cards, Card, Fields, SaveRaw
<1> HIDE DEF new
<1>3. /\ Cards' /\ at'[p] = "creating" /\ job'[p] = new
      /\ \A q \in Importers \ {p} : at'[q] = at[q] /\ job'[q] = job[q]
  BY <1>1, <1>2, CardsMove DEF Places, AInv
<1>4. raw' = raw \cup {file}
  BY DEF SaveRaw
<1>5. HasPayload'
  BY <1>2, <1>3, <1>4 DEF AInv, HasPayload, Clean, SaveRaw
<1>6. Rows' /\ Unready' /\ AnswersHold'
  BY <1>4 DEF AInv, Rows, Unready, AnswersHold, RawKept, AskedWaits, ReadyIsQueued, Clean, Imported,
     SaveRaw, seller
<1> QED
  BY <1>3, <1>5, <1>6 DEF AInv

LEMMA CreateKeepsAnswers == ASSUME AInv, NEW p \in Importers, Create(p) PROVE AInv'
<1>1. PICK m \in Meetings : m = job[p].m
  BY DEF AInv, Cards, Card, Create
<1>2. /\ Cards' /\ at'[p] # "creating"
      /\ \A q \in Importers \ {p} : at'[q] = at[q] /\ job'[q] = job[q]
  BY CardsAfter DEF Create, AInv
<1> DEFINE row == [wf    |-> FirstState(p), event |-> IF Publishes(p) THEN "queued" ELSE "no",
                   kind  |-> Kind(p)]
<1>3. /\ row \in Call /\ row.kind = Kind(p)
      /\ IF job[p].hold THEN row.wf = "held" /\ row.event = "no"
                        ELSE row.wf = "diarized" /\ row.event = "queued"
  BY DEF Call, Kind, Kinds, FirstState, Publishes
<1>4. call' = [call EXCEPT ![m] = row] /\ call[m].wf = "none" /\ UNCHANGED <<raw, answered, taint>>
      /\ asked' = IF job[p].hold THEN asked \cup {m} ELSE asked
  BY <1>1 DEF Create, Imported
<1> HIDE DEF row
<1>5. call'[m] = row /\ \A n \in Meetings \ {m} : call'[n] = call[n]
  BY <1>4 DEF AInv, Rows
<1>6. Rows' /\ Unready'
  BY <1>3, <1>4, <1>5 DEF AInv, Rows, Unready
<1>7. HasPayload'
  BY <1>2, <1>4 DEF AInv, HasPayload, Clean
<1>8. RawKept'
  BY <1>1, <1>3, <1>4, <1>5 DEF AInv, AnswersHold, RawKept, HasPayload, Clean, Imported, Create
<1>9. AskedWaits' /\ ReadyIsQueued'
  BY <1>3, <1>4, <1>5 DEF AInv, Rows, AnswersHold, AskedWaits, ReadyIsQueued, Clean
<1> QED
  BY <1>2, <1>6, <1>7, <1>8, <1>9 DEF AInv, AnswersHold

LEMMA FailsKeepsAnswers == ASSUME AInv, NEW p \in Importers, Fails(p) PROVE AInv'
<1>1. /\ Cards' /\ at'[p] # "creating"
      /\ \A q \in Importers \ {p} : at'[q] = at[q] /\ job'[q] = job[q]
  BY CardsAfter DEF Fails, AInv
<1>2. /\ UNCHANGED <<call, asked, answered>> /\ taint' \in BOOLEAN /\ (Clean' => Clean)
      /\ raw \ raw' \subseteq IF job[p].made /\ at[p] = "creating" THEN {<<Kind(p), job[p].m>>} ELSE {}
      /\ Clean' /\ job[p].made => ~Imported(job[p].m) /\ ~Shared(p)
  BY DEF Fails, TakenBack, seller, Clean, AInv, Rows, Cards, Card, Imported, Shared
<1>3. Rows' /\ Unready' /\ AskedWaits' /\ ReadyIsQueued'
  BY <1>2 DEF AInv, Rows, Unready, AnswersHold, AskedWaits, ReadyIsQueued
<1>4. RawKept'
  BY <1>2 DEF AInv, AnswersHold, RawKept, Imported
<1>5. HasPayload'
  <2> SUFFICES ASSUME Clean', NEW q \in Importers, at'[q] = "creating"
               PROVE  <<Kind(q), job'[q].m>> \in raw'
    BY DEF HasPayload
  <2>1. q # p /\ at[q] = "creating" /\ job'[q] = job[q] /\ <<Kind(q), job[q].m>> \in raw
    BY <1>1, <1>2 DEF AInv, HasPayload
  <2>2. job[p].made => <<Kind(q), job[q].m>> # <<Kind(p), job[p].m>>
    BY <1>2, <2>1 DEF Shared
  <2> QED
    BY <1>2, <2>1, <2>2
<1> QED
  BY <1>1, <1>3, <1>4, <1>5 DEF AInv, AnswersHold

LEMMA AnswerWriteKeepsAnswers ==
  ASSUME AInv, NEW p \in Importers, NEW remember \in BOOLEAN, AnswerWrite(p, remember)
  PROVE  AInv'
<1>1. PICK m \in Meetings : m = job[p].m /\ job[p].hold
  BY DEF AInv, Cards, Card, AnswerWrite
<1>2. /\ Cards' /\ at'[p] # "creating"
      /\ \A q \in Importers \ {p} : at'[q] = at[q] /\ job'[q] = job[q]
  BY IdleCard, CardsMove DEF AnswerWrite, AInv, Places
<1>3. /\ call'[m].wf = "diarized" /\ call'[m].kind = call[m].kind
      /\ call'[m].event = IF call[m].event = "no" THEN "queued" ELSE call[m].event
      /\ \A n \in Meetings \ {m} : call'[n] = call[n]
      /\ call' \in [Meetings -> Call]
  BY <1>1, ZenonT(40) DEF AnswerWrite, AInv, Rows, Call
<1>4. /\ UNCHANGED <<raw, asked>> /\ answered' = answered \cup {m} /\ taint' \in BOOLEAN
      /\ Clean' => Clean /\ call[m].wf = "held"
  BY <1>1 DEF AnswerWrite, Clean, AInv, Rows
<1>5. Rows' /\ Unready' /\ AskedWaits'
  BY <1>3, <1>4 DEF AInv, Rows, Unready, AnswersHold, AskedWaits
<1>6. RawKept' /\ ReadyIsQueued'
  BY <1>3, <1>4 DEF AInv, Unready, AnswersHold, RawKept, ReadyIsQueued, Imported
<1>7. HasPayload'
  BY <1>2, <1>4 DEF AInv, HasPayload
<1> QED
  BY <1>2, <1>5, <1>6, <1>7 DEF AInv, AnswersHold

LEMMA HandleKeepsAnswers == ASSUME AInv, NEW m \in Meetings, Handle(m) PROVE AInv'
<1>1. call[m].event = "queued" /\ call[m].wf \notin {"none", "held"} /\ call \in [Meetings -> Call]
  BY DEF AInv, Rows, Unready, Handle
<1>2. /\ call'[m].wf = "processed" /\ call'[m].event = "handled" /\ call'[m].kind = call[m].kind
      /\ \A n \in Meetings \ {m} : call'[n] = call[n]
      /\ call' \in [Meetings -> Call]
      /\ UNCHANGED <<raw, at, job, asked, answered, taint>>
  BY <1>1 DEF Handle, Call, seller
<1>3. Rows' /\ Unready' /\ AskedWaits'
  BY <1>1, <1>2 DEF AInv, Rows, Unready, AnswersHold, AskedWaits
<1>4. RawKept' /\ ReadyIsQueued'
  BY <1>1, <1>2 DEF AInv, AnswersHold, RawKept, ReadyIsQueued, Imported, Clean
<1>5. Cards' /\ HasPayload'
  BY <1>2 DEF AInv, Cards, Card, HasPayload, Clean
<1> QED
  BY <1>3, <1>4, <1>5 DEF AInv, AnswersHold

LEMMA StepAInv == AInv /\ [Next]_vars => AInv'
<1> SUFFICES ASSUME AInv, [Next]_vars PROVE AInv'
  OBVIOUS
<1>1. ASSUME \/ UNCHANGED vars \/ Tick
             \/ \E m \in Meetings : Meet(m) \/ Transcribed(m)
      PROVE  AInv'
  <2>1. UNCHANGED <<call, raw, seller, taint, at, job>>
    BY <1>1 DEF vars, Tick, Meet, Transcribed
  <2>2. Cards'
    BY <2>1 DEF AInv, Cards, Card
  <2> QED
    BY <2>1, <2>2, PlainKeeps
<1>2. ASSUME NEW m \in Meetings, Handle(m) PROVE AInv'
  BY <1>2, HandleKeepsAnswers
<1>3. ASSUME NEW p \in Pollers, PollStep(p) PROVE AInv'
  BY <1>3, PollKeepsAnswers
<1>4. ASSUME NEW p \in Importers, ImportStep(p) PROVE AInv'
  BY <1>4, LookKeepsAnswers, ToAnswerKeepsAnswers, SaveRawKeepsAnswers, CreateKeepsAnswers,
     FailsKeepsAnswers DEF ImportStep
<1>5. ASSUME NEW p \in Threads, NEW m \in Meetings, AnswerLook(p, m) PROVE AInv'
  BY <1>5, ToAnswerKeepsAnswers DEF Importers
<1>6. ASSUME NEW p \in Threads, NEW remember \in BOOLEAN, AnswerWrite(p, remember) PROVE AInv'
  BY <1>6, AnswerWriteKeepsAnswers DEF Importers
<1>7. ASSUME NEW p \in Importers, Dies(p) PROVE AInv'
  BY <1>7, DiesKeepsAnswers
<1> QED
  BY <1>1, <1>2, <1>3, <1>4, <1>5, <1>6, <1>7 DEF Next

(* What arrived is kept and the coach's question is waited for, through    *)
(* any number of imports, answers, failures and processes that die         *)
(* (sources/base.py, import_normalized and resolve_speaker).               *)
THEOREM AnswersAreHeld == Spec => []AnswersHold
<1>1. AInv => AnswersHold
  BY DEF AInv
<1> QED
  BY <1>1, InitAInv, StepAInv, PTL DEF Spec

----------------------------------------------------------------------------
(* The watched folder, for any readers, names and files.                   *)

NameOK == F!All \cup {NoFile}
FolderJob ==
    [todo : SUBSET F!All, n : NameOK, c : Files \cup {NoFile}, cache : SUBSET Files,
     noted : BOOLEAN, kind : {NoFile, "ValueError", "SourceError", "OSError", "OperationalError"}]
Holding == {"read", "import", "imported", "failed"}

FTyped ==
    /\ F!TypeOK
    /\ fAt \in [Readers -> {"idle", "recover", "next"} \cup Holding]
    /\ fJob \in [Readers -> FolderJob]
    /\ \A p \in Readers : fAt[p] \in Holding <=> fJob[p].n # NoFile
    /\ \A p \in Readers : fAt[p] \in {"import", "imported"} => fJob[p].c \in Files

(* The file a name stands for, with .processing and without.               *)
Under(n) == F!In(drop, n) \cup F!In(work, n)

(* Two files of one name have met, and so has one with a time in its name. *)
Met ==
    /\ \A n \in F!All : drop[n] # NoFile /\ work[n] # NoFile => {drop[n], work[n]} \subseteq clash
    /\ \A n \in Spare : Under(n) \subseteq clash

(* A .processing file nobody is at is what a dead poll left; so is an old  *)
(* one, unless its poll is slow.                                           *)
Left == \A n \in F!All :
            work[n] # NoFile /\ (n \in old \/ n \notin F!Held) => work[n] \in cut \cup clash

(* What may be set aside.                                                  *)
Unread == Bad \cup cut \cup clash

(* The file a poll is at, if nothing met it, is the one the poll read; it  *)
(* is a call when it was imported, and one to set aside when it is.        *)
HoldsOf(p) ==
    \A f \in Under(fJob[p].n) \ clash :
        /\ fAt[p] \in {"import", "imported"} => f = fJob[p].c
        /\ fAt[p] = "imported" => f \in calls
        /\ fAt[p] = "failed" /\ F!Remembers(fJob[p].kind) => f \in Unread
Holds == \A p \in Readers : fAt[p] \in Holding => HoldsOf(p)

Caches == \A p \in Readers : fJob[p].cache \subseteq Unread

FInv == FTyped /\ Met /\ Left /\ Holds /\ Caches /\ F!Kept /\ F!SetAside

LEMMA InitFInv == F!Init => FInv
<1> SUFFICES ASSUME F!Init PROVE FInv
  OBVIOUS
<1>1. FTyped
  BY PartsConstants DEF F!Init, FTyped, F!TypeOK, FolderJob, NameOK, Holding, F!Idle
<1>2. Met /\ Left
  BY DEF F!Init, Met, Left, Under, F!In, F!All
<1>3. Holds /\ Caches
  BY DEF F!Init, Holds, Holding, Caches, F!Idle
<1> QED
  BY <1>1, <1>2, <1>3 DEF F!Init, FInv, F!Kept, F!SetAside

(* A step that leaves a poll where it is, and puts nothing under its name  *)
(* that has not met another, keeps what the poll knows.                    *)
LEMMA HoldsStays ==
  ASSUME NEW p \in Readers, HoldsOf(p), fAt'[p] = fAt[p], fJob'[p] = fJob[p],
         Under(fJob[p].n)' \ clash' \subseteq Under(fJob[p].n) \ clash,
         calls \subseteq calls', cut \subseteq cut', clash \subseteq clash'
  PROVE  HoldsOf(p)'
  BY DEF HoldsOf, Unread, F!Remembers

(* The updates of a poll's place and job.                                  *)
LEMMA Gone ==
  ASSUME FTyped, NEW p \in Readers, NEW place, NEW new, F!Goto(p, place, new)
  PROVE  /\ fAt'[p] = place /\ fJob'[p] = new
         /\ \A q \in Readers \ {p} : fAt'[q] = fAt[q] /\ fJob'[q] = fJob[q]
  BY DEF FTyped, F!Goto

LEMMA SaveFInv == ASSUME FInv, NEW n \in Names, NEW c \in Files, F!Save(n, c) PROVE FInv'
<1> USE PartsConstants DEF F!FolderConstants
<1>1. n \in F!All /\ c # NoFile /\ drop[n] = NoFile
  BY DEF F!Save, F!All
<1>2. drop' = [drop EXCEPT ![n] = c] /\ drop'[n] = c /\ \A m \in F!All \ {n} : drop'[m] = drop[m]
  BY <1>1 DEF F!Save, FInv, FTyped, F!TypeOK
<1>3. clash \subseteq clash' /\ (work[n] # NoFile \/ n \in F!Held => {c} \cup F!In(work, n) \subseteq clash')
  BY DEF F!Save
<1>4. clash' \subseteq Files
  BY <1>1 DEF F!Save, FInv, FTyped, F!TypeOK, F!In
<1>5. FTyped'
  BY <1>1, <1>2, <1>4 DEF F!Save, FInv, FTyped, F!TypeOK, F!Held
<1>6. Met'
  BY <1>1, <1>2, <1>3 DEF F!Save, FInv, Met, Under, F!In, F!All
<1>7. Left'
  BY <1>3 DEF F!Save, FInv, Left, F!Held
<1>8. ASSUME NEW p \in Readers, fAt[p] \in Holding PROVE HoldsOf(p)'
  <2>1. fJob[p].n \in F!Held /\ fJob[p].n \in F!All
    BY <1>8 DEF F!Held, FInv, FTyped, FolderJob, NameOK
  <2>2. Under(fJob[p].n)' \ clash' \subseteq Under(fJob[p].n) \ clash
    BY <1>2, <1>3, <2>1 DEF F!Save, Under, F!In
  <2> QED
    BY <1>3, <1>8, <2>2, HoldsStays DEF F!Save, FInv, Holds
<1>9. Caches' /\ F!SetAside'
  BY <1>3 DEF F!Save, FInv, Caches, Unread, F!SetAside
<1>10. F!Kept'
  <2> SUFFICES ASSUME NEW f \in saved', f \notin clash'
               PROVE  \/ \E m \in F!All : f \in {drop'[m], work'[m]}
                      \/ f \in calls' /\ (f \in moved' \/ \E m \in F!All : processed'[m] = f)
    BY DEF F!Kept
  <2>1. CASE f = c
    BY <1>1, <1>2, <2>1
  <2>2. CASE f # c
    <3>1. f \in saved \ clash
      BY <1>3, <2>2 DEF F!Save
    <3>2. CASE \E m \in F!All : f \in {drop[m], work[m]}
      <4>1. PICK m \in F!All : f \in {drop[m], work[m]}
        BY <3>2
      <4>2. f # NoFile
        BY <3>1 DEF FInv, FTyped, F!TypeOK
      <4> QED
        BY <1>1, <1>2, <4>1, <4>2 DEF F!Save
    <3> QED
      BY <3>1, <3>2 DEF F!Save, FInv, F!Kept
  <2> QED
    BY <2>1, <2>2
<1> QED
  BY <1>5, <1>6, <1>7, <1>8, <1>9, <1>10 DEF FInv, Holds, F!Save

LEMMA AgesFInv == ASSUME FInv, NEW n \in F!All, F!Ages(n) PROVE FInv'
<1>1. clash \subseteq clash' /\ clash' \subseteq Files /\ (n \in F!Held => work[n] \in clash')
  BY DEF F!Ages, FInv, FTyped, F!TypeOK
<1>2. FTyped' /\ Met'
  BY <1>1 DEF F!Ages, FInv, FTyped, F!TypeOK, Met, Under, F!In
<1>3. Left'
  BY <1>1 DEF F!Ages, FInv, Left, F!Held
<1>4. ASSUME NEW p \in Readers, fAt[p] \in Holding PROVE HoldsOf(p)'
  BY <1>1, <1>4, HoldsStays DEF F!Ages, FInv, Holds, Under, F!In
<1>5. Caches' /\ F!SetAside' /\ F!Kept'
  BY <1>1 DEF F!Ages, FInv, Caches, Unread, F!SetAside, F!Kept
<1> QED
  BY <1>2, <1>3, <1>4, <1>5 DEF FInv, Holds, F!Ages

(* What a poll does to no file: it goes from place to place.               *)
LEMMA MovesFInv ==
  ASSUME FInv, NEW p \in Readers, NEW place \in {"idle", "recover", "next"} \cup Holding,
         NEW new \in FolderJob, F!Goto(p, place, new),
         UNCHANGED <<drop, work, old, processed, moved, saved, clash>>,
         fJob[p].n # NoFile /\ new.n # fJob[p].n => F!In(work, fJob[p].n) \subseteq cut',
         calls \subseteq calls', calls' \subseteq Files, cut \subseteq cut', cut' \subseteq Files,
         skipped' \subseteq Files, skipped' \subseteq Unread,
         place \in Holding <=> new.n # NoFile, place \in {"import", "imported"} => new.c \in Files,
         place \in Holding => HoldsOf(p)', new.cache \subseteq Unread
  PROVE  FInv'
<1>1. /\ fAt'[p] = place /\ fJob'[p] = new
      /\ \A q \in Readers \ {p} : fAt'[q] = fAt[q] /\ fJob'[q] = fJob[q]
  BY Gone DEF FInv
<1>2. FTyped'
  BY <1>1 DEF F!Goto, FInv, FTyped, F!TypeOK
<1>3. Left'
  <2>1. F!Held \subseteq F!Held' \cup {fJob[p].n}
    BY <1>1 DEF F!Held
  <2>2. fJob[p].n # NoFile /\ new.n = fJob[p].n => fJob[p].n \in F!Held'
    BY <1>1 DEF F!Held
  <2>3. NoFile \notin F!Held
    BY DEF F!Held
  <2> QED
    BY <2>1, <2>2, <2>3 DEF FInv, Left, F!In
<1>4. ASSUME NEW q \in Readers, fAt'[q] \in Holding PROVE HoldsOf(q)'
  <2>1. CASE q = p
    BY <2>1, <1>1, <1>4
  <2>2. CASE q # p
    BY <2>2, <1>1, <1>4, HoldsStays DEF FInv, Holds, Under, F!In
  <2> QED
    BY <2>1, <2>2
<1>5. Caches'
  BY <1>1 DEF FInv, Caches, Unread
<1>6. Met' /\ F!SetAside' /\ F!Kept'
  BY DEF FInv, Met, Under, F!In, F!SetAside, Unread, F!Kept
<1> QED
  BY <1>2, <1>3, <1>4, <1>5, <1>6 DEF FInv, Holds

LEMMA QuietFInv ==
  ASSUME FInv, NEW p \in Readers,
         F!StartPoll(p) \/ F!List(p) \/ F!Read(p) \/ F!Import(p) \/ F!Busy(p) \/ F!Finish(p) \/ F!Dies(p)
  PROVE  FInv'
<1> USE DEF Holding
<1>1. /\ fJob[p] \in FolderJob /\ fJob[p].cache \subseteq Unread
      /\ skipped \subseteq Files /\ skipped \subseteq Unread
      /\ calls \subseteq Files /\ cut \subseteq Files
      /\ fAt[p] \in Holding => HoldsOf(p)
      /\ fAt[p] \in Holding <=> fJob[p].n # NoFile
      /\ fJob[p].n # NoFile => fJob[p].n \in F!All
  BY DEF FInv, FTyped, F!TypeOK, Caches, F!SetAside, Unread, Holds, FolderJob, NameOK
<1>2. F!Idle \in FolderJob /\ F!Idle.n = NoFile /\ F!Idle.cache = {}
  BY DEF F!Idle, FolderJob, NameOK
<1>3. CASE F!StartPoll(p)
  <2> DEFINE new == [F!Idle EXCEPT !.cache = skipped]
  <2>1. new \in FolderJob /\ new.n = NoFile /\ new.cache = skipped
    BY <1>1, <1>2 DEF F!Idle, FolderJob
  <2> QED
    BY <1>1, <1>3, <2>1, MovesFInv DEF F!StartPoll, F!files
<1>4. CASE F!List(p)
  <2> DEFINE todo == {n \in F!All : drop[n] # NoFile /\ drop[n] \notin fJob[p].cache}
             new == [fJob[p] EXCEPT !.noted = FALSE, !.todo = todo]
  <2>1. new \in FolderJob /\ new.n = fJob[p].n /\ new.cache = fJob[p].cache
    BY <1>1 DEF FolderJob
  <2>2. skipped' \subseteq Files /\ skipped' \subseteq Unread
    BY <1>1, <1>4 DEF F!List, FolderJob
  <2>3. F!Goto(p, "next", new) /\ fJob[p].n = NoFile
    BY <1>1, <1>4 DEF F!List
  <2> HIDE DEF new
  <2> QED
    BY <1>1, <1>4, <2>1, <2>2, <2>3, MovesFInv DEF F!List, F!files
<1>5. CASE F!Read(p)
  <2>1. CASE work[fJob[p].n] # NoFile
    <3> DEFINE new == [fJob[p] EXCEPT !.c = work[fJob[p].n]]
    <3>1. work[fJob[p].n] \in Files /\ fJob[p].n \in F!All
      BY <1>1, <1>5, <2>1 DEF F!Read, FInv, FTyped, F!TypeOK
    <3>2. new \in FolderJob /\ new.n = fJob[p].n /\ new.cache = fJob[p].cache /\ new.c = work[fJob[p].n]
      BY <1>1, <3>1 DEF FolderJob
    <3>3. F!Goto(p, "import", new)
      BY <1>5, <2>1 DEF F!Read
    <3>4. HoldsOf(p)'
      <4>1. fAt'[p] = "import" /\ fJob'[p] = new
        BY <3>3, Gone DEF FInv
      <4> QED
        BY <1>5, <2>1, <3>1, <3>2, <4>1 DEF F!Read, F!files, HoldsOf, Under, F!In, FInv, Met
    <3> HIDE DEF new
    <3> QED
      BY <1>1, <1>5, <3>1, <3>2, <3>3, <3>4, MovesFInv DEF F!Read, F!files
  <2>2. CASE work[fJob[p].n] = NoFile
    <3> DEFINE new == [fJob[p] EXCEPT !.kind = "OSError"]
    <3>1. new \in FolderJob /\ new.n = fJob[p].n /\ new.cache = fJob[p].cache /\ new.kind = "OSError"
      BY <1>1 DEF FolderJob
    <3>2. F!Goto(p, "failed", new)
      BY <1>5, <2>2 DEF F!Read
    <3> HIDE DEF new
    <3>3. HoldsOf(p)'
      <4>1. fAt'[p] = "failed" /\ fJob'[p] = new
        BY <3>2, Gone DEF FInv
      <4> QED
        BY <3>1, <4>1 DEF HoldsOf, F!Remembers
    <3> QED
      BY <1>1, <1>5, <3>1, <3>2, <3>3, MovesFInv DEF F!Read, F!files
  <2> QED
    BY <2>1, <2>2
<1>6. CASE F!Import(p)
  <2>1. \A f \in Under(fJob[p].n) \ clash : f = fJob[p].c
    BY <1>1, <1>6 DEF F!Import, HoldsOf
  <2>2. CASE fJob[p].c \in Bad
    <3> DEFINE new == [fJob[p] EXCEPT !.kind = "ValueError"]
    <3>1. new \in FolderJob /\ new.n = fJob[p].n /\ new.cache = fJob[p].cache
      BY <1>1 DEF FolderJob
    <3>2. F!Goto(p, "failed", new) /\ UNCHANGED calls
      BY <1>6, <2>2 DEF F!Import
    <3> HIDE DEF new
    <3>3. HoldsOf(p)'
      <4>1. fAt'[p] = "failed" /\ fJob'[p] = new
        BY <3>2, Gone DEF FInv
      <4> QED
        BY <1>6, <2>1, <2>2, <3>1, <4>1 DEF F!Import, F!files, HoldsOf, Under, F!In, Unread
    <3> QED
      BY <1>1, <1>6, <3>1, <3>2, <3>3, MovesFInv DEF F!Import, F!files
  <2>3. CASE fJob[p].c \notin Bad
    <3>1. F!Goto(p, "imported", fJob[p]) /\ calls' = calls \cup {fJob[p].c}
      BY <1>6, <2>3 DEF F!Import
    <3>2. HoldsOf(p)'
      BY <1>6, <2>1, <3>1, Gone DEF F!Import, F!files, FInv, HoldsOf, Under, F!In
    <3>3. calls' \subseteq Files
      <4>1. fJob[p].c \in Files
        BY <1>1, <1>6 DEF F!Import, FInv, FTyped
      <4> QED
        BY <1>1, <3>1, <4>1
    <3> QED
      BY <1>1, <1>6, <3>1, <3>2, <3>3, MovesFInv DEF F!Import, F!files
  <2> QED
    BY <2>2, <2>3
<1>7. CASE F!Busy(p)
  <2> DEFINE new == [fJob[p] EXCEPT !.kind = "OperationalError"]
  <2>1. new \in FolderJob /\ new.n = fJob[p].n /\ new.cache = fJob[p].cache /\ new.kind = "OperationalError"
    BY <1>1 DEF FolderJob
  <2>2. HoldsOf(p)'
    <3>1. fAt'[p] = "failed" /\ fJob'[p] = new
      BY <1>7, Gone DEF F!Busy, FInv
    <3> HIDE DEF new
    <3> QED
      BY <2>1, <3>1 DEF HoldsOf, F!Remembers
  <2> QED
    BY <1>1, <1>7, <2>1, <2>2, MovesFInv DEF F!Busy, F!files
<1>8. CASE F!Finish(p)
  BY <1>1, <1>2, <1>8, MovesFInv DEF F!Finish, F!files
<1>9. CASE F!Dies(p)
  <2>1. cut \subseteq cut' /\ cut' \subseteq Files
    BY <1>1, <1>9 DEF F!Dies, F!In, FInv, FTyped, F!TypeOK
  <2>2. fJob[p].n # NoFile => F!In(work, fJob[p].n) \subseteq cut'
    BY <1>9 DEF F!Dies
  <2> QED
    BY <1>1, <1>2, <1>9, <2>1, <2>2, MovesFInv DEF F!Dies, F!files, Unread
<1> QED
  BY <1>3, <1>4, <1>5, <1>6, <1>7, <1>8, <1>9

(* Files change their names: what of the invariant depends on where.       *)
LEMMA FilesFInv ==
  ASSUME FInv, FTyped', NEW p \in Readers,
         \A q \in Readers \ {p} : fAt'[q] = fAt[q] /\ fJob'[q] = fJob[q],
         UNCHANGED <<saved, cut>>, calls' = calls, clash \subseteq clash',
         \A n \in F!All : drop'[n] # NoFile /\ work'[n] # NoFile => {drop'[n], work'[n]} \subseteq clash',
         \A n \in Spare : Under(n)' \subseteq clash',
         \A n \in F!All : work'[n] # NoFile /\ (n \in old' \/ n \notin F!Held') => work'[n] \in cut \cup clash',
         \A q \in Readers \ {p} : fAt[q] \in Holding =>
             Under(fJob[q].n)' \ clash' \subseteq Under(fJob[q].n) \ clash,
         fAt'[p] \in Holding => HoldsOf(p)',
         fJob'[p].cache \cup skipped' \subseteq Unread \cup clash',
         \A n \in F!All : \A f \in Under(n) \ clash' :
             \/ \E m \in F!All : f \in Under(m)'
             \/ f \in calls /\ (f \in moved' \/ \E m \in F!All : processed'[m] = f),
         moved \subseteq moved', \A n \in F!All : processed[n] \in {NoFile, processed'[n]}
  PROVE  FInv'
<1>1. Met' /\ Left'
  BY DEF Met, Left
<1>2. ASSUME NEW q \in Readers, fAt'[q] \in Holding PROVE HoldsOf(q)'
  <2>1. CASE q = p
    BY <2>1, <1>2
  <2>2. CASE q # p
    BY <2>2, <1>2, HoldsStays DEF FInv, Holds
  <2> QED
    BY <2>1, <2>2
<1>3. Caches' /\ F!SetAside'
  BY DEF FInv, Caches, F!SetAside, Unread
<1>4. F!Kept'
  <2> SUFFICES ASSUME NEW f \in saved', f \notin clash'
               PROVE  \/ \E m \in F!All : f \in {drop'[m], work'[m]}
                      \/ f \in calls' /\ (f \in moved' \/ \E m \in F!All : processed'[m] = f)
    BY DEF F!Kept
  <2>1. f \in saved \ clash /\ f # NoFile
    BY PartsConstants DEF F!FolderConstants, FInv, FTyped, F!TypeOK
  <2>2. CASE \E n \in F!All : f \in {drop[n], work[n]}
    <3>1. PICK n \in F!All : f \in Under(n) \ clash'
      BY <2>1, <2>2 DEF Under, F!In
    <3> QED
      BY <3>1 DEF Under, F!In
  <2>3. CASE f \in calls /\ (f \in moved \/ \E m \in F!All : processed[m] = f)
    BY <2>1, <2>3
  <2> QED
    BY <2>1, <2>2, <2>3 DEF FInv, F!Kept
<1> QED
  BY <1>1, <1>2, <1>3, <1>4 DEF FInv, Holds

LEMMA RecoverFInv ==
  ASSUME FInv, NEW p \in Readers, NEW n \in F!All, NEW as \in F!All, F!Recover(p, n, as)
  PROVE  FInv'
<1> DEFINE new == [fJob[p] EXCEPT !.cache = @ \cup {work[n]}, !.noted = TRUE]
<1>1. /\ work[n] \in Files /\ work[n] # NoFile /\ n \in old /\ drop[as] = NoFile /\ fAt[p] = "recover"
      /\ as # n => drop[n] # NoFile /\ as \in Spare
  BY PartsConstants DEF F!FolderConstants, F!Recover, F!Free, FInv, FTyped, F!TypeOK
<1>2. fJob[p].n = NoFile /\ fJob[p] \in FolderJob
  BY <1>1 DEF FInv, FTyped, Holding
<1>3. new \in FolderJob /\ new.n = NoFile /\ new.cache = fJob[p].cache \cup {work[n]}
  BY <1>1, <1>2 DEF FolderJob
<1>4. F!Goto(p, "recover", new)
  BY DEF F!Recover
<1> HIDE DEF new
<1>5. /\ fAt'[p] = "recover" /\ fJob'[p] = new
      /\ \A q \in Readers \ {p} : fAt'[q] = fAt[q] /\ fJob'[q] = fJob[q]
  BY <1>4, Gone DEF FInv
<1>6. /\ drop' \in [F!All -> Files \cup {NoFile}] /\ work' \in [F!All -> Files \cup {NoFile}]
      /\ drop'[as] = work[n] /\ work'[n] = NoFile
      /\ \A m \in F!All \ {as} : drop'[m] = drop[m]
      /\ \A m \in F!All \ {n} : work'[m] = work[m]
  BY <1>1 DEF F!Recover, FInv, FTyped, F!TypeOK
<1>7. FTyped'
  <2>1. F!TypeOK'
    BY <1>6, ZenonT(40) DEF F!Recover, FInv, FTyped, F!TypeOK
  <2>2. fAt' \in [Readers -> {"idle", "recover", "next"} \cup Holding] /\ fJob' \in [Readers -> FolderJob]
    BY <1>3, <1>4 DEF F!Goto, FInv, FTyped
  <2> QED
    BY <1>3, <1>5, <2>1, <2>2 DEF FInv, FTyped, Holding
<1>8. work[n] \in cut \cup clash /\ (as # n => work[n] \in clash)
  BY <1>1 DEF FInv, Left, Met
<1>9. as \in Spare => work[n] \in clash
  BY <1>1, <1>8 DEF FInv, Met, Under, F!In
<1>10. \A m \in F!All : Under(m)' \ clash \subseteq Under(m) \ clash
  BY <1>1, <1>6, <1>8 DEF Under, F!In
<1>11. \A m \in F!All : drop'[m] # NoFile /\ work'[m] # NoFile => {drop'[m], work'[m]} \subseteq clash
  <2> SUFFICES ASSUME NEW m \in F!All, drop'[m] # NoFile, work'[m] # NoFile
               PROVE  {drop'[m], work'[m]} \subseteq clash
    OBVIOUS
  <2>1. CASE m = as
    BY <1>1, <1>6, <1>9, <2>1 DEF FInv, Met, Under, F!In
  <2>2. CASE m # as
    BY <1>6, <2>2 DEF FInv, Met
  <2> QED
    BY <2>1, <2>2
<1>12. \A m \in Spare : Under(m)' \subseteq clash
  BY <1>6, <1>9, <1>10 DEF FInv, Met, F!All
<1>13. F!Held' = F!Held
  <2>1. \A q \in Readers : fJob'[q].n = fJob[q].n
    BY <1>2, <1>3, <1>5
  <2> QED
    BY <2>1 DEF F!Held
<1>14. \A m \in F!All : work'[m] # NoFile /\ (m \in old' \/ m \notin F!Held') => work'[m] \in cut \cup clash
  BY <1>6, <1>13 DEF F!Recover, FInv, Left
<1>15. \A q \in Readers \ {p} : fAt[q] \in Holding => fJob[q].n \in F!All
  BY DEF FInv, FTyped, FolderJob, NameOK
<1>16. fJob'[p].cache \cup skipped' \subseteq Unread \cup clash'
  BY <1>3, <1>5, <1>8 DEF F!Recover, FInv, Caches, F!SetAside, Unread
<1>17. \A m \in F!All : \A f \in Under(m) \ clash' : \E k \in F!All : f \in Under(k)'
  <2> SUFFICES ASSUME NEW m \in F!All, NEW f \in Under(m) PROVE \E k \in F!All : f \in Under(k)'
    OBVIOUS
  <2>1. CASE m = n /\ f = work[n]
    <3>1. f \in Under(as)'
      BY <1>1, <1>6, <2>1 DEF Under, F!In
    <3> QED
      BY <3>1
  <2>2. CASE ~(m = n /\ f = work[n])
    <3>1. f \in Under(m)'
      BY <1>1, <1>6, <2>2 DEF Under, F!In
    <3> QED
      BY <3>1
  <2> QED
    BY <2>1, <2>2
<1>18. UNCHANGED <<saved, cut, calls, clash, moved, processed>>
  BY DEF F!Recover
<1> QED
  BY <1>5, <1>7, <1>10, <1>11, <1>12, <1>14, <1>15, <1>16, <1>17, <1>18, FilesFInv DEF Holding

LEMMA TakeFInv == ASSUME FInv, NEW p \in Readers, NEW n \in F!All, F!Take(p, n) PROVE FInv'
<1> USE DEF Holding
<1>1. /\ fAt[p] = "next" /\ fJob[p].n = NoFile /\ fJob[p] \in FolderJob /\ fJob[p].cache \subseteq Unread
      /\ n # NoFile
  BY PartsConstants DEF F!FolderConstants, F!Take, FInv, FTyped, Caches, F!All
<1>2. /\ clash \subseteq clash' /\ clash' \subseteq Files /\ (n \in F!Held => Under(n) \subseteq clash')
      /\ UNCHANGED <<processed, moved, skipped, calls, trouble, saved, cut>>
  BY DEF F!Take, FInv, FTyped, F!TypeOK, Under, F!In
<1>3. \A q \in Readers \ {p} : fAt[q] \in Holding => fJob[q].n \in F!All /\ fJob[q].n \in F!Held
  BY DEF FInv, FTyped, FolderJob, NameOK, F!Held
<1>4. CASE drop[n] # NoFile
  <2> DEFINE new == [fJob[p] EXCEPT !.n = n]
  <2>1. new \in FolderJob /\ new.n = n /\ new.cache = fJob[p].cache
    BY <1>1 DEF FolderJob, NameOK
  <2>2. F!Goto(p, "read", new)
    BY <1>4 DEF F!Take
  <2> HIDE DEF new
  <2>3. /\ fAt'[p] = "read" /\ fJob'[p] = new
        /\ \A q \in Readers \ {p} : fAt'[q] = fAt[q] /\ fJob'[q] = fJob[q]
    BY <2>2, Gone DEF FInv
  <2>4. /\ drop' \in [F!All -> Files \cup {NoFile}] /\ work' \in [F!All -> Files \cup {NoFile}]
        /\ work'[n] = drop[n] /\ drop'[n] = NoFile /\ old' = old \ {n}
        /\ \A m \in F!All \ {n} : drop'[m] = drop[m] /\ work'[m] = work[m]
    BY <1>4 DEF F!Take, FInv, FTyped, F!TypeOK
  <2>5. FTyped'
    BY <1>1, <1>2, <2>1, <2>2, <2>3, <2>4 DEF F!Goto, FInv, FTyped, F!TypeOK
  <2>6. \A m \in F!All : Under(m)' \subseteq Under(m)
    BY <2>4 DEF Under, F!In
  <2>7. \A m \in F!All : drop'[m] # NoFile /\ work'[m] # NoFile => {drop'[m], work'[m]} \subseteq clash'
    BY <1>2, <2>4 DEF FInv, Met
  <2>8. \A m \in Spare : Under(m)' \subseteq clash'
    BY <1>2, <2>6 DEF FInv, Met, F!All
  <2>9. n \in F!Held' /\ F!Held \subseteq F!Held'
    BY <1>1, <2>1, <2>3 DEF F!Held
  <2>10. \A m \in F!All : work'[m] # NoFile /\ (m \in old' \/ m \notin F!Held') => work'[m] \in cut \cup clash'
    BY <1>2, <2>4, <2>9 DEF FInv, Left
  <2>11. fJob'[p].cache \cup skipped' \subseteq Unread \cup clash'
    BY <1>1, <1>2, <2>1, <2>3 DEF FInv, F!SetAside, Unread
  <2>12. \A m \in F!All : \A f \in Under(m) \ clash' : \E k \in F!All : f \in Under(k)'
    BY <1>2, <1>4, <2>4 DEF Under, F!In, FInv, Met
  <2>13. HoldsOf(p)'
    BY <2>3 DEF HoldsOf
  <2> QED
    BY <1>2, <1>3, <2>3, <2>5, <2>6, <2>7, <2>8, <2>10, <2>11, <2>12, <2>13, FilesFInv
<1>5. CASE drop[n] = NoFile
  <2> DEFINE new == [fJob[p] EXCEPT !.n = n, !.kind = "SourceError"]
  <2>1. new \in FolderJob /\ new.n = n /\ new.cache = fJob[p].cache
    BY <1>1 DEF FolderJob, NameOK
  <2>2. F!Goto(p, "failed", new) /\ UNCHANGED <<drop, work, old>>
    BY <1>5 DEF F!Take
  <2> HIDE DEF new
  <2>3. /\ fAt'[p] = "failed" /\ fJob'[p] = new
        /\ \A q \in Readers \ {p} : fAt'[q] = fAt[q] /\ fJob'[q] = fJob[q]
    BY <2>2, Gone DEF FInv
  <2>4. FTyped'
    BY <1>1, <1>2, <2>1, <2>2, <2>3 DEF F!Goto, FInv, FTyped, F!TypeOK
  <2>5. n \in F!Held' /\ F!Held \subseteq F!Held'
    BY <1>1, <2>1, <2>3 DEF F!Held
  <2>6. HoldsOf(p)'
    BY <1>2, <1>5, <2>1, <2>2, <2>3 DEF HoldsOf, Under, F!In, FInv, Left, Unread
  <2>7. fJob'[p].cache \cup skipped' \subseteq Unread \cup clash'
    BY <1>1, <1>2, <2>1, <2>3 DEF FInv, F!SetAside, Unread
  <2>8. /\ \A m \in F!All : drop'[m] # NoFile /\ work'[m] # NoFile => {drop'[m], work'[m]} \subseteq clash'
        /\ \A m \in Spare : Under(m)' \subseteq clash'
    BY <1>2, <2>2 DEF FInv, Met, Under, F!In
  <2>9. \A m \in F!All : work'[m] # NoFile /\ (m \in old' \/ m \notin F!Held') => work'[m] \in cut \cup clash'
    BY <1>2, <2>2, <2>5 DEF FInv, Left
  <2>10. \A m \in F!All : Under(m)' = Under(m)
    BY <2>2 DEF Under, F!In
  <2> QED
    BY <1>2, <1>3, <2>3, <2>4, <2>6, <2>7, <2>8, <2>9, <2>10, FilesFInv
<1> QED
  BY <1>4, <1>5

(* What a poll is at when it is done with a file.                          *)
LEMMA DoneWithFile ==
  ASSUME FInv, NEW p \in Readers, fAt[p] \in {"imported", "failed"},
         NEW cache, cache \subseteq Files
  PROVE  LET new == [F!Done(p) EXCEPT !.cache = cache]
         IN  /\ fJob[p].n \in F!All /\ fJob[p].n # NoFile
             /\ F!Done(p) \in FolderJob /\ F!Done(p).n = NoFile /\ F!Done(p).cache = fJob[p].cache
             /\ new \in FolderJob /\ new.n = NoFile /\ new.cache = cache
<1>1. fJob[p] \in FolderJob /\ fJob[p].n \in F!All /\ fJob[p].n # NoFile
  BY DEF FInv, FTyped, FolderJob, NameOK, Holding
<1>2. F!Done(p) \in FolderJob /\ F!Done(p).n = NoFile /\ F!Done(p).cache = fJob[p].cache
  BY <1>1 DEF F!Done, FolderJob, NameOK
<1> QED
  BY <1>1, <1>2 DEF FolderJob

LEMMA AfterImportFInv == ASSUME FInv, NEW p \in Readers, F!AfterImport(p) PROVE FInv'
<1> DEFINE n == fJob[p].n
           src == IF work[n] # NoFile THEN work[n] ELSE drop[n]
<1>1. fAt[p] = "imported" /\ fJob[p].cache \subseteq Unread /\ HoldsOf(p)
  BY DEF F!AfterImport, FInv, Holds, Holding, Caches
<1>2. /\ n \in F!All /\ n # NoFile
      /\ F!Done(p) \in FolderJob /\ F!Done(p).n = NoFile /\ F!Done(p).cache = fJob[p].cache
  BY <1>1, DoneWithFile, Zenon
<1>3. F!Goto(p, "next", F!Done(p))
  BY DEF F!AfterImport
<1>4. /\ fAt'[p] = "next" /\ fJob'[p] = F!Done(p)
      /\ \A q \in Readers \ {p} : fAt'[q] = fAt[q] /\ fJob'[q] = fJob[q]
  BY <1>3, Gone DEF FInv
<1>5. UNCHANGED <<skipped, calls, saved, cut, clash>>
  BY DEF F!AfterImport
<1>6. /\ drop' \in [F!All -> Files \cup {NoFile}] /\ work' \in [F!All -> Files \cup {NoFile}]
      /\ work'[n] = NoFile /\ drop'[n] \in {NoFile, drop[n]} /\ old' \subseteq old
      /\ \A m \in F!All \ {n} : drop'[m] = drop[m] /\ work'[m] = work[m]
      /\ src = NoFile \/ work[n] = NoFile \/ drop'[n] = drop[n]
  BY <1>2 DEF F!AfterImport, F!files, FInv, FTyped, F!TypeOK
<1>7. /\ moved \subseteq moved' /\ moved' \subseteq Files
      /\ processed' \in [F!All -> Files \cup {NoFile}]
      /\ \A m \in F!All : processed[m] \in {NoFile, processed'[m]}
      /\ src # NoFile => src \in moved' \/ processed'[n] = src
  BY <1>2 DEF F!AfterImport, F!files, F!Stamped, FInv, FTyped, F!TypeOK
<1>8. FTyped'
  <2>1. F!TypeOK'
    BY <1>5, <1>6, <1>7 DEF FInv, FTyped, F!TypeOK
  <2>2. fAt' \in [Readers -> {"idle", "recover", "next"} \cup Holding] /\ fJob' \in [Readers -> FolderJob]
    BY <1>2, <1>3 DEF F!Goto, FInv, FTyped
  <2> QED
    BY <1>2, <1>4, <2>1, <2>2 DEF FInv, FTyped, Holding
<1>9. \A m \in F!All : Under(m)' \subseteq Under(m)
  BY <1>6 DEF Under, F!In
<1>10. /\ \A m \in F!All : drop'[m] # NoFile /\ work'[m] # NoFile => {drop'[m], work'[m]} \subseteq clash'
       /\ \A m \in Spare : Under(m)' \subseteq clash'
  BY <1>5, <1>6, <1>9 DEF FInv, Met, F!All
<1>11. F!Held \subseteq F!Held' \cup {n}
  BY <1>4 DEF F!Held
<1>12. \A m \in F!All : work'[m] # NoFile /\ (m \in old' \/ m \notin F!Held') => work'[m] \in cut \cup clash'
  BY <1>5, <1>6, <1>11 DEF FInv, Left
<1>13. \A q \in Readers \ {p} : fAt[q] \in Holding => fJob[q].n \in F!All
  BY DEF FInv, FTyped, FolderJob, NameOK
<1>14. fJob'[p].cache \cup skipped' \subseteq Unread \cup clash'
  BY <1>1, <1>2, <1>4, <1>5 DEF FInv, F!SetAside, Unread
<1>15. \A m \in F!All : \A f \in Under(m) \ clash' :
           \/ \E k \in F!All : f \in Under(k)'
           \/ f \in calls /\ (f \in moved' \/ \E k \in F!All : processed'[k] = f)
  <2> SUFFICES ASSUME NEW m \in F!All, NEW f \in Under(m), f \notin clash,
                      f \notin Under(m)'
               PROVE  f \in calls /\ (f \in moved' \/ processed'[n] = f)
    BY <1>2, <1>5
  <2>1. m = n
    BY <1>6 DEF Under, F!In
  <2>2. f \in calls
    BY <1>1, <2>1 DEF HoldsOf
  <2>3. f = src
    BY <1>6, <2>1 DEF Under, F!In, FInv, Met
  <2> QED
    BY <1>7, <2>2, <2>3 DEF Under, F!In
<1> QED
  BY <1>4, <1>5, <1>7, <1>8, <1>9, <1>10, <1>12, <1>13, <1>14, <1>15, FilesFInv DEF Holding

LEMMA AfterFailureFInv == ASSUME FInv, NEW p \in Readers, F!AfterFailure(p) PROVE FInv'
<1> DEFINE n == fJob[p].n
           back == work[n] # NoFile /\ drop[n] = NoFile
           path == IF back THEN work[n] ELSE drop[n]
           cache == IF path # NoFile /\ F!Remembers(fJob[p].kind) THEN fJob[p].cache \cup {path}
                                                                  ELSE fJob[p].cache
           new == [F!Done(p) EXCEPT !.cache = cache]
<1>1. fAt[p] = "failed" /\ fJob[p].cache \subseteq Unread /\ fJob[p].cache \subseteq Files /\ HoldsOf(p)
  BY DEF F!AfterFailure, FInv, Holds, Holding, Caches, FTyped, FolderJob
<1>2. n \in F!All /\ n # NoFile
  BY <1>1, DoneWithFile
<1>3. path # NoFile => path \in Under(n) /\ path \in Files
  BY <1>2 DEF Under, F!In, FInv, FTyped, F!TypeOK
<1>4. cache \subseteq Unread /\ cache \subseteq Files
  <2>1. path # NoFile /\ F!Remembers(fJob[p].kind) => path \in Unread
    BY <1>1, <1>3 DEF HoldsOf, Unread
  <2> QED
    BY <1>1, <1>3, <2>1
<1>5. F!Goto(p, "next", new)
  BY DEF F!AfterFailure
<1>6. new \in FolderJob /\ new.n = NoFile /\ new.cache = cache
  BY <1>1, <1>4, DoneWithFile
<1>7. skipped' \in {cache, skipped}
  BY DEF F!AfterFailure
<1>8. /\ drop' \in [F!All -> Files \cup {NoFile}] /\ work' \in [F!All -> Files \cup {NoFile}]
      /\ drop'[n] = path /\ old' \subseteq old
      /\ work'[n] = IF back THEN NoFile ELSE work[n]
      /\ \A m \in F!All \ {n} : drop'[m] = drop[m] /\ work'[m] = work[m]
  BY <1>2 DEF F!AfterFailure, FInv, FTyped, F!TypeOK
<1>9. \A m \in F!All : Under(m)' = Under(m)
  BY <1>8 DEF Under, F!In
<1>10. work'[n] # NoFile => work'[n] \in clash
  BY <1>2, <1>8 DEF FInv, Met
<1>11. UNCHANGED <<processed, moved, calls, saved, cut, clash>>
  BY DEF F!AfterFailure
<1> HIDE DEF new, cache, path, back
<1>12. /\ fAt'[p] = "next" /\ fJob'[p] = new
       /\ \A q \in Readers \ {p} : fAt'[q] = fAt[q] /\ fJob'[q] = fJob[q]
  BY <1>5, Gone DEF FInv
<1>13. FTyped'
  <2>1. F!TypeOK'
    BY <1>4, <1>7, <1>8, <1>11 DEF FInv, FTyped, F!TypeOK
  <2>2. fAt' \in [Readers -> {"idle", "recover", "next"} \cup Holding] /\ fJob' \in [Readers -> FolderJob]
    BY <1>5, <1>6 DEF F!Goto, FInv, FTyped
  <2> QED
    BY <1>6, <1>12, <2>1, <2>2 DEF FInv, FTyped, Holding
<1>14. /\ \A m \in F!All : drop'[m] # NoFile /\ work'[m] # NoFile => {drop'[m], work'[m]} \subseteq clash'
       /\ \A m \in Spare : Under(m)' \subseteq clash'
  <2>1. drop'[n] # NoFile /\ work'[n] # NoFile => {drop'[n], work'[n]} \subseteq clash
    BY <1>2, <1>8 DEF FInv, Met, back, path
  <2> QED
    BY <1>8, <1>9, <1>11, <2>1 DEF FInv, Met, F!All
<1>15. F!Held \subseteq F!Held' \cup {n}
  BY <1>12 DEF F!Held
<1>16. \A m \in F!All : work'[m] # NoFile /\ (m \in old' \/ m \notin F!Held') => work'[m] \in cut \cup clash'
  BY <1>8, <1>10, <1>11, <1>15 DEF FInv, Left
<1>17. \A q \in Readers \ {p} : fAt[q] \in Holding => fJob[q].n \in F!All
  BY DEF FInv, FTyped, FolderJob, NameOK
<1>18. fJob'[p].cache \cup skipped' \subseteq Unread \cup clash'
  BY <1>4, <1>6, <1>7, <1>11, <1>12 DEF FInv, F!SetAside, Unread
<1> QED
  BY <1>9, <1>11, <1>12, <1>13, <1>14, <1>16, <1>17, <1>18, FilesFInv DEF Holding

LEMMA StepFInv == FInv /\ [F!Next]_(F!vars) => FInv'
<1> SUFFICES ASSUME FInv, [F!Next]_(F!vars) PROVE FInv'
  OBVIOUS
<1>1. CASE UNCHANGED F!vars
  BY <1>1 DEF F!vars, FInv, FTyped, F!TypeOK, Met, Left, Holds, HoldsOf, Caches, Unread, Under,
              F!In, F!Held, F!Remembers, F!Kept, F!SetAside
<1>2. CASE F!Next
  BY <1>2, SaveFInv, AgesFInv, QuietFInv, AfterImportFInv, AfterFailureFInv, TakeFInv, RecoverFInv
     DEF F!Next
<1> QED
  BY <1>1, <1>2

(* What the seller saves in the folder stays there or becomes a call, and  *)
(* only what cannot be read, or what a poll died over, is set aside, for   *)
(* any polls at once and deaths of them, but for files that met another    *)
(* (sources/adapters/folder.py, list_recent to after_failure).             *)
THEOREM FilesAreKept == AllSpec => []FolderKept
<1> DEFINE Inv == part = "folder" => FInv
           all == <<part, vars, fvars, svars>>
<1>1. AllInit => Inv
  BY InitFInv DEF AllInit
<1>2. Inv /\ [AllNext]_all => Inv'
  <2> SUFFICES ASSUME Inv, [AllNext]_all, part' = "folder" PROVE FInv'
    OBVIOUS
  <2>1. part = "folder" /\ [F!Next]_(F!vars)
    BY DEF AllNext, fvars, F!vars
  <2> QED
    BY <2>1, StepFInv
<1>3. Inv => FolderKept
  BY DEF FInv, FTyped, FolderKept
<1> QED
  BY <1>1, <1>2, <1>3, PTL DEF AllSpec

----------------------------------------------------------------------------
(* Opening the store, for any openers, rows and columns.                   *)

Tables == {"calls", "loops", "emails"}
Database ==
    [tables : SUBSET Tables, version : 0..5, cols : SUBSET S!Today, calls : SUBSET Calls,
     history : SUBSET Calls, shape : {"new", "old"}, words : {"absent", "old", "new", "dropped"},
     plugin : SUBSET Columns]
Transaction == {"copies", "renames", "commits"}
Last == {"plugins", "compares", "adds", "open"}

(* The places of an opener, and how far it is at each.                     *)
Place(s, i) ==
    \/ s \in {"looks", "reads", "failed"} \cup Last /\ i = 0
    \/ s = "creates" /\ i \in 1..4
    \/ s = "step" /\ i \in 2..5
    \/ s = "script2" /\ i \in 1..4
    \/ s = "script3" /\ i \in 1..2
    \/ s \in Transaction /\ i \in 4..5

(* The last migration an opener at a place knows of.                       *)
Level(s, i) == IF s \in {"step"} \cup Transaction THEN i - 1
               ELSE IF s = "script3" THEN 2
               ELSE IF s \in Last THEN 5 ELSE 0

(* An opener that has added a column by a script it has not finished.      *)
InScript(s, i) == s \in {"script2", "script3"} /\ i > 1
Mid(o) == InScript(sAt[o][1], sAt[o][2])

SawOK ==
    /\ saw = [o \in Openers |-> saw[o]]
    /\ \A o \in Openers : saw[o].columns \subseteq Columns
                         /\ saw[o] = [version |-> saw[o].version, columns |-> saw[o].columns]

OTyped ==
    /\ db \in Database /\ db.words # "dropped" /\ copy \in Database
    /\ writer \in Openers \cup {NoOne}
    /\ \A o \in Openers : sAt[o] = <<sAt[o][1], sAt[o][2]>> /\ Place(sAt[o][1], sAt[o][2])
    /\ sAt = [o \in Openers |-> sAt[o]] /\ SawOK
    /\ rows \in {{}, Calls}

(* A version says what was done, and nobody is further than it.            *)
Done(d, n) ==
    /\ n >= 2 => {"world_link", "rfc822_message_id", "user_added_addrs"} \subseteq d.cols
    /\ n >= 3 => "attempt_mode" \in d.cols
    /\ n >= 4 => d.shape = "new"
    /\ n >= 5 => d.words # "old"
Reached == Done(db, db.version) /\ \A o \in Openers : Level(sAt[o][1], sAt[o][2]) <= 
                                        (IF db.version < 1 THEN 1 ELSE db.version)

(* One opener at most is in the middle of a script, and its columns are    *)
(* there while the version is not.                                         *)
Middle ==
    /\ \A o \in Openers : Mid(o) =>
          LET n == IF sAt[o][1] = "script2" THEN 2 ELSE 3
          IN  db.version < n /\ \A j \in 1..(sAt[o][2] - 1) : S!Script[n][j] \in db.cols
    /\ \A o, q \in Openers : Mid(o) /\ Mid(q) => o = q

(* A database that is being created is of today, and nobody is in a script.*)
OfToday(d) == d.shape = "new" /\ d.words # "old" /\ (d.tables \cap {"loops", "emails"} # {} => d.cols = S!Today)
Created ==
    /\ ("calls" \notin db.tables \/ \E o \in Openers : sAt[o][1] = "creates") =>
          OfToday(db) /\ \A o \in Openers : ~Mid(o)
    /\ \A o \in Openers : sAt[o][1] = "creates" /\ sAt[o][2] >= 3 => db.cols = S!Today

(* What the transaction that is open has done.                             *)
Rebuilt(d) == [d EXCEPT !.tables = @ \cup {"calls"}, !.calls = d.calls, !.shape = "new",
                        !.history = S!HistoryOf(d)]
Reworded(d, w) == [d EXCEPT !.words = IF @ = "old" THEN w ELSE @]
Working ==
    /\ \A o \in Openers : sAt[o][1] \in Transaction <=> writer = o
    /\ writer = NoOne => copy = db
    /\ \A o \in Openers : writer = o =>
          LET s == sAt[o][1]  n == sAt[o][2]
          IN  /\ db.version < n /\ n \in 4..5
              /\ s = "copies" => copy = db
              /\ s = "renames" => copy = IF n = 4 THEN [db EXCEPT !.tables = @ \ {"calls"}, !.calls = {}]
                                                  ELSE Reworded(db, "dropped")
              /\ s = "commits" => copy = IF n = 4 THEN Rebuilt(db) ELSE Reworded(db, "new")

OInv == OTyped /\ Reached /\ Middle /\ Created /\ Working /\ S!NothingLost

LEMMA StoreNames ==
  /\ S!Today = {"world_link", "rfc822_message_id", "user_added_addrs", "attempt_mode"}
  /\ S!Added(1) = {} /\ S!Added(2) = S!Today \ {"attempt_mode"}
  /\ S!Added(3) = S!Today /\ S!Added(4) = S!Today /\ S!Added(5) = S!Today
  /\ S!Script[2] = <<"world_link", "rfc822_message_id", "user_added_addrs">> /\ Len(S!Script[2]) = 3
  /\ S!Script[3] = <<"attempt_mode">> /\ Len(S!Script[3]) = 1
  /\ DOMAIN S!Script = {2, 3} /\ S!Version = 5
<1>1. /\ S!Script[2] = <<"world_link", "rfc822_message_id", "user_added_addrs">> /\ Len(S!Script[2]) = 3
      /\ S!Script[3] = <<"attempt_mode">> /\ Len(S!Script[3]) = 1
      /\ DOMAIN S!Script = {2, 3} /\ S!Version = 5
  BY DEF S!Script, S!Version
<1> DEFINE of(n) == {S!Script[n][i] : i \in DOMAIN S!Script[n]}
<1>2. of(2) = {"world_link", "rfc822_message_id", "user_added_addrs"}
  <2>1. DOMAIN S!Script[2] = 1..3
    BY <1>1
  <2>2. S!Script[2][1] = "world_link" /\ S!Script[2][2] = "rfc822_message_id"
        /\ S!Script[2][3] = "user_added_addrs"
    BY <1>1
  <2> QED
    BY <2>1, <2>2
<1>3. of(3) = {"attempt_mode"}
  <2>1. DOMAIN S!Script[3] = 1..1 /\ S!Script[3][1] = "attempt_mode"
    BY <1>1
  <2> QED
    BY <2>1
<1>4. \A v \in 1..5 : S!Added(v) = UNION {of(n) : n \in {2, 3} \cap (0..v)}
  BY DEF S!Added
<1> HIDE DEF of
<1>5. \A v \in 1..5 : \A c : c \in S!Added(v) <=> (v >= 2 /\ c \in of(2)) \/ (v >= 3 /\ c \in of(3))
  <2> TAKE v \in 1..5
  <2>1. \A n \in {2, 3} : n \in 0..v <=> v >= n
    OBVIOUS
  <2>2. 2 \in 0..v <=> v >= 2
    BY <2>1
  <2>3. 3 \in 0..v <=> v >= 3
    BY <2>1
  <2>4. \A c : c \in S!Added(v) <=> \E n \in {2, 3} : n \in 0..v /\ c \in of(n)
    BY <1>4
  <2> QED
    BY <2>2, <2>3, <2>4
<1>6. /\ \A c : c \notin S!Added(1)
      /\ \A c : c \in S!Added(2) <=> c \in of(2)
      /\ \A v \in 3..5 : \A c : c \in S!Added(v) <=> c \in of(2) \cup of(3)
  BY <1>5
<1>7. S!Added(1) = {} /\ S!Added(2) = of(2) /\ \A v \in 3..5 : S!Added(v) = of(2) \cup of(3)
  BY <1>6
<1>8. of(2) \cup of(3) = {"world_link", "rfc822_message_id", "user_added_addrs", "attempt_mode"}
  BY <1>2, <1>3
<1>9. S!Today = S!Added(5)
  BY <1>1 DEF S!Today
<1> QED
  BY <1>1, <1>2, <1>7, <1>8, <1>9

LEMMA Lengths ==
  /\ Len(S!Script[2]) = 3 /\ Len(S!Script[3]) = 1
  /\ S!Today = {"world_link", "rfc822_message_id", "user_added_addrs", "attempt_mode"}
  BY StoreNames

(* The updates of an opener's place.                                       *)
LEMMA Went ==
  ASSUME OTyped, NEW o \in Openers, NEW s, NEW i, S!Goto(o, s, i), Place(s, i)
  PROVE  /\ sAt'[o] = <<s, i>> /\ sAt'[o][1] = s /\ sAt'[o][2] = i
         /\ \A q \in Openers \ {o} : sAt'[q] = sAt[q]
         /\ sAt' = [q \in Openers |-> sAt'[q]]
         /\ \A q \in Openers : sAt'[q] = <<sAt'[q][1], sAt'[q][2]>> /\ Place(sAt'[q][1], sAt'[q][2])
<1>1. sAt' = [q \in Openers |-> IF q = o THEN <<s, i>> ELSE sAt[q]]
  BY DEF OTyped, S!Goto
<1>2. sAt'[o] = <<s, i>> /\ \A q \in Openers \ {o} : sAt'[q] = sAt[q]
  BY <1>1
<1>3. sAt'[o][1] = s /\ sAt'[o][2] = i
  BY <1>2
<1>4. \A q \in Openers : sAt'[q] = <<sAt'[q][1], sAt'[q][2]>> /\ Place(sAt'[q][1], sAt'[q][2])
  BY <1>2, <1>3 DEF OTyped
<1> QED
  BY <1>1, <1>2, <1>3, <1>4

LEMMA InitOInv == S!Init => OInv
<1> SUFFICES ASSUME S!Init PROVE OInv
  OBVIOUS
<1>1. /\ db = S!Empty \/ (\E v \in 1..4, w \in {"absent", "old"} : db = [S!Old(v) EXCEPT !.words = w])
                      \/ db = [S!Old(5) EXCEPT !.words = "new"]
      /\ copy = db /\ writer = NoOne /\ rows = db.calls /\ words = (db.words # "absent")
  BY DEF S!Init
<1>2. \A o \in Openers : sAt[o] = <<"looks", 0>> /\ sAt[o][1] = "looks" /\ sAt[o][2] = 0
  BY DEF S!Init
<1> DEFINE first == /\ db \in Database /\ db.words # "dropped" /\ Done(db, db.version)
                    /\ db.calls \in {{}, Calls}
                    /\ "calls" \notin db.tables => OfToday(db)
                    /\ db.calls # {} => db.history = IF db.shape = "new" THEN Granola ELSE {}
<1>3. first
  <2> USE PartsConstants DEF S!StoreConstants, Database, Tables, Done, OfToday
  <2>1. CASE db = S!Empty
    BY <2>1 DEF S!Empty
  <2>2. ASSUME NEW v \in 1..5, NEW w \in {"absent", "old", "new"}, db = [S!Old(v) EXCEPT !.words = w],
               v = 5 => w = "new", w = "new" => v = 5
        PROVE  first
    <3>1. db = [tables |-> {"calls", "loops", "emails"}, version |-> v, cols |-> S!Added(v),
                calls |-> Calls, history |-> IF v >= 4 THEN Granola ELSE {},
                shape |-> IF v >= 4 THEN "new" ELSE "old", words |-> w, plugin |-> {}]
      BY <2>2 DEF S!Old
    <3>2. S!Added(v) \subseteq S!Today
      BY StoreNames
    <3>3. Done(db, v)
      BY <2>2, <3>1, StoreNames
    <3>4. db \in Database /\ db.words # "dropped" /\ db.version = v
      <4>1. v \in 0..5 /\ Granola \subseteq Calls /\ w # "dropped"
        BY <2>2
      <4>2. (IF v >= 4 THEN Granola ELSE {}) \in SUBSET Calls
        BY <4>1
      <4>3. (IF v >= 4 THEN "new" ELSE "old") \in {"new", "old"}
        OBVIOUS
      <4> QED
        BY <3>1, <3>2, <4>1, <4>2, <4>3
    <3>5. db.calls = Calls /\ "calls" \in db.tables
      BY <3>1
    <3>6. db.history = IF db.shape = "new" THEN Granola ELSE {}
      BY <3>1
    <3> QED
      BY <3>3, <3>4, <3>5, <3>6
  <2> QED
    BY <1>1, <2>1, <2>2
<1>4. OTyped
  BY <1>1, <1>2, <1>3 DEF S!Init, OTyped, SawOK, Place, Last
<1>5. Reached /\ Middle /\ Created
  BY <1>2, <1>3 DEF Reached, Level, Transaction, Last, Middle, Mid, InScript, Created, Database
<1>6. Working
  BY PartsConstants, <1>1, <1>2 DEF S!StoreConstants, Working, Transaction
<1>7. S!NothingLost
  BY <1>1, <1>3 DEF S!NothingLost, Database
<1> QED
  BY <1>4, <1>5, <1>6, <1>7 DEF OInv

(* An opener goes on without touching the database.                        *)
LEMMA WalkOInv ==
  ASSUME OInv, NEW o \in Openers, NEW s, NEW i, S!Goto(o, s, i), Place(s, i),
         s \notin Transaction, sAt[o][1] \notin Transaction, ~InScript(s, i),
         Level(s, i) <= (IF db.version < 1 THEN 1 ELSE db.version),
         s = "creates" => i = 1 /\ "calls" \notin db.tables,
         UNCHANGED <<db, copy, writer, rows, words>>,
         SawOK'
  PROVE  OInv'
<1>1. /\ sAt'[o][1] = s /\ sAt'[o][2] = i
      /\ \A q \in Openers \ {o} : sAt'[q] = sAt[q]
      /\ sAt' = [q \in Openers |-> sAt'[q]]
      /\ \A q \in Openers : sAt'[q] = <<sAt'[q][1], sAt'[q][2]>> /\ Place(sAt'[q][1], sAt'[q][2])
  BY Went DEF OInv
<1>2. OTyped'
  BY <1>1 DEF OInv, OTyped
<1>3. Reached'
  BY <1>1 DEF OInv, Reached
<1>4. \A q \in Openers : Mid(q)' => Mid(q) /\ q # o
  BY <1>1 DEF Mid
<1>5. Middle'
  BY <1>1, <1>4 DEF OInv, Middle
<1>6. Created'
  BY <1>1, <1>4 DEF OInv, Created
<1>7. Working'
  BY <1>1 DEF OInv, Working
<1>8. S!NothingLost'
  BY DEF OInv, S!NothingLost
<1> QED
  BY <1>2, <1>3, <1>5, <1>6, <1>7, <1>8 DEF OInv

(* A statement on its own takes the database further.                      *)
Onward(o, new, s, i) ==
    /\ new \in Database /\ Place(s, i) /\ s \notin Transaction
    /\ new.calls = db.calls /\ new.history = db.history /\ new.shape = db.shape
    /\ new.words = db.words \/ (db.words = "absent" /\ new.words = "new")
    /\ db.tables \subseteq new.tables /\ db.cols \subseteq new.cols /\ db.version <= new.version
    /\ Done(new, new.version) /\ Level(s, i) <= (IF new.version < 1 THEN 1 ELSE new.version)
    /\ InScript(s, i) => /\ \A q \in Openers \ {o} : ~Mid(q)
                         /\ LET n == IF s = "script2" THEN 2 ELSE 3
                            IN  new.version < n /\ \A j \in 1..(i - 1) : S!Script[n][j] \in new.cols
    /\ new.version # db.version => \A q \in Openers \ {o} : ~Mid(q)
    /\ "calls" \notin new.tables \/ s = "creates" \/ (\E q \in Openers : sAt[q][1] = "creates") =>
           OfToday(new) /\ ~InScript(s, i) /\ \A q \in Openers \ {o} : ~Mid(q)
    /\ s = "creates" /\ i >= 3 => new.cols = S!Today

LEMMA StatementOInv ==
  ASSUME OInv, NEW o \in Openers, NEW new, S!Statement(new), sAt[o][1] \notin Transaction,
         NEW s, NEW i, S!Goto(o, s, i), Onward(o, new, s, i), rows' = rows, words' = words, SawOK'
  PROVE  OInv'
<1> USE DEF Onward
<1>1. db' = new /\ copy' = new /\ writer' = writer /\ writer = NoOne
  BY DEF S!Statement, S!Free
<1>2. /\ sAt'[o][1] = s /\ sAt'[o][2] = i
      /\ \A q \in Openers \ {o} : sAt'[q] = sAt[q]
      /\ sAt' = [q \in Openers |-> sAt'[q]]
      /\ \A q \in Openers : sAt'[q] = <<sAt'[q][1], sAt'[q][2]>> /\ Place(sAt'[q][1], sAt'[q][2])
  BY Went DEF OInv, S!Goto
<1>3. OTyped'
  BY <1>1, <1>2 DEF OInv, OTyped
<1>4. Reached'
  <2>1. db.version \in 0..5 /\ new.version \in 0..5
    BY DEF OInv, OTyped, Database
  <2>2. \A q \in Openers \ {o} : Level(sAt[q][1], sAt[q][2]) \in Int
    BY DEF OInv, OTyped, Level, Place, Transaction, Last
  <2> QED
    BY <1>1, <1>2, <2>1, <2>2 DEF OInv, Reached
<1>5. (Mid(o)' <=> InScript(s, i)) /\ \A q \in Openers \ {o} : Mid(q)' <=> Mid(q)
  BY <1>2 DEF Mid
<1>6. Middle'
  BY <1>1, <1>2, <1>5 DEF OInv, Middle
<1>7. Created'
  <2>1. \A q \in Openers : sAt'[q][1] = "creates" /\ sAt'[q][2] >= 3 => db'.cols = S!Today
    <3> SUFFICES ASSUME NEW q \in Openers, sAt'[q][1] = "creates", sAt'[q][2] >= 3, q # o
                 PROVE  new.cols = S!Today
      BY <1>1, <1>2
    <3>1. db.cols = S!Today
      BY <1>2 DEF OInv, Created
    <3> QED
      BY <3>1 DEF Database
  <2>2. ("calls" \notin db'.tables \/ \E q \in Openers : sAt'[q][1] = "creates") =>
            OfToday(new) /\ ~InScript(s, i) /\ \A q \in Openers \ {o} : ~Mid(q)
    BY <1>1, <1>2
  <2> QED
    BY <1>1, <1>5, <2>1, <2>2 DEF Created
<1>8. Working'
  BY <1>1, <1>2, PartsConstants DEF OInv, Working, S!StoreConstants
<1>9. S!NothingLost'
  BY <1>1 DEF OInv, S!NothingLost
<1> QED
  BY <1>3, <1>4, <1>6, <1>7, <1>8, <1>9 DEF OInv

(* What holds at the place of an opener.                                   *)
LEMMA Here ==
  ASSUME OInv, NEW o \in Openers
  PROVE  /\ Place(sAt[o][1], sAt[o][2]) /\ db \in Database /\ db.version \in 0..5
         /\ Level(sAt[o][1], sAt[o][2]) <= (IF db.version < 1 THEN 1 ELSE db.version)
         /\ SawOK /\ (saw' = saw => SawOK')
  BY DEF OInv, OTyped, Reached, Database, SawOK

LEMMA SawChanges ==
  ASSUME OInv, NEW o \in Openers, NEW x,
         \/ saw' = [saw EXCEPT ![o].version = x]
         \/ saw' = [saw EXCEPT ![o].columns = x] /\ x \subseteq Columns
  PROVE  SawOK'
<1> USE DEF SawOK
<1>1. saw' = [q \in Openers |-> saw'[q]] /\ \A q \in Openers \ {o} : saw'[q] = saw[q]
  BY Here
<1>2. \/ saw'[o] = [version |-> x, columns |-> saw[o].columns]
      \/ saw'[o] = [version |-> saw[o].version, columns |-> x] /\ x \subseteq Columns
  BY Here
<1>3. saw'[o].columns \subseteq Columns /\ saw'[o] = [version |-> saw'[o].version, columns |-> saw'[o].columns]
  BY <1>2, Here
<1> QED
  BY <1>1, <1>3, Here

LEMMA LooksOInv ==
  ASSUME OInv, NEW o \in Openers, S!Looks(o) \/ S!Reads(o) \/ S!StartScript(o) \/ S!Compares(o),
         UNCHANGED <<rows, words>>
  PROVE  OInv'
<1> USE DEF Transaction, Last, Level, Place, InScript, S!Is
<1>1. CASE S!Looks(o)
  <2>1. UNCHANGED <<db, copy, writer, saw>> /\ sAt[o][1] = "looks"
    BY <1>1 DEF S!Looks
  <2>2. CASE "calls" \in db.tables
    <3>1. S!Goto(o, "reads", 0)
      BY <1>1, <2>2 DEF S!Looks
    <3> QED
      BY <2>1, <3>1, Here, WalkOInv
  <2>3. CASE "calls" \notin db.tables
    <3>1. S!Goto(o, "creates", 1)
      BY <1>1, <2>3 DEF S!Looks
    <3> QED
      BY <2>1, <2>3, <3>1, Here, WalkOInv
  <2> QED
    BY <2>2, <2>3
<1>2. CASE S!Reads(o)
  <2>1. UNCHANGED <<db, copy, writer>> /\ sAt[o][1] = "reads" /\ saw' = [saw EXCEPT ![o].version = db.version]
    BY <1>2 DEF S!Reads
  <2>2. SawOK'
    BY <2>1, SawChanges
  <2>3. CASE db.version < 5
    <3> DEFINE n == IF db.version < 2 THEN 2 ELSE db.version + 1
    <3>1. S!Goto(o, "step", n)
      BY <1>2, <2>3, StoreNames DEF S!Reads
    <3>2. n \in 2..5 /\ n - 1 <= (IF db.version < 1 THEN 1 ELSE db.version)
      BY <2>3, Here
    <3> HIDE DEF n
    <3> QED
      BY <2>1, <2>2, <3>1, <3>2, WalkOInv
  <2>4. CASE ~(db.version < 5)
    <3>1. S!Goto(o, "plugins", 0) /\ db.version = 5
      BY <1>2, <2>4, StoreNames, Here DEF S!Reads
    <3>2. Place("plugins", 0) /\ Level("plugins", 0) <= (IF db.version < 1 THEN 1 ELSE db.version)
      BY <3>1
    <3> QED
      BY <2>1, <2>2, <3>1, <3>2, WalkOInv
  <2> QED
    BY <2>3, <2>4
<1>3. CASE S!StartScript(o)
  <2>1. /\ UNCHANGED <<db, copy, writer, saw>> /\ sAt[o][1] = "step" /\ sAt[o][2] \in {2, 3}
        /\ S!Goto(o, S!Run(sAt[o][2]), 1)
    BY <1>3, StoreNames DEF S!StartScript
  <2>2. sAt[o][2] = 3 => 2 <= (IF db.version < 1 THEN 1 ELSE db.version)
    BY <2>1, Here
  <2>3. S!Run(sAt[o][2]) = IF sAt[o][2] = 2 THEN "script2" ELSE "script3"
    BY DEF S!Run
  <2>4. CASE sAt[o][2] = 2
    BY <2>1, <2>3, <2>4, Here, WalkOInv
  <2>5. CASE sAt[o][2] = 3
    BY <2>1, <2>2, <2>3, <2>5, Here, WalkOInv
  <2> QED
    BY <2>1, <2>4, <2>5
<1>4. CASE S!Compares(o)
  <2>1. UNCHANGED <<db, copy, writer>> /\ sAt[o][1] = "compares" /\ S!Goto(o, "adds", 0)
        /\ saw' = [saw EXCEPT ![o].columns = Columns \ db.plugin]
    BY <1>4 DEF S!Compares
  <2>2. SawOK'
    BY <2>1, SawChanges
  <2> QED
    BY <2>1, <2>2, Here, WalkOInv
<1> QED
  BY <1>1, <1>2, <1>3, <1>4

(* Columns that a script has still to add are not there when somebody adds *)
(* its first, and nobody else is in the middle of one then.                *)
LEMMA AlongScript ==
  ASSUME OInv, NEW o \in Openers, NEW n \in {2, 3}, sAt[o][1] = S!Run(n),
         sAt[o][2] <= Len(S!Script[n]), S!Script[n][sAt[o][2]] \notin db.cols
  PROVE  /\ db.version < n /\ (\A q \in Openers \ {o} : ~Mid(q))
         /\ \A j \in 1..(sAt[o][2] - 1) : S!Script[n][j] \in db.cols
<1> DEFINE i == sAt[o][2]
<1>1. i \in 1..Len(S!Script[n])
  BY Here, StoreNames DEF Place, S!Run, Transaction, Last
<1>2. CASE i > 1
  <2>1. Mid(o) /\ n = IF sAt[o][1] = "script2" THEN 2 ELSE 3
    BY <1>2 DEF Mid, InScript, S!Run
  <2> QED
    BY <2>1 DEF OInv, Middle
<1>3. CASE i = 1
  <2>1. S!Script[n][1] \notin db.cols
    BY <1>3
  <2>2. db.version < n
    BY <2>1, Here, StoreNames DEF OInv, Reached, Done
  <2>3. ASSUME NEW q \in Openers \ {o}, Mid(q) PROVE FALSE
    <3>1. CASE sAt[q][1] = S!Run(n)
      <4>1. \A j \in 1..(sAt[q][2] - 1) : S!Script[n][j] \in db.cols
        BY <2>3, <3>1 DEF OInv, Middle, S!Run
      <4>2. 1 \in 1..(sAt[q][2] - 1)
        BY <2>3, Here DEF Mid, InScript, Place, Transaction, Last
      <4> QED
        BY <2>1, <4>1, <4>2
    <3>2. CASE n = 2 /\ sAt[q][1] = "script3"
      BY <2>2, <3>2, Here DEF Level, Transaction, Last
    <3>3. CASE n = 3 /\ sAt[q][1] = "script2"
      <4>1. db.version < 2
        BY <2>3, <3>3 DEF OInv, Middle
      <4>2. Level(sAt[o][1], sAt[o][2]) = 2
        BY <3>3 DEF Level, Transaction, Last, S!Run
      <4> QED
        BY <4>1, <4>2, Here
    <3> QED
      BY <2>3, <3>1, <3>2, <3>3 DEF Mid, InScript, S!Run
  <2>4. 1..(i - 1) = {}
    BY <1>3
  <2> QED
    BY <2>2, <2>3, <2>4
<1> QED
  BY <1>1, <1>2, <1>3

LEMMA CreatesOInv ==
  ASSUME OInv, NEW o \in Openers, S!Creates(o), UNCHANGED <<rows, words>> PROVE OInv'
<1> DEFINE i == sAt[o][2]
<1>1. sAt[o][1] = "creates" /\ i \in 1..4 /\ saw' = saw
  BY Here DEF S!Creates, S!Is, Place, Transaction, Last
<1>2. OfToday(db) /\ (\A q \in Openers : ~Mid(q)) /\ (i >= 3 => db.cols = S!Today)
  BY <1>1 DEF OInv, Created
<1>3. Len(S!Core) = 3 /\ S!Core[1] = "calls" /\ S!Core[2] = "loops" /\ S!Core[3] = "emails"
  BY DEF S!Core
<1>4. db \in Database /\ db.version \in 0..5 /\ db.cols \subseteq S!Today
  BY Here DEF Database
<1>5. CASE i > 3
  <2> DEFINE new == [db EXCEPT !.version = 5]
  <2>1. /\ new \in Database /\ new.version = 5 /\ new.cols = db.cols /\ new.tables = db.tables
        /\ new.calls = db.calls /\ new.history = db.history /\ new.shape = db.shape /\ new.words = db.words
    BY <1>4 DEF Database
  <2>2. S!Statement(new) /\ S!Goto(o, "reads", 0)
    BY <1>1, <1>3, <1>5, StoreNames DEF S!Creates
  <2> HIDE DEF new
  <2>3. Done(new, 5) /\ OfToday(new)
    <3>1. new.cols = {"world_link", "rfc822_message_id", "user_added_addrs", "attempt_mode"}
      BY <1>1, <1>2, <1>5, <2>1, Lengths
    <3> QED
      BY <1>2, <1>5, <2>1, <3>1 DEF Done, OfToday
  <2>4. Place("reads", 0) /\ ~InScript("reads", 0) /\ Level("reads", 0) = 0 /\ "reads" \notin Transaction
    BY DEF Place, InScript, Level, Transaction, Last
  <2>5. Onward(o, new, "reads", 0)
    BY <1>2, <1>4, <2>1, <2>3, <2>4 DEF Onward
  <2> QED
    BY <1>1, <2>2, <2>5, Here, StatementOInv DEF Transaction
<1>6. CASE i <= 3
  <2> DEFINE new == [db EXCEPT !.tables = @ \cup {S!Core[i]},
                               !.cols = IF S!Core[i] = "calls" THEN @ ELSE S!Today]
  <2>1. /\ new \in Database /\ new.version = db.version /\ new.tables = db.tables \cup {S!Core[i]}
        /\ new.cols = IF i = 1 THEN db.cols ELSE S!Today
        /\ new.calls = db.calls /\ new.history = db.history /\ new.shape = db.shape /\ new.words = db.words
    <3>1. S!Core[i] \in Tables /\ (S!Core[i] = "calls" <=> i = 1)
      <4>1. i = 1 \/ i = 2 \/ i = 3
        BY <1>1, <1>6
      <4> QED
        BY <1>3, <4>1 DEF Tables
    <3>2. (IF i = 1 THEN db.cols ELSE S!Today) \in SUBSET S!Today
      BY <1>4
    <3> QED
      BY <1>4, <3>1, <3>2 DEF Database
  <2>2. S!Statement(new) /\ S!Goto(o, "creates", i + 1)
    BY <1>1, <1>3, <1>6 DEF S!Creates
  <2> HIDE DEF new
  <2>3. db.cols \subseteq new.cols
    BY <1>4, <2>1
  <2>4. Done(new, new.version)
    BY <2>1, <2>3 DEF OInv, Reached, Done
  <2>5. OfToday(new) /\ (i + 1 >= 3 => new.cols = S!Today)
    BY <1>1, <1>2, <1>3, <1>6, <2>1 DEF OfToday
  <2>6. /\ Place("creates", i + 1) /\ ~InScript("creates", i + 1) /\ Level("creates", i + 1) = 0
        /\ "creates" \notin Transaction
    BY <1>1, <1>6 DEF Place, InScript, Level, Transaction, Last
  <2>7. Onward(o, new, "creates", i + 1)
    BY <1>2, <1>4, <2>1, <2>3, <2>4, <2>5, <2>6 DEF Onward
  <2> QED
    BY <1>1, <2>2, <2>7, Here, StatementOInv DEF Transaction
<1> QED
  BY <1>1, <1>5, <1>6

(* Where an opener goes once migration n is done.                          *)
LEMMA Afterwards ==
  ASSUME NEW o \in Openers, NEW n \in 2..5, S!After(o, n)
  PROVE  \E s, i : /\ S!Goto(o, s, i) /\ Place(s, i) /\ ~InScript(s, i) /\ Level(s, i) = n
                   /\ s \notin Transaction /\ s # "creates"
<1>1. CASE n < 5
  <2>1. S!Goto(o, "step", n + 1)
    BY <1>1, StoreNames DEF S!After
  <2>2. Place("step", n + 1) /\ ~InScript("step", n + 1) /\ Level("step", n + 1) = n /\ "step" \notin Transaction
    BY <1>1 DEF Place, InScript, Level, Transaction, Last
  <2> QED
    BY <2>1, <2>2
<1>2. CASE n = 5
  <2>1. S!Goto(o, "plugins", 0)
    BY <1>2, StoreNames DEF S!After
  <2>2. Place("plugins", 0) /\ ~InScript("plugins", 0) /\ Level("plugins", 0) = 5 /\ "plugins" \notin Transaction
    BY DEF Place, InScript, Level, Transaction, Last
  <2> QED
    BY <1>2, <2>1, <2>2
<1> QED
  BY <1>1, <1>2

LEMMA ScriptsOInv ==
  ASSUME OInv, NEW o \in Openers, NEW n \in {2, 3}, S!Scripts(o, n), UNCHANGED <<rows, words>>
  PROVE  OInv'
<1> DEFINE i == sAt[o][2]
<1>1. sAt[o][1] = S!Run(n) /\ saw' = saw /\ S!Run(n) \notin Transaction \cup {"creates"}
  BY DEF S!Scripts, S!Is, S!Run, Transaction
<1>2. i \in 1..(Len(S!Script[n]) + 1)
  <2>1. CASE n = 2
    BY <1>1, <2>1, Here, Lengths DEF Place, S!Run, Transaction, Last
  <2>2. CASE n = 3
    BY <1>1, <2>2, Here, Lengths DEF Place, S!Run, Transaction, Last
  <2> QED
    BY <2>1, <2>2
<1>3. db \in Database /\ db.version \in 0..5
  BY Here
<1>4. CASE i > Len(S!Script[n])
  <2> DEFINE new == [db EXCEPT !.version = n]
  <2>1. Mid(o) /\ n = IF sAt[o][1] = "script2" THEN 2 ELSE 3
    <3>1. Len(S!Script[n]) \in Nat /\ Len(S!Script[n]) >= 1
      BY Lengths, SMTT(30)
    <3>2. i > 1
      BY <1>2, <1>4, <3>1
    <3> QED
      BY <1>1, <3>2 DEF Mid, InScript, S!Run
  <2>2. db.version < n /\ (\A j \in 1..(i - 1) : S!Script[n][j] \in db.cols) /\ \A q \in Openers \ {o} : ~Mid(q)
    BY <2>1 DEF OInv, Middle
  <2>3. \A j \in 1..Len(S!Script[n]) : S!Script[n][j] \in db.cols
    BY <1>2, <1>4, <2>2, StoreNames
  <2>4. /\ new \in Database /\ new.version = n /\ new.cols = db.cols /\ new.tables = db.tables
        /\ new.calls = db.calls /\ new.history = db.history /\ new.shape = db.shape /\ new.words = db.words
    BY <1>3 DEF Database
  <2>5. S!Statement(new) /\ S!After(o, n)
    BY <1>4 DEF S!Scripts
  <2> HIDE DEF new
  <2>6. Done(new, n)
    <3>1. CASE n = 2
      <4>1. 1 \in 1..3 /\ 2 \in 1..3 /\ 3 \in 1..3
        OBVIOUS
      <4>2. {"world_link", "rfc822_message_id", "user_added_addrs"} \subseteq db.cols
        BY <2>3, <3>1, <4>1, StoreNames
      <4> QED
        BY <2>4, <3>1, <4>2 DEF Done
    <3>2. CASE n = 3
      <4>1. 1 \in 1..1
        OBVIOUS
      <4>2. "attempt_mode" \in db.cols
        BY <2>3, <3>2, <4>1, StoreNames
      <4>3. Level(sAt[o][1], sAt[o][2]) = 2
        BY <1>1, <3>2 DEF Level, S!Run, Transaction, Last
      <4>4. db.version = 2
        BY <1>3, <2>2, <3>2, <4>3, Here
      <4> QED
        BY <2>4, <3>2, <4>2, <4>4 DEF Done, OInv, Reached
    <3> QED
      BY <3>1, <3>2
  <2>7. PICK s, k : /\ S!Goto(o, s, k) /\ Place(s, k) /\ ~InScript(s, k) /\ Level(s, k) = n
                    /\ s \notin Transaction /\ s # "creates"
    BY <2>5, Afterwards
  <2>8. "calls" \in db.tables /\ \A q \in Openers : sAt[q][1] # "creates"
    BY <2>1 DEF OInv, Created
  <2>9. Onward(o, new, s, k)
    BY <1>3, <2>2, <2>4, <2>6, <2>7, <2>8 DEF Onward
  <2> QED
    BY <1>1, <2>5, <2>7, <2>9, Here, StatementOInv
<1>5. CASE i <= Len(S!Script[n])
  <2> DEFINE col == S!Script[n][i]
             new == [db EXCEPT !.cols = @ \cup {col}]
  <2>1. CASE col \in db.cols \/ S!Table(col) \notin db.tables
    <3>1. S!Goto(o, "failed", 0) /\ UNCHANGED <<db, copy, writer>>
      BY <1>2, <1>5, <2>1, StoreNames DEF S!Scripts
    <3>2. /\ Place("failed", 0) /\ ~InScript("failed", 0) /\ Level("failed", 0) = 0
          /\ "failed" \notin Transaction
      BY DEF Place, InScript, Level, Transaction, Last
    <3> QED
      BY <1>1, <1>3, <3>1, <3>2, Here, WalkOInv
  <2>2. CASE ~(col \in db.cols \/ S!Table(col) \notin db.tables)
    <3>1. S!Statement(new) /\ S!Goto(o, S!Run(n), i + 1)
      BY <1>1, <1>2, <1>5, <2>2, StoreNames DEF S!Scripts
    <3>2. col \in S!Today
      <4>1. CASE n = 2
        <5>1. i = 1 \/ i = 2 \/ i = 3
          BY <1>2, <1>5, <4>1, StoreNames
        <5> QED
          BY <4>1, <5>1, StoreNames
      <4>2. CASE n = 3
        <5>1. i = 1
          BY <1>2, <1>5, <4>2, StoreNames
        <5> QED
          BY <4>2, <5>1, StoreNames
      <4> QED
        BY <4>1, <4>2
    <3>3. /\ new \in Database /\ new.version = db.version /\ new.cols = db.cols \cup {col}
          /\ new.tables = db.tables /\ new.calls = db.calls /\ new.history = db.history
          /\ new.shape = db.shape /\ new.words = db.words
      BY <1>3, <3>2 DEF Database
    <3> HIDE DEF new
    <3>4. /\ db.version < n /\ (\A q \in Openers \ {o} : ~Mid(q))
          /\ \A j \in 1..(i - 1) : S!Script[n][j] \in db.cols
      BY <1>1, <1>5, <2>2, AlongScript
    <3>5. \A j \in 1..((i + 1) - 1) : S!Script[n][j] \in new.cols
      <4> SUFFICES ASSUME NEW j \in 1..((i + 1) - 1) PROVE S!Script[n][j] \in new.cols
        OBVIOUS
      <4>1. j = i \/ j \in 1..(i - 1)
        BY <1>2
      <4> QED
        BY <3>3, <3>4, <4>1
    <3>6. Done(new, new.version)
      BY <3>3 DEF OInv, Reached, Done
    <3>7. ~OfToday(db)
      <4>1. S!Table(col) \in {"loops", "emails"}
        BY DEF S!Table
      <4> QED
        BY <2>2, <3>2, <4>1 DEF OfToday
    <3>8. "calls" \in db.tables /\ \A q \in Openers : sAt[q][1] # "creates"
      BY <3>7 DEF OInv, Created
    <3>9. /\ Place(S!Run(n), i + 1) /\ n = IF S!Run(n) = "script2" THEN 2 ELSE 3
          /\ Level(S!Run(n), i + 1) <= (IF db.version < 1 THEN 1 ELSE db.version)
      <4>1. Level(S!Run(n), i + 1) = Level(sAt[o][1], sAt[o][2])
        BY <1>1 DEF Level, S!Run, Transaction, Last
      <4>2. n = IF S!Run(n) = "script2" THEN 2 ELSE 3
        BY DEF S!Run
      <4>3. Place(S!Run(n), i + 1)
        <5>1. CASE n = 2
          BY <1>2, <1>5, <5>1, Lengths DEF Place, S!Run
        <5>2. CASE n = 3
          BY <1>2, <1>5, <5>2, Lengths DEF Place, S!Run
        <5> QED
          BY <5>1, <5>2
      <4> QED
        BY <4>1, <4>2, <4>3, Here
    <3>10. Onward(o, new, S!Run(n), i + 1)
      BY <1>1, <1>3, <3>3, <3>4, <3>5, <3>6, <3>8, <3>9 DEF Onward
    <3> QED
      BY <1>1, <3>1, <3>10, Here, StatementOInv
  <2> QED
    BY <2>1, <2>2
<1> QED
  BY <1>2, <1>4, <1>5, StoreNames

LEMMA PluginsOInv ==
  ASSUME OInv, NEW o \in Openers, S!Plugins(o) \/ S!Adds(o), UNCHANGED <<rows, words>>
  PROVE  OInv'
<1> USE DEF Transaction, Last, Level, Place, InScript, S!Is
<1>1. db \in Database /\ db.version \in 0..5
  BY Here
<1>2. ASSUME sAt[o][1] \in Last
      PROVE  /\ db.version = 5 /\ Done(db, 5)
             /\ ("calls" \notin db.tables \/ (\E q \in Openers : sAt[q][1] = "creates") =>
                    OfToday(db) /\ \A q \in Openers \ {o} : ~Mid(q))
  BY <1>1, <1>2, Here DEF OInv, Reached, Created
<1>3. ASSUME NEW new \in Database, sAt[o][1] \in Last, NEW s \in Last,
             new.version = db.version, new.tables = db.tables, new.cols = db.cols,
             new.calls = db.calls, new.history = db.history, new.shape = db.shape,
             new.words = db.words \/ (db.words = "absent" /\ new.words = "new")
      PROVE  Onward(o, new, s, 0)
  BY <1>1, <1>2, <1>3 DEF Onward, Done, OfToday
<1>4. CASE S!Plugins(o)
  <2> DEFINE new == [db EXCEPT !.words = IF @ = "absent" THEN "new" ELSE @]
  <2>1. sAt[o][1] = "plugins" /\ saw' = saw /\ S!Statement(new) /\ S!Goto(o, "compares", 0)
    BY <1>4 DEF S!Plugins
  <2>2. /\ new \in Database /\ new.version = db.version /\ new.cols = db.cols /\ new.tables = db.tables
        /\ new.calls = db.calls /\ new.history = db.history /\ new.shape = db.shape
        /\ new.words = db.words \/ (db.words = "absent" /\ new.words = "new")
    BY <1>1 DEF Database
  <2> HIDE DEF new
  <2>3. Onward(o, new, "compares", 0)
    BY <1>3, <2>1, <2>2
  <2> QED
    BY <2>1, <2>3, Here, StatementOInv
<1>5. CASE S!Adds(o)
  <2>1. sAt[o][1] = "adds" /\ (saw' = saw => SawOK')
    BY <1>5, Here DEF S!Adds
  <2>2. ASSUME S!Goto(o, "open", 0), UNCHANGED <<db, copy, writer, saw>> PROVE OInv'
    <3>1. Level("open", 0) <= (IF db.version < 1 THEN 1 ELSE db.version)
      BY <1>2, <2>1
    <3> QED
      BY <2>1, <2>2, <3>1, WalkOInv
  <2>3. ASSUME NEW c \in saw[o].columns, S!Statement([db EXCEPT !.plugin = @ \cup {c}]), sAt' = sAt,
               saw' = [saw EXCEPT ![o].columns = @ \ {c}]
        PROVE  OInv'
    <3> DEFINE new == [db EXCEPT !.plugin = @ \cup {c}]
    <3>1. c \in Columns /\ SawOK'
      <4>1. saw[o].columns \subseteq Columns
        BY Here DEF SawOK
      <4>2. saw' = [saw EXCEPT ![o].columns = saw[o].columns \ {c}]
        BY <2>3
      <4> QED
        BY <2>3, <4>1, <4>2, SawChanges
    <3>2. /\ new \in Database /\ new.version = db.version /\ new.cols = db.cols /\ new.tables = db.tables
          /\ new.calls = db.calls /\ new.history = db.history /\ new.shape = db.shape /\ new.words = db.words
      BY <1>1, <3>1 DEF Database
    <3>3. S!Statement(new)
      BY <2>3
    <3> HIDE DEF new
    <3>4. sAt[o] = <<"adds", 0>> /\ sAt' = [sAt EXCEPT ![o] = <<"adds", 0>>]
      BY <2>1, <2>3 DEF OInv, OTyped
    <3>5. Onward(o, new, "adds", 0)
      BY <1>3, <2>1, <3>2
    <3> QED
      BY <2>1, <3>1, <3>3, <3>4, <3>5, StatementOInv DEF S!Goto
  <2> QED
    BY <1>5, <2>2, <2>3 DEF S!Adds
<1> QED
  BY <1>4, <1>5

LEMMA BeginsOInv ==
  ASSUME OInv, NEW o \in Openers, S!Begins(o), UNCHANGED <<rows, words>> PROVE OInv'
<1> DEFINE n == sAt[o][2]
<1>1. /\ sAt[o][1] = "step" /\ n \in 4..5 /\ UNCHANGED <<db, copy, saw>> /\ writer = NoOne
      /\ "step" \notin Transaction
  BY DEF S!Begins, S!Is, S!Free, Transaction
<1>2. db \in Database /\ db.version \in 0..5
  BY Here
<1>3. CASE db.version >= n
  <2>1. S!After(o, n) /\ writer' = writer
    BY <1>3 DEF S!Begins, S!Again
  <2>2. PICK s, k : /\ S!Goto(o, s, k) /\ Place(s, k) /\ ~InScript(s, k) /\ Level(s, k) = n
                    /\ s \notin Transaction /\ s # "creates"
    BY <1>1, <2>1, Afterwards
  <2>3. Level(s, k) <= (IF db.version < 1 THEN 1 ELSE db.version)
    BY <1>1, <1>2, <1>3, <2>2
  <2> QED
    BY <1>1, <2>1, <2>2, <2>3, Here, WalkOInv
<1>4. CASE ~(db.version >= n)
  <2>1. S!Goto(o, "copies", n) /\ writer' = o
    BY <1>4 DEF S!Begins, S!Again
  <2>2. Place("copies", n) /\ Level("copies", n) = n - 1 /\ ~InScript("copies", n)
    BY <1>1 DEF Place, Level, Transaction, InScript
  <2>3. Level(sAt[o][1], sAt[o][2]) = n - 1
    BY <1>1 DEF Level
  <2>4. /\ sAt'[o][1] = "copies" /\ sAt'[o][2] = n
        /\ \A q \in Openers \ {o} : sAt'[q] = sAt[q]
        /\ sAt' = [q \in Openers |-> sAt'[q]]
        /\ \A q \in Openers : sAt'[q] = <<sAt'[q][1], sAt'[q][2]>> /\ Place(sAt'[q][1], sAt'[q][2])
    BY <2>1, <2>2, Went DEF OInv
  <2>5. OTyped'
    BY <1>1, <2>1, <2>4, Here DEF OInv, OTyped
  <2>6. Reached'
    BY <1>1, <2>2, <2>3, <2>4 DEF OInv, Reached
  <2>7. \A q \in Openers : Mid(q)' => Mid(q) /\ q # o
    BY <2>2, <2>4 DEF Mid
  <2>8. Middle' /\ Created'
    BY <1>1, <2>4, <2>7 DEF OInv, Middle, Created
  <2>9. Working'
    BY PartsConstants, <1>1, <1>2, <1>4, <2>1, <2>4 DEF S!StoreConstants, OInv, Working, Transaction
  <2>10. S!NothingLost'
    BY <1>1 DEF OInv, S!NothingLost
  <2> QED
    BY <2>5, <2>6, <2>8, <2>9, <2>10 DEF OInv
<1> QED
  BY <1>3, <1>4

(* What a transaction does is its own until it commits.                    *)
LEMMA WithinOInv ==
  ASSUME OInv, NEW o \in Openers, S!Drops(o) \/ S!Renames(o), UNCHANGED <<rows, words>>
  PROVE  OInv'
<1> DEFINE n == sAt[o][2]
<1>1. writer = o /\ UNCHANGED <<db, writer, saw>> /\ sAt[o][1] \in {"copies", "renames"}
  BY DEF S!Drops, S!Renames, S!Lands, S!Is
<1>2. db \in Database /\ db.words # "dropped" /\ copy \in Database /\ n \in 4..5
  BY <1>1 DEF OInv, OTyped, Working
<1>3. PICK s \in {"renames", "commits"} :
         /\ S!Goto(o, s, n) /\ copy' \in Database
         /\ s = "renames" => copy' = IF n = 4 THEN [db EXCEPT !.tables = @ \ {"calls"}, !.calls = {}]
                                              ELSE Reworded(db, "dropped")
         /\ s = "commits" => copy' = IF n = 4 THEN Rebuilt(db) ELSE Reworded(db, "new")
  <2>1. CASE S!Drops(o)
    <3>1. copy = db
      BY <1>1, <2>1 DEF OInv, Working, S!Drops, S!Is
    <3>2. CASE n = 4
      <4>1. S!Goto(o, "renames", n) /\ copy' = [db EXCEPT !.tables = @ \ {"calls"}, !.calls = {}]
        BY <2>1, <3>1, <3>2 DEF S!Drops, S!Lands
      <4>2. copy' \in Database
        BY <1>2, <4>1 DEF Database
      <4> QED
        BY <3>2, <4>1, <4>2
    <3>3. CASE n = 5
      <4>1. S!Goto(o, "renames", n) /\ copy' = IF db.words = "old" THEN [db EXCEPT !.words = "dropped"] ELSE db
        BY <2>1, <3>1, <3>3 DEF S!Drops, S!Lands
      <4>2. copy' = Reworded(db, "dropped") /\ copy' \in Database
        BY <1>2, <4>1 DEF Database, Reworded
      <4> QED
        BY <3>3, <4>1, <4>2
    <3> QED
      BY <1>2, <3>2, <3>3
  <2>2. CASE S!Renames(o)
    <3>1. sAt[o][1] = "renames"
      BY <2>2 DEF S!Renames, S!Is
    <3>2. CASE n = 4
      <4>1. copy = [db EXCEPT !.tables = @ \ {"calls"}, !.calls = {}]
        BY <1>1, <3>1, <3>2 DEF OInv, Working
      <4>2. S!Goto(o, "commits", n)
            /\ copy' = [copy EXCEPT !.tables = @ \cup {"calls"}, !.calls = db.calls, !.shape = "new",
                                    !.history = S!HistoryOf(db)]
        BY <2>2, <3>2 DEF S!Renames, S!Lands
      <4>3. copy' = Rebuilt(db)
        BY <1>2, <4>1, <4>2 DEF Database, Rebuilt
      <4>4. S!HistoryOf(db) \subseteq Calls
        BY <1>2 DEF S!HistoryOf, Database
      <4>5. Rebuilt(db) \in Database
        BY <1>2, <4>4 DEF Database, Rebuilt, Tables
      <4> QED
        BY <3>2, <4>2, <4>3, <4>5
    <3>3. CASE n = 5
      <4>1. copy = Reworded(db, "dropped")
        BY <1>1, <3>1, <3>3 DEF OInv, Working
      <4>2. S!Goto(o, "commits", n)
            /\ copy' = [copy EXCEPT !.words = IF @ = "dropped" THEN "new" ELSE @]
        BY <2>2, <3>3 DEF S!Renames, S!Lands
      <4>3. copy' = Reworded(db, "new") /\ copy' \in Database
        BY <1>2, <4>1, <4>2 DEF Database, Reworded
      <4> QED
        BY <3>3, <4>2, <4>3
    <3> QED
      BY <1>2, <3>2, <3>3
  <2> QED
    BY <2>1, <2>2
<1>4. /\ Place(s, n) /\ ~InScript(s, n) /\ Level(s, n) = Level(sAt[o][1], sAt[o][2])
      /\ s \in Transaction /\ sAt[o][1] \in Transaction
  BY <1>1, <1>2 DEF Place, Level, Transaction, InScript, Last
<1>5. /\ sAt'[o][1] = s /\ sAt'[o][2] = n
      /\ \A q \in Openers \ {o} : sAt'[q] = sAt[q]
      /\ sAt' = [q \in Openers |-> sAt'[q]]
      /\ \A q \in Openers : sAt'[q] = <<sAt'[q][1], sAt'[q][2]>> /\ Place(sAt'[q][1], sAt'[q][2])
  BY <1>3, <1>4, Went DEF OInv
<1>6. OTyped'
  BY <1>1, <1>3, <1>5, Here DEF OInv, OTyped
<1>7. Reached'
  BY <1>1, <1>4, <1>5 DEF OInv, Reached
<1>8. \A q \in Openers : Mid(q)' => Mid(q) /\ q # o
  BY <1>4, <1>5 DEF Mid
<1>9. Middle' /\ Created'
  BY <1>1, <1>3, <1>5, <1>8 DEF OInv, Middle, Created
<1>10. Working'
  BY PartsConstants, <1>1, <1>2, <1>3, <1>4, <1>5 DEF S!StoreConstants, OInv, Working
<1>11. S!NothingLost'
  BY <1>1 DEF OInv, S!NothingLost
<1> QED
  BY <1>6, <1>7, <1>9, <1>10, <1>11 DEF OInv

LEMMA CommitsOInv ==
  ASSUME OInv, NEW o \in Openers, S!Commits(o), UNCHANGED <<rows, words>> PROVE OInv'
<1> DEFINE n == sAt[o][2]
<1>1. /\ sAt[o][1] = "commits" /\ writer = o /\ writer' = NoOne /\ saw' = saw
      /\ copy' = db' /\ sAt[o][1] \in Transaction
  BY DEF S!Commits, S!Is, Transaction
<1>2. /\ db \in Database /\ db.words # "dropped" /\ n \in 4..5 /\ db.version < n /\ db.version \in 0..5
      /\ copy = IF n = 4 THEN Rebuilt(db) ELSE Reworded(db, "new")
  BY <1>1, Here DEF OInv, OTyped, Working
<1>3. Level(sAt[o][1], sAt[o][2]) = n - 1 /\ db.version = n - 1
  <2>1. Level(sAt[o][1], sAt[o][2]) = n - 1
    BY <1>1 DEF Level
  <2> QED
    BY <1>2, <2>1, Here
<1>4. \A q \in Openers : ~Mid(q)
  BY <1>2, <1>3 DEF OInv, Middle
<1>5. PICK s, i : /\ S!Goto(o, s, i) /\ Place(s, i) /\ ~InScript(s, i) /\ s \notin Transaction /\ s # "creates"
                  /\ \/ db' = [copy EXCEPT !.version = n] /\ Level(s, i) = n
                     \/ db' = db /\ Level(s, i) = 0
  <2>1. CASE db' = [copy EXCEPT !.version = n] /\ S!After(o, n)
    BY <1>2, <2>1, Afterwards
  <2>2. CASE UNCHANGED db /\ S!Goto(o, "failed", 0)
    <3>1. Place("failed", 0) /\ ~InScript("failed", 0) /\ Level("failed", 0) = 0 /\ "failed" \notin Transaction
      BY DEF Place, InScript, Level, Transaction, Last
    <3> QED
      BY <2>2, <3>1
  <2> QED
    BY <2>1, <2>2 DEF S!Commits
<1>6. /\ sAt'[o][1] = s /\ sAt'[o][2] = i
      /\ \A q \in Openers \ {o} : sAt'[q] = sAt[q]
      /\ sAt' = [q \in Openers |-> sAt'[q]]
      /\ \A q \in Openers : sAt'[q] = <<sAt'[q][1], sAt'[q][2]>> /\ Place(sAt'[q][1], sAt'[q][2])
  BY <1>5, Went DEF OInv
<1>7. /\ db' \in Database /\ db'.words # "dropped" /\ Done(db', db'.version)
      /\ db'.version >= db.version /\ Level(s, i) <= (IF db'.version < 1 THEN 1 ELSE db'.version)
      /\ db'.calls = db.calls /\ (OfToday(db) => OfToday(db')) /\ db.tables \subseteq db'.tables
      /\ db'.cols = db.cols
      /\ db'.words = db.words \/ (db.words = "old" /\ db'.words = "new")
      /\ \/ db'.history = db.history /\ db'.shape = db.shape
         \/ db'.history = S!HistoryOf(db) /\ db'.shape = "new"
  <2>1. CASE db' = db /\ Level(s, i) = 0
    BY <1>2, <2>1 DEF OInv, Reached
  <2>2. CASE db' = [copy EXCEPT !.version = n] /\ Level(s, i) = n /\ n = 4
    <3>1. S!HistoryOf(db) \subseteq Calls
      BY <1>2 DEF S!HistoryOf, Database
    <3>2. db' = [db EXCEPT !.tables = @ \cup {"calls"}, !.calls = db.calls, !.shape = "new",
                           !.history = S!HistoryOf(db), !.version = 4]
      BY <1>2, <2>2 DEF Rebuilt, Database
    <3>3. /\ db' \in Database /\ db'.words = db.words /\ db'.version = 4 /\ db'.shape = "new"
          /\ db'.tables = db.tables \cup {"calls"} /\ db'.calls = db.calls
          /\ db'.history = S!HistoryOf(db) /\ db'.cols = db.cols
      <4>1. /\ db'.words = db.words /\ db'.version = 4 /\ db'.shape = "new"
            /\ db'.tables = db.tables \cup {"calls"} /\ db'.calls = db.calls
            /\ db'.history = S!HistoryOf(db) /\ db'.cols = db.cols
        BY <1>2, <3>2 DEF Database
      <4>2. db.tables \cup {"calls"} \in SUBSET Tables /\ S!HistoryOf(db) \in SUBSET Calls
        BY <1>2, <3>1 DEF Database, Tables
      <4>3. db' \in Database
        <5>1. db \in Database
          BY <1>2
        <5>2. [db EXCEPT !.tables = @ \cup {"calls"}, !.calls = db.calls, !.shape = "new",
                         !.history = S!HistoryOf(db), !.version = 4] \in Database
          <6> DEFINE a == [db EXCEPT !.tables = @ \cup {"calls"}]
                     b == [a EXCEPT !.calls = db.calls]
                     c == [b EXCEPT !.shape = "new"]
                     d == [c EXCEPT !.history = S!HistoryOf(db)]
          <6>1. a \in Database
            BY <4>2, <5>1 DEF Database
          <6>2. db.calls \in SUBSET Calls
            BY <5>1 DEF Database
          <6> HIDE DEF a
          <6>3. b \in Database
            BY <6>1, <6>2 DEF Database
          <6> HIDE DEF b
          <6>4. c \in Database
            BY <6>3 DEF Database
          <6> HIDE DEF c
          <6>5. d \in Database
            BY <4>2, <6>4 DEF Database
          <6> HIDE DEF d
          <6>6. [d EXCEPT !.version = 4] \in Database
            BY <6>5 DEF Database
          <6> QED
            BY <6>6 DEF a, b, c, d
        <5> QED
          BY <3>2, <5>2, Zenon
      <4> QED
        BY <4>1, <4>3
    <3>4. Done(db', 4)
      BY <1>2, <1>3, <2>2, <3>3 DEF Done, OInv, Reached
    <3>5. OfToday(db) => OfToday(db')
      BY <3>3 DEF OfToday
    <3> QED
      BY <1>2, <1>3, <2>2, <3>3, <3>4, <3>5
  <2>3. CASE db' = [copy EXCEPT !.version = n] /\ Level(s, i) = n /\ n = 5
    <3>1. db' = [db EXCEPT !.words = IF @ = "old" THEN "new" ELSE @, !.version = 5]
      BY <1>2, <2>3 DEF Reworded, Database
    <3>2. /\ db' \in Database /\ db'.version = 5 /\ db'.shape = db.shape
          /\ db'.words = IF db.words = "old" THEN "new" ELSE db.words
          /\ db'.tables = db.tables /\ db'.calls = db.calls
          /\ db'.history = db.history /\ db'.cols = db.cols
      <4> DEFINE w == IF db.words = "old" THEN "new" ELSE db.words
      <4>1. w \in {"absent", "old", "new", "dropped"} /\ db' = [db EXCEPT !.words = w, !.version = 5]
        BY <1>2, <3>1 DEF Database
      <4> HIDE DEF w
      <4>2. db' \in Database
        <5>1. db \in Database
          BY <1>2
        <5>2. [db EXCEPT !.words = w, !.version = 5] \in Database
          <6> DEFINE m == [db EXCEPT !.words = w]
          <6>1. m \in Database
            BY <4>1, <5>1 DEF Database
          <6> HIDE DEF m
          <6>2. [m EXCEPT !.version = 5] \in Database
            BY <6>1 DEF Database
          <6>3. [m EXCEPT !.version = 5] = [db EXCEPT !.words = w, !.version = 5]
            BY DEF m
          <6> QED
            BY <6>2, <6>3
        <5> QED
          BY <4>1, <5>2, Zenon
      <4>3. /\ db'.version = 5 /\ db'.shape = db.shape /\ db'.words = w
            /\ db'.tables = db.tables /\ db'.calls = db.calls
            /\ db'.history = db.history /\ db'.cols = db.cols
        BY <1>2, <4>1 DEF Database
      <4> QED
        BY <4>2, <4>3 DEF w
    <3>3. Done(db', 5)
      BY <1>2, <1>3, <2>3, <3>2 DEF Done, OInv, Reached
    <3>4. OfToday(db) => OfToday(db')
      BY <3>2 DEF OfToday
    <3> QED
      BY <1>2, <1>3, <2>3, <3>2, <3>3, <3>4
  <2> QED
    BY <1>2, <1>5, <2>1, <2>2, <2>3
<1>8. OTyped'
  BY <1>1, <1>6, <1>7, Here DEF OInv, OTyped
<1>9. Reached'
  <2>1. \A q \in Openers \ {o} : Level(sAt[q][1], sAt[q][2]) \in Int
    BY DEF OInv, OTyped, Level, Place, Transaction, Last
  <2>2. db.version \in 0..5 /\ db'.version \in 0..5
    BY <1>2, <1>7 DEF Database
  <2> QED
    BY <1>6, <1>7, <2>1, <2>2 DEF OInv, Reached
<1>10. \A q \in Openers : ~Mid(q)'
  BY <1>4, <1>5, <1>6 DEF Mid
<1>11. Middle' /\ Created'
  BY <1>5, <1>6, <1>7, <1>10 DEF OInv, Middle, Created
<1>12. Working'
  BY PartsConstants, <1>1, <1>5, <1>6 DEF S!StoreConstants, OInv, Working
<1>13. S!NothingLost'
  <2>1. rows # {} => S!HistoryOf(db) = Granola
    BY PartsConstants DEF S!StoreConstants, S!HistoryOf, OInv, OTyped, S!NothingLost
  <2> QED
    BY <1>7, <2>1 DEF OInv, S!NothingLost
<1> QED
  BY <1>8, <1>9, <1>11, <1>12, <1>13 DEF OInv

LEMMA DiesOInv == ASSUME OInv, NEW o \in Openers, S!Dies(o) PROVE OInv'
<1>1. S!Goto(o, "looks", 0) /\ UNCHANGED <<db, saw, rows, words>>
  BY DEF S!Dies
<1>2. /\ Place("looks", 0) /\ ~InScript("looks", 0) /\ Level("looks", 0) = 0
      /\ "looks" \notin Transaction
  BY DEF Place, InScript, Level, Transaction, Last
<1>3. CASE writer = o
  <2>1. writer' = NoOne /\ copy' = db
    BY <1>3 DEF S!Dies
  <2>2. /\ sAt'[o][1] = "looks" /\ sAt'[o][2] = 0
        /\ \A q \in Openers \ {o} : sAt'[q] = sAt[q]
        /\ sAt' = [q \in Openers |-> sAt'[q]]
        /\ \A q \in Openers : sAt'[q] = <<sAt'[q][1], sAt'[q][2]>> /\ Place(sAt'[q][1], sAt'[q][2])
    BY <1>1, <1>2, Went DEF OInv
  <2>3. OTyped' /\ Reached'
    BY <1>1, <1>2, <2>1, <2>2, Here DEF OInv, OTyped, Reached
  <2>4. \A q \in Openers : Mid(q)' => Mid(q) /\ q # o
    BY <1>2, <2>2 DEF Mid
  <2>5. Middle' /\ Created'
    BY <1>1, <2>2, <2>4 DEF OInv, Middle, Created
  <2>6. Working'
    BY PartsConstants, <1>1, <1>2, <1>3, <2>1, <2>2 DEF S!StoreConstants, OInv, Working
  <2>7. S!NothingLost'
    BY <1>1 DEF OInv, S!NothingLost
  <2> QED
    BY <2>3, <2>5, <2>6, <2>7 DEF OInv
<1>4. CASE writer # o
  <2>1. UNCHANGED <<writer, copy>> /\ sAt[o][1] \notin Transaction
    BY <1>4 DEF S!Dies, OInv, Working
  <2> QED
    BY <1>1, <1>2, <2>1, Here, WalkOInv
<1> QED
  BY <1>3, <1>4

LEMMA StepOInv == OInv /\ [S!Next]_(S!vars) => OInv'
<1> SUFFICES ASSUME OInv, [S!Next]_(S!vars) PROVE OInv'
  OBVIOUS
<1>1. CASE UNCHANGED S!vars
  BY <1>1 DEF S!vars, OInv, OTyped, SawOK, Reached, Middle, Mid, Created, Working, S!NothingLost
<1>2. CASE S!Next
  BY <1>2, LooksOInv, CreatesOInv, ScriptsOInv, BeginsOInv, WithinOInv, CommitsOInv, PluginsOInv, DiesOInv
     DEF S!Next, S!Opens
<1> QED
  BY <1>1, <1>2

(* Opening an older store, or none, loses nothing, and whoever has opened  *)
(* it is on today's tables, for any openers at once and deaths of them     *)
(* (store/stores.py, sales; store/migrate.py, run).                        *)
THEOREM StoreIsKept == AllSpec => []StoreKept
<1> DEFINE Inv == part = "store" => OInv
           all == <<part, vars, fvars, svars>>
<1>1. AllInit => Inv
  BY InitOInv DEF AllInit
<1>2. Inv /\ [AllNext]_all => Inv'
  <2> SUFFICES ASSUME Inv, [AllNext]_all, part' = "store" PROVE OInv'
    OBVIOUS
  <2>1. part = "store" /\ [S!Next]_(S!vars)
    BY DEF AllNext, svars, S!vars
  <2> QED
    BY <2>1, StepOInv
<1>3. Inv => StoreKept
  <2> SUFFICES ASSUME OInv PROVE S!TypeOK /\ S!NothingLost /\ S!OpenIsCurrent
    BY DEF StoreKept
  <2>1. S!TypeOK
    BY StoreNames DEF OInv, OTyped, Database, Working, S!TypeOK, S!Free
  <2>2. S!OpenIsCurrent
    <3> SUFFICES ASSUME NEW o \in Openers, sAt[o][1] \in {"open", "plugins"}
                 PROVE  db.cols = S!Today /\ db.shape = "new" /\ db.words # "old" /\ db.version = S!Version
      BY DEF S!OpenIsCurrent, S!Is
    <3>1. Level(sAt[o][1], sAt[o][2]) = 5
      BY DEF Level, Transaction, Last
    <3>2. db.version = 5 /\ db.cols \subseteq S!Today
      BY <3>1, Here DEF Database
    <3>3. Done(db, 5)
      BY <3>2 DEF OInv, Reached
    <3> QED
      BY <3>2, <3>3, StoreNames DEF Done
  <2> QED
    BY <2>1, <2>2 DEF OInv
<1> QED
  BY <1>1, <1>2, <1>3, PTL DEF AllSpec
=============================================================================
