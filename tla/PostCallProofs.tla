---------------------------- MODULE PostCallProofs ----------------------------
(* Theorems about PostCall, for any handlers, buttons, jobs, drafts and    *)
(* faults.                                                                 *)
EXTENDS PostCall, TLAPS, FiniteSetTheorems

Working == {"step", "mark", "email", "agent", "reread", "insert"}

(* The part of the types the argument rests on.                            *)
RunShape ==
    /\ run = [at |-> run.at, job |-> run.job, i |-> run.i, original |-> run.original,
              last |-> run.last, newest |-> run.newest, read |-> run.read, saw |-> run.saw]
    /\ run.at \in Working \cup {"idle", "final", "settle"}
    /\ run.at # "idle" => run.job \in Jobs
    /\ run.at \in Working => run.i \in 1..8
    /\ run.original \in States

Hand ==
    [at : {"idle", "approve", "gmail", "close", "closing", "editing", "completing"},
     v : 0..MaxEmails, mode : {"send", "draft"}, saw : States, sent : BOOLEAN]

HandShape == hand \in [Handlers -> Hand]

JobShape ==
    jobs \in [Jobs -> [status : {"absent", "pending", "running", "done", "failed"},
                            from : StepNames \cup {"start"}]]

(* The state a run is about to leave the call in is none of the chain's.   *)
SettlesOutside == run.at = "settle" => run.last \in States \ Chain

(* "Complete review" was pressed on a call past the chain.                 *)
ReviewsOutside == \A h \in Handlers : hand[h].at = "completing" => hand[h].saw \notin Chain

IInv == /\ RunShape /\ HandShape /\ JobShape /\ state \in States
        /\ SettlesOutside /\ ReviewsOutside /\ NeverForgotten

(* The drafts as far as the second invariant looks at them: a draft is     *)
(* alive until it is retired, and open while it may still be sent or fail. *)
Alive == Unsent \cup GoneOut
Open  == Unsent \cup {"sending"}
NothingOpen == \A v \in Versions : emails[v] \notin Open

EmailShape ==
    /\ emails \in [Versions -> Statuses]
    /\ run.saw \in [Versions -> Statuses]
    /\ run.newest \in Nat
    /\ \A h \in Handlers : hand[h].at \in {"approve", "gmail", "editing"} => hand[h].v \in Versions

(* Versions are numbered without gaps, so that a new one adds to them.     *)
NoGaps == /\ \A v \in Versions : emails[v] # "none" <=> v <= Newest
          /\ run.at \in {"agent", "reread", "insert"} => Newest < MaxEmails
          /\ run.at # "idle" => run.newest <= Newest

OneAlive == \A v, w \in Versions : emails[v] \in Alive /\ emails[w] \in Alive => v = w

(* A closed call has nothing open, and a run of one opens nothing without  *)
(* a new draft.                                                            *)
DoneIsQuiet == state = "done" => NothingOpen
StillQuiet  == run.at # "idle" /\ run.original = "done" /\ run.newest = Newest => NothingOpen

(* What a run has read of the emails since it asked for the draft.         *)
NoneWentOut ==
    run.at \in {"reread", "insert"} => \A v \in Versions : run.saw[v] \notin GoneOut

(* A handler that closes the call because the email went out knows so.     *)
SentSeen ==
    \A h \in Handlers : hand[h].at \in {"close", "closing"} /\ hand[h].sent =>
        \E v \in Versions : emails[v] = "sent"

(* Who closed the call last, as the run sees it.                           *)
LooksAtClose ==
    /\ run.at \in Working \cup {"final"} /\ run.last = "done" => state = "done" /\ ~closed
    /\ run.at = "insert" => run.last # "done"
    /\ run.at = "mark" /\ run.read = "done" => run.last = "done"
    /\ run.at = "final" => run.last \in StepNames
    /\ run.at = "settle" /\ run.read = "done" => run.last = "done"
    /\ run.at = "settle" /\ run.last = "done" =>
           run.read = "done" \/ (run.original = "done" /\ run.newest = Newest)
    /\ closed => state = "done"

Tidy == /\ EmailShape /\ NoGaps /\ OneAlive /\ DoneIsQuiet /\ StillQuiet /\ NoneWentOut
        /\ SentSeen /\ LooksAtClose

CleanTidy == Clean => Tidy

----------------------------------------------------------------------------
LEMMA StepsAre ==
  /\ Len(Steps) = 8
  /\ StepNames = {Steps[1], Steps[2], Steps[3], Steps[4], Steps[5], Steps[6], Steps[7], Steps[8]}
  /\ \A i \in 1..8 : Steps[i] \in StepNames
<1>1. DOMAIN Steps = 1..8 /\ Len(Steps) = 8
  BY DEF Steps
<1>2. 1..8 = {1, 2, 3, 4, 5, 6, 7, 8}
  OBVIOUS
<1> QED
  BY <1>1, <1>2 DEF StepNames

LEMMA IndexOf == ASSUME NEW name \in StepNames PROVE Index(name) \in 1..8
<1>1. DOMAIN Steps = 1..8
  BY DEF Steps
<1> QED
  BY <1>1 DEF StepNames, Index

LEMMA PlaceOf ==
  ASSUME NEW i \in 1..9
  PROVE  Place(i) \in {"final", "email", "step"} /\ (Place(i) # "final" => i \in 1..8)
BY StepsAre DEF Place

LEMMA InitIInv == Init => IInv
<1> SUFFICES ASSUME Init PROVE IInv
  OBVIOUS
<1>0. state \in States
  BY StepsAre DEF Init, States, Chain, Steps
<1>1. RunShape /\ SettlesOutside
  BY DEF Init, RunShape, SettlesOutside, NoRun, States, Chain, Working
<1>2. HandShape /\ ReviewsOutside
  BY PostCallConstants DEF Init, HandShape, Hand, ReviewsOutside, NoHand, States, Chain
<1>3. JobShape
  BY DEF Init, JobShape, NoJob, StepNames
<1>4. NeverForgotten
  BY PostCallConstants DEF Init, NeverForgotten, NoJob, Jobs
<1>5. state \in States
  BY <1>0
<1> QED
  BY <1>1, <1>2, <1>3, <1>4, <1>5 DEF IInv

LEMMA AdvanceKeeps ==
  ASSUME IInv, run.at \in Working, NextStep, state' = Steps[run.i], jobs' = jobs, hand' = hand
  PROVE  IInv'
<1>1. run.i \in 1..8
  BY DEF IInv, RunShape
<1>2. state' \in StepNames /\ run.job \in Jobs /\ run.at # "idle"
  BY <1>1, StepsAre DEF IInv, RunShape, Working
<1>3. RunShape' /\ SettlesOutside' /\ run'.at # "idle"
  <2>1. run' = [run EXCEPT !.i = run.i + 1, !.last = Steps[run.i], !.at = Place(run.i + 1)]
    BY DEF NextStep
  <2>2. run' = [at |-> Place(run.i + 1), job |-> run.job, i |-> run.i + 1,
                original |-> run.original, last |-> Steps[run.i], newest |-> run.newest,
                read |-> run.read, saw |-> run.saw]
    BY <2>1 DEF IInv, RunShape
  <2>3. Place(run.i + 1) \in {"final", "email", "step"}
        /\ (Place(run.i + 1) # "final" => run.i + 1 \in 1..8)
    BY <1>1, PlaceOf
  <2> QED
    BY <2>2, <2>3, <1>2 DEF IInv, RunShape, SettlesOutside, Working
<1>4. HandShape' /\ ReviewsOutside' /\ JobShape' /\ state' \in States
  BY <1>2 DEF IInv, HandShape, ReviewsOutside, JobShape, States, Chain
<1> QED
  BY <1>3, <1>4 DEF IInv, NeverForgotten

LEMMA CommitKeeps ==
  ASSUME IInv, run.at \in Working, NEW new, NEW note, Commit(new, note), hand' = hand
  PROVE  IInv'
<1>1. CASE ClosedNow
  <2>1. /\ run' = NoRun /\ state' = state /\ state = "done"
        /\ jobs' = [jobs EXCEPT ![run.job].status = "done"]
    BY <1>1 DEF Commit, EndRun, SetJob, ClosedNow
  <2>2. RunShape' /\ SettlesOutside'
    BY <2>1 DEF RunShape, SettlesOutside, NoRun, States, Chain, Working
  <2>3. HandShape' /\ ReviewsOutside' /\ state' \in States
    BY <2>1 DEF IInv, HandShape, ReviewsOutside
  <2>4. JobShape'
    BY <2>1 DEF IInv, JobShape
  <2>5. NeverForgotten'
    BY <2>1, StepsAre DEF NeverForgotten, Chain, Steps
  <2> QED
    BY <2>2, <2>3, <2>4, <2>5 DEF IInv
<1>2. CASE ~ClosedNow
  <2>1. NextStep /\ state' = Steps[run.i] /\ jobs' = jobs
    BY <1>2 DEF Commit
  <2> QED
    BY <2>1, AdvanceKeeps
<1> QED
  BY <1>1, <1>2

(* A handler that leaves its own place with nothing of a review.           *)
LEMMA HandMoves ==
  ASSUME IInv, UNCHANGED <<state, run>>, HandShape', ReviewsOutside', JobShape',
         \/ error' = error \/ state \notin Chain
         \/ \E j \in Jobs : jobs'[j].status \in {"pending", "failed"},
         \/ jobs' = jobs
         \/ \E j \in Jobs : jobs'[j].status \in {"pending", "failed"}
  PROVE  IInv'
BY DEF IInv, RunShape, SettlesOutside, NeverForgotten

LEMMA TakeJobKeeps == ASSUME IInv, NEW j \in Jobs, TakeJob(j) PROVE IInv'
<1> DEFINE i == StartAt(jobs[j].from)
<1>1. /\ jobs[j].from \in StepNames \cup {"start"} /\ state \in States
      /\ hand' = hand /\ state' = state /\ error' = error
  BY DEF IInv, JobShape, TakeJob
<1>2. i \in 0..9 /\ (i = 0 => state \notin Chain)
  BY <1>1, IndexOf DEF StartAt, Chain
<1>3. HandShape' /\ ReviewsOutside' /\ state' \in States
  BY <1>1 DEF IInv, HandShape, ReviewsOutside
<1>4. CASE i = 0
  <2>1. run' = run /\ jobs' = [jobs EXCEPT ![j].status = "done"]
    BY <1>4 DEF TakeJob, SetJob
  <2>2. JobShape'
    BY <2>1 DEF IInv, JobShape
  <2> QED
    BY <2>1, <2>2, <1>1, <1>2, <1>3, <1>4
       DEF IInv, RunShape, SettlesOutside, NeverForgotten
<1>5. CASE i # 0
  <2>1. /\ run' = [NoRun EXCEPT !.at = Place(i), !.job = j, !.i = i, !.original = state,
                                !.last = state, !.newest = Newest]
        /\ jobs' = [jobs EXCEPT ![j].status = "running"]
    BY <1>5 DEF TakeJob, SetJob
  <2>2. JobShape'
    BY <2>1 DEF IInv, JobShape
  <2>3. Place(i) \in {"final", "email", "step"} /\ (Place(i) # "final" => i \in 1..8)
    BY <1>2, <1>5, PlaceOf
  <2>4. RunShape' /\ SettlesOutside' /\ run'.at # "idle"
    BY <2>1, <2>3, <1>1 DEF NoRun, RunShape, SettlesOutside, Working
  <2> QED
    BY <2>2, <2>4, <1>3 DEF IInv, NeverForgotten
<1> QED
  BY <1>4, <1>5

(* The worker moves on and leaves the call, the jobs and the handlers.     *)
LEMMA RunMoves ==
  ASSUME IInv, UNCHANGED <<state, error, jobs, hand>>, run.at # "idle",
         RunShape', SettlesOutside', run'.at # "idle"
  PROVE  IInv'
BY DEF IInv, HandShape, JobShape, ReviewsOutside, NeverForgotten

LEMMA WorkerKeeps == ASSUME IInv, WorkerStep PROVE IInv'
<1>1. CASE \E j \in Jobs : TakeJob(j)
  BY <1>1, TakeJobKeeps
<1>2. CASE WritingStep \/ SkipEmail \/ Discard \/ DiscardClosed \/ InsertDraft
  <2>1. run.at \in Working /\ hand' = hand /\ \E new, note : Commit(new, note)
    BY <1>2 DEF WritingStep, SkipEmail, Discard, DiscardClosed, InsertDraft, Working
  <2> QED
    BY <2>1, CommitKeeps
<1>3. CASE AskForDraft \/ Keep \/ ReadPrevious
  <2>1. /\ run.at \in Working /\ UNCHANGED <<state, error, jobs, hand>>
        /\ \E p \in Working : \E e : run' = [run EXCEPT !.at = p, !.saw = e]
    <3>1. CASE AskForDraft
      <4>1. run' = [run EXCEPT !.at = "agent"] /\ run.at = "email"
        BY <3>1 DEF AskForDraft
      <4>2. run' = [run EXCEPT !.at = "agent", !.saw = run.saw]
        BY <4>1 DEF IInv, RunShape
      <4> QED
        BY <4>1, <4>2, <3>1 DEF AskForDraft, Working
    <3>2. CASE Keep
      BY <3>2 DEF Keep, Working
    <3>3. CASE ReadPrevious
      BY <3>3 DEF ReadPrevious, Working
    <3> QED
      BY <3>1, <3>2, <3>3, <1>3
  <2>p. PICK p \in Working : \E e : run' = [run EXCEPT !.at = p, !.saw = e]
    BY <2>1
  <2>2. PICK e : run' = [run EXCEPT !.at = p, !.saw = e]
    BY <2>p
  <2>3. RunShape' /\ SettlesOutside' /\ run'.at # "idle" /\ run.at # "idle"
    BY <2>1, <2>2 DEF IInv, RunShape, SettlesOutside, Working
  <2> QED
    BY <2>1, <2>3, RunMoves
<1>4. CASE QuietStep
  <2>1. CASE ClosedNow
    <3>1. Commit(emails, skipped) /\ run.at \in Working /\ hand' = hand
      BY <1>4, <2>1 DEF QuietStep, Commit, Working
    <3> QED
      BY <3>1, CommitKeeps
  <2>2. CASE ~ClosedNow
    <3>1. /\ run' = [run EXCEPT !.at = "mark", !.read = state] /\ run.at = "step"
          /\ UNCHANGED <<state, error, jobs, hand>>
      BY <1>4, <2>2 DEF QuietStep
    <3>2. RunShape' /\ SettlesOutside' /\ run'.at # "idle" /\ run.at # "idle"
      BY <3>1 DEF IInv, RunShape, SettlesOutside, Working
    <3> QED
      BY <3>1, <3>2, RunMoves
  <2> QED
    BY <2>1, <2>2
<1>5. CASE Mark
  <2>1. /\ NextStep /\ state' = Steps[run.i] /\ run.at \in Working
        /\ jobs' = jobs /\ hand' = hand
    BY <1>5 DEF Mark, Working
  <2> QED
    BY <2>1, AdvanceKeeps
<1>6. CASE AudioStep
  <2>1. /\ NextStep /\ state' = Steps[run.i] /\ run.at \in Working
        /\ jobs' = jobs /\ hand' = hand
    BY <1>6 DEF AudioStep, Working
  <2> QED
    BY <2>1, AdvanceKeeps
<1>7. CASE ReadFinal
  <2>1. /\ run' = [run EXCEPT !.at = "settle", !.last = FinalState, !.read = state]
        /\ run.at = "final" /\ UNCHANGED <<state, error, jobs, hand>>
    BY <1>7 DEF ReadFinal
  <2>2. FinalState \in States \ Chain
    BY StepsAre DEF FinalState, States, Chain, Steps
  <2>3. RunShape' /\ SettlesOutside' /\ run'.at # "idle" /\ run.at # "idle"
    BY <2>1, <2>2 DEF IInv, RunShape, SettlesOutside, Working
  <2> QED
    BY <2>1, <2>3, RunMoves
<1>8. CASE Settle
  <2>1. state' \in States \ Chain /\ run' = NoRun /\ hand' = hand
    BY <1>8 DEF Settle, IInv, SettlesOutside
  <2>2. RunShape' /\ SettlesOutside'
    BY <2>1 DEF RunShape, SettlesOutside, NoRun, States, Chain, Working
  <2>3. JobShape'
    BY <1>8 DEF Settle, IInv, JobShape
  <2> QED
    BY <2>1, <2>2, <2>3 DEF IInv, HandShape, ReviewsOutside, NeverForgotten
<1> QED
  BY <1>1, <1>2, <1>3, <1>4, <1>5, <1>6, <1>7, <1>8 DEF WorkerStep

LEMMA FaultKeeps == ASSUME IInv, Fault PROVE IInv'
<1> PICK s \in {"pending", "failed"} : Fail(s) \/ Crash(s)
  BY DEF Fault
<1>1. /\ run' = NoRun /\ state' = state
      /\ jobs' = [jobs EXCEPT ![run.job].status = s] /\ run.job \in Jobs
  BY DEF Fail, Crash, SetJob, Recovered, IInv, RunShape, Working
<1>2. RunShape' /\ SettlesOutside' /\ state' \in States
  BY <1>1 DEF IInv, RunShape, SettlesOutside, NoRun, States, Chain, Working
<1>3. HandShape' /\ ReviewsOutside'
  <2>1. CASE Fail(s)
    BY <2>1 DEF Fail, IInv, HandShape, ReviewsOutside
  <2>2. CASE Crash(s)
    BY <2>2, PostCallConstants
       DEF Crash, NoHand, IInv, HandShape, Hand, ReviewsOutside, States, Chain
  <2> QED
    BY <2>1, <2>2
<1>4. JobShape'
  BY <1>1 DEF IInv, JobShape
<1>5. jobs'[run.job].status \in {"pending", "failed"}
  BY <1>1 DEF IInv, JobShape
<1> QED
  BY <1>1, <1>2, <1>3, <1>4, <1>5 DEF IInv, NeverForgotten

(* The seller puts the call past the pipeline.                             *)
LEMMA DoneKeeps ==
  ASSUME IInv, HandShape', ReviewsOutside', UNCHANGED <<jobs, run>>,
         state' \in {"awaiting_review", "reviewed", "done"}
  PROVE  IInv'
BY StepsAre DEF IInv, RunShape, SettlesOutside, JobShape, NeverForgotten, States, Chain, Steps

(* What a handler's place may become without touching a review.            *)
LEMMA HandKeeps ==
  ASSUME IInv, NEW h \in Handlers, NEW new, hand' = [hand EXCEPT ![h] = new],
         new \in Hand,
         new.at = "completing" => new.saw \notin Chain
  PROVE  HandShape' /\ ReviewsOutside'
BY DEF IInv, HandShape, ReviewsOutside

LEMMA HandlerKeeps == ASSUME IInv, NEW h \in Handlers, HandlerStep(h) PROVE IInv'
<1>0. Versions \subseteq 0..MaxEmails
  BY PostCallConstants DEF Versions
<1>1. NoHand \in Hand /\ NoHand.at # "completing" /\ hand[h] \in Hand
  BY PostCallConstants DEF IInv, HandShape, Hand, NoHand, States, Chain
<1>2. JobShape /\ HandShape
  BY DEF IInv
<1>3. ASSUME hand' = [hand EXCEPT ![h] = NoHand] PROVE HandShape' /\ ReviewsOutside'
  BY <1>1, <1>3, HandKeeps
<1>4. ASSUME NEW p \in {"gmail", "close", "closing"}, NEW b \in BOOLEAN,
             hand' = [hand EXCEPT ![h].at = p, ![h].sent = b]
      PROVE  HandShape' /\ ReviewsOutside'
  <2>1. hand' = [hand EXCEPT ![h] = [hand[h] EXCEPT !.at = p, !.sent = b]]
    BY <1>2, <1>4 DEF HandShape, Hand
  <2> QED
    BY <1>1, <2>1, HandKeeps DEF Hand
<1>5. ASSUME NEW v \in Versions, NEW click, SendLook(h, v, click) PROVE IInv'
  <2>1. \E m \in {"send", "draft"} :
          hand' = [hand EXCEPT ![h] = [NoHand EXCEPT !.at = "approve", !.v = v, !.mode = m]]
    BY <1>5 DEF SendLook, Press
  <2>2. HandShape' /\ ReviewsOutside'
    <3>1. PICK m \in {"send", "draft"} :
            hand' = [hand EXCEPT ![h] = [NoHand EXCEPT !.at = "approve", !.v = v, !.mode = m]]
      BY <2>1
    <3>2. v \in 0..MaxEmails
      BY <1>0
    <3>3. [NoHand EXCEPT !.at = "approve", !.v = v, !.mode = m] \in Hand
      BY <3>2 DEF NoHand, Hand, States, Chain
    <3> QED
      BY <3>1, <3>3, HandKeeps DEF NoHand
  <2> QED
    BY <1>2, <1>5, <2>2, HandMoves DEF SendLook, JobShape
<1>6. ASSUME NEW v \in Versions, NotSent(h, v) PROVE IInv'
  BY <1>2, <1>3, <1>6, HandMoves DEF NotSent, Press, JobShape
<1>7. ASSUME NEW v \in Versions, MarkSent(h, v) PROVE IInv'
  <2>1. HandShape' /\ ReviewsOutside'
    BY <1>1, <1>7, HandKeeps DEF MarkSent, Press, NoHand, Hand
  <2> QED
    BY <1>2, <1>7, <2>1, HandMoves DEF MarkSent, JobShape
<1>8. ASSUME NEW v \in Versions, Skip(h, v) PROVE IInv'
  <2>1. HandShape' /\ ReviewsOutside'
    BY <1>1, <1>8, HandKeeps DEF Skip, Press, NoHand, Hand
  <2> QED
    BY <1>2, <1>8, <2>1, HandMoves DEF Skip, JobShape
<1>9. ASSUME NEW v \in Versions, EditLook(h, v) PROVE IInv'
  <2>1. HandShape' /\ ReviewsOutside'
    <3>1. v \in 0..MaxEmails
      BY <1>0
    <3>2. [NoHand EXCEPT !.at = "editing", !.v = v] \in Hand
      BY <3>1 DEF NoHand, Hand, States, Chain
    <3> QED
      BY <1>9, <3>2, HandKeeps DEF EditLook, Press, NoHand
  <2> QED
    BY <1>2, <1>9, <2>1, HandMoves DEF EditLook, JobShape
<1>10. CASE Approve(h)
  <2>1. \/ hand' = [hand EXCEPT ![h] = NoHand]
        \/ hand' = [hand EXCEPT ![h].at = "gmail"]
    BY <1>10 DEF Approve, Goes, Leave
  <2>2. HandShape' /\ ReviewsOutside'
    <3>1. CASE hand' = [hand EXCEPT ![h].at = "gmail"]
      <4>1. hand' = [hand EXCEPT ![h] = [hand[h] EXCEPT !.at = "gmail"]]
        BY <1>2, <3>1 DEF HandShape, Hand
      <4> QED
        BY <1>1, <4>1, HandKeeps DEF Hand
    <3> QED
      BY <1>3, <2>1, <3>1
  <2> QED
    BY <1>2, <1>10, <2>2, HandMoves DEF Approve, JobShape
<1>11. CASE GmailTook(h)
  <2>1. \/ hand' = [hand EXCEPT ![h] = NoHand]
        \/ hand' = [hand EXCEPT ![h].at = "close", ![h].sent = TRUE]
    BY <1>11 DEF GmailTook, Leave
  <2> QED
    BY <1>2, <1>3, <1>4, <1>11, <2>1, HandMoves DEF GmailTook, JobShape
<1>12. CASE GmailRefused(h)
  BY <1>2, <1>3, <1>12, HandMoves DEF GmailRefused, Leave, JobShape
<1>13. CASE NoAnswer(h)
  BY <1>2, <1>3, <1>13, HandMoves DEF NoAnswer, Leave, JobShape
<1>14. CASE Close(h)
  <2>1. HandShape' /\ ReviewsOutside'
    BY <1>1, <1>14, HandKeeps DEF Close, Press, NoHand, Hand
  <2> QED
    BY <1>2, <1>14, <2>1, HandMoves DEF Close, JobShape
<1>15. CASE CloseLook(h)
  <2>1. \/ hand' = [hand EXCEPT ![h] = NoHand]
        \/ \E b \in BOOLEAN : hand' = [hand EXCEPT ![h].at = "closing", ![h].sent = b]
    BY <1>1, <1>15 DEF CloseLook, Leave, Hand
  <2> QED
    BY <1>2, <1>3, <1>4, <1>15, <2>1, HandMoves DEF CloseLook, JobShape
<1>16. CASE CloseWrite(h)
  <2>1. HandShape' /\ ReviewsOutside'
    BY <1>3, <1>16 DEF CloseWrite, Leave
  <2>2. state' = "done" /\ jobs' = jobs /\ run' = run
    BY <1>16 DEF CloseWrite
  <2> QED
    BY <2>1, <2>2, DoneKeeps
<1>17. CASE EditWrite(h)
  BY <1>2, <1>3, <1>17, HandMoves DEF EditWrite, Leave, JobShape
<1>18. CASE CompleteLook(h)
  <2>1. hand' = [hand EXCEPT ![h] = [NoHand EXCEPT !.at = "completing", !.saw = state]]
        /\ state \notin Chain /\ state \in States
    BY <1>18 DEF CompleteLook, Press, IInv
  <2>2. HandShape' /\ ReviewsOutside'
    BY <1>1, <2>1, HandKeeps DEF NoHand, Hand
  <2> QED
    BY <1>2, <1>18, <2>2, HandMoves DEF CompleteLook, JobShape
<1>19. CASE CompleteWrite(h)
  <2>1. HandShape' /\ ReviewsOutside' /\ hand[h].saw \in States \ Chain
    BY <1>1, <1>3, <1>19 DEF CompleteWrite, Leave, IInv, ReviewsOutside, Hand
  <2>2. jobs' = jobs /\ run' = run
        /\ \/ state' = state /\ error' = error
           \/ state' \in {"awaiting_review", "reviewed", "done"}
    BY <2>1, <1>19, StepsAre DEF CompleteWrite, States, Chain, Steps
  <2>3. CASE state' = state /\ error' = error
    BY <1>2, <2>1, <2>2, <2>3, HandMoves DEF JobShape
  <2>4. CASE state' \in {"awaiting_review", "reviewed", "done"}
    BY <2>1, <2>2, <2>4, DoneKeeps
  <2> QED
    BY <2>2, <2>3, <2>4
<1>20. ASSUME NEW from \in RerunFrom, Retry(h, from) \/ Rerun(h, from) PROVE IInv'
  <2>1. /\ Publish(from) /\ hand' = [hand EXCEPT ![h] = NoHand]
        /\ state' = state /\ run' = run
    BY <1>20 DEF Retry, Rerun, Press
  <2>2. PICK j \in Jobs : jobs' = [jobs EXCEPT ![j] = [status |-> "pending", from |-> from]]
    BY <2>1 DEF Publish
  <2>3. JobShape' /\ jobs'[j].status = "pending"
    BY <1>2, <2>2, PostCallConstants DEF JobShape
  <2> QED
    BY <1>3, <2>1, <2>3, HandMoves
<1> QED
  BY <1>5, <1>6, <1>7, <1>8, <1>9, <1>10, <1>11, <1>12, <1>13, <1>14, <1>15, <1>16,
     <1>17, <1>18, <1>19, <1>20 DEF HandlerStep

LEMMA StepIInv == IInv /\ [Next]_vars => IInv'
<1> SUFFICES ASSUME IInv, [Next]_vars PROVE IInv'
  OBVIOUS
<1>1. CASE UNCHANGED vars
  BY <1>1 DEF vars, IInv, RunShape, HandShape, JobShape, SettlesOutside, ReviewsOutside,
              NeverForgotten
<1> QED
  BY <1>1, WorkerKeeps, FaultKeeps, HandlerKeeps DEF Next

(* A call in the pipeline is never forgotten: whatever fails, crashes or   *)
(* is pressed, there is a run, a job, or an error on its page              *)
(* (run_pipeline, bus.recover_running, app.call_retry).                    *)
THEOREM NoCallForgotten == Spec => []NeverForgotten
<1>1. Spec => []IInv
  BY InitIInv, StepIInv, PTL DEF Spec
<1> QED
  BY <1>1, PTL DEF IInv

----------------------------------------------------------------------------
(* A race that happened stays on record.                                   *)
LEMMA CleanBefore == [Next]_vars /\ Clean' => Clean
BY DEF Clean, vars, Next, WorkerStep, Fault, HandlerStep, TakeJob, WritingStep, AudioStep, QuietStep,
       Mark, SkipEmail, AskForDraft, Discard, Keep, DiscardClosed, ReadPrevious, InsertDraft,
       ReadFinal, Settle, Fail, Crash, SendLook, NotSent, MarkSent, Skip, EditLook, Approve,
       GmailTook, GmailRefused, NoAnswer, Close, CloseLook, CloseWrite, EditWrite, CompleteLook,
       CompleteWrite, Retry, Rerun

LEMMA NewestIs == Newest \in Nat /\ Newest <= MaxEmails
<1> DEFINE N == {v \in Versions : emails[v] # "none"}
<1>1. IsFiniteSet(Versions) /\ Cardinality(Versions) = MaxEmails
  BY FS_Interval, PostCallConstants DEF Versions
<1>2. IsFiniteSet(N) /\ Cardinality(N) <= Cardinality(Versions)
  BY <1>1, FS_Subset
<1>3. Cardinality(N) \in Nat
  BY <1>2, FS_CardinalityType
<1> QED
  BY <1>1, <1>2, <1>3 DEF Newest

(* What may become of one email while nothing overtakes its handler.       *)
Moves == (Unsent \X {"sending", "rejected", "drafted"})
         \cup ({"sending"} \X {"sent", "saved_to_gmail", "failed"})
         \cup {<<"saved_to_gmail", "sent">>}

(* A handler brings no draft to life, opens none and takes no "sent" back. *)
Gentle ==
    /\ emails' \in [Versions -> Statuses]
    /\ \A v \in Versions : /\ emails'[v] \in Alive => emails[v] \in Alive
                           /\ emails'[v] \in Open => emails[v] \in Open
                           /\ emails'[v] = "none" <=> emails[v] = "none"
                           /\ emails[v] = "sent" => emails'[v] = "sent"

LEMMA GentleStep ==
  ASSUME EmailShape, NEW h \in Handlers, HandlerStep(h), Clean' PROVE Gentle
<1> USE DEF EmailShape, Gentle, Alive, Open, Unsent, GoneOut
<1>1. ASSUME emails' = emails PROVE Gentle
  BY <1>1
<1>2. ASSUME NEW v \in Versions, NEW s \in Statuses, emails' = [emails EXCEPT ![v] = s],
             <<emails[v], s>> \in Moves
      PROVE  Gentle
  BY <1>2 DEF Moves
<1>3. {"sending", "rejected", "drafted", "sent", "saved_to_gmail", "failed"} \subseteq Statuses
  BY DEF Statuses
<1> USE <1>3 DEF Moves
<1>4. ASSUME NEW v \in Versions, NotSent(h, v) \/ MarkSent(h, v) \/ Skip(h, v) PROVE Gentle
  BY <1>2, <1>4 DEF NotSent, MarkSent, Skip
<1>5. CASE Approve(h)
  BY <1>1, <1>2, <1>5 DEF Approve
<1>6. CASE GmailTook(h)
  <2>1. StatusAfter(hand[h].mode) \in {"sent", "saved_to_gmail"}
    BY DEF StatusAfter
  <2> QED
    BY <1>2, <1>6, <2>1 DEF GmailTook, Clean
<1>7. CASE GmailRefused(h)
  BY <1>2, <1>7 DEF GmailRefused, Clean
<1>8. CASE EditWrite(h)
  BY <1>2, <1>8 DEF EditWrite, Clean
<1>9. CASE CloseWrite(h)
  BY <1>9 DEF CloseWrite, ClosedEmails
<1> QED
  BY <1>1, <1>4, <1>5, <1>6, <1>7, <1>8, <1>9
     DEF HandlerStep, SendLook, EditLook, NoAnswer, Close, CloseLook, CompleteLook, CompleteWrite,
         Retry, Rerun

LEMMA NewestSame ==
  ASSUME \A v \in Versions : emails'[v] = "none" <=> emails[v] = "none" PROVE Newest' = Newest
<1>1. {v \in Versions : emails'[v] # "none"} = {v \in Versions : emails[v] # "none"}
  OBVIOUS
<1> QED
  BY <1>1 DEF Newest

(* What gentle writes leave as it was while the run waits.                 *)
LEMMA GentleKeeps ==
  ASSUME Tidy, Gentle, run' = run
  PROVE  /\ Newest' = Newest /\ NoGaps' /\ OneAlive' /\ StillQuiet' /\ NoneWentOut'
         /\ NothingOpen => NothingOpen'
<1>1. Newest' = Newest
  BY NewestSame DEF Gentle
<1> QED
  BY <1>1 DEF Tidy, Gentle, NoGaps, OneAlive, StillQuiet, NothingOpen, NoneWentOut

LEMMA HandlerTidy ==
  ASSUME IInv, Tidy, NEW h \in Handlers, HandlerStep(h), Clean' PROVE Tidy'
<1>1. Gentle /\ run' = run
  BY GentleStep
     DEF Tidy, HandlerStep, SendLook, NotSent, MarkSent, Skip, EditLook, Approve, GmailTook,
         GmailRefused, NoAnswer, Close, CloseLook, CloseWrite, EditWrite, CompleteLook,
         CompleteWrite, Retry, Rerun
<1>2. /\ Newest' = Newest /\ NoGaps' /\ OneAlive' /\ StillQuiet' /\ NoneWentOut'
      /\ NothingOpen => NothingOpen'
  BY <1>1, GentleKeeps
<1>3. hand \in [Handlers -> Hand]
  BY DEF IInv, HandShape
<1>4. /\ emails' \in [Versions -> Statuses]
      /\ UNCHANGED <<run>>
      /\ \A g \in Handlers \ {h} : hand'[g] = hand[g]
  BY <1>1, <1>3 DEF Gentle, HandlerStep, SendLook, NotSent, MarkSent, Skip, EditLook, Approve,
         GmailTook, GmailRefused, NoAnswer, Close, CloseLook, CloseWrite, EditWrite, CompleteLook,
         CompleteWrite, Retry, Rerun, Press, Leave, Goes
<1>5. EmailShape'
  <2>1. hand'[h].at \in {"approve", "gmail", "editing"} => hand'[h].v \in Versions
    <3>1. ASSUME NEW v \in Versions, NEW click, SendLook(h, v, click) \/ EditLook(h, v)
          PROVE  hand'[h].v \in Versions
      BY <1>3, <3>1 DEF SendLook, EditLook, Press, NoHand
    <3>2. CASE Approve(h)
      BY <1>3, <3>2 DEF Approve, Goes, Leave, NoHand, Tidy, EmailShape, Hand
    <3>3. CASE \/ \E v \in Versions : NotSent(h, v) \/ MarkSent(h, v) \/ Skip(h, v)
               \/ Close(h) \/ CompleteLook(h)
               \/ \E from \in RerunFrom : Retry(h, from) \/ Rerun(h, from)
      <4>1. hand'[h].at \in {"idle", "close", "completing"}
        <5>1. ASSUME NEW v \in Versions, NotSent(h, v) \/ MarkSent(h, v) \/ Skip(h, v)
              PROVE  hand'[h].at \in {"idle", "close"}
          <6>1. CASE NotSent(h, v)
            BY <1>3, <6>1 DEF NotSent, Press, NoHand
          <6>2. CASE MarkSent(h, v)
            BY <1>3, <6>2 DEF MarkSent, Press, NoHand
          <6>3. CASE Skip(h, v)
            BY <1>3, <6>3 DEF Skip, Press, NoHand
          <6> QED
            BY <5>1, <6>1, <6>2, <6>3
        <5>2. CASE Close(h) \/ CompleteLook(h)
          BY <1>3, <5>2 DEF Close, CompleteLook, Press, NoHand
        <5>3. CASE \E from \in RerunFrom : Retry(h, from) \/ Rerun(h, from)
          BY <1>3, <5>3 DEF Retry, Rerun, Press, NoHand
        <5> QED
          BY <3>3, <5>1, <5>2, <5>3
      <4> QED
        BY <4>1
    <3>4. CASE \/ GmailTook(h) \/ GmailRefused(h) \/ NoAnswer(h) \/ CloseLook(h) \/ CloseWrite(h)
               \/ EditWrite(h) \/ CompleteWrite(h)
      BY <1>3, <3>4
         DEF GmailTook, GmailRefused, NoAnswer, CloseLook, CloseWrite, EditWrite, CompleteWrite,
             Leave, NoHand, Hand
    <3> QED
      BY <3>1, <3>2, <3>3, <3>4 DEF HandlerStep
  <2> QED
    BY <1>4, <2>1 DEF Tidy, EmailShape
<1>6. SentSeen'
  <2> DEFINE Sent == \E v \in Versions : emails[v] = "sent"
  <2>1. Sent => Sent'
    BY <1>1 DEF Gentle
  <2>2. hand'[h].at \in {"close", "closing"} /\ hand'[h].sent => Sent'
    <3>1. CASE GmailTook(h)
      BY <1>3, <3>1 DEF GmailTook, StatusAfter, Leave, NoHand, Hand, Tidy, EmailShape
    <3>2. ASSUME NEW v \in Versions, MarkSent(h, v) PROVE Sent'
      BY <3>2 DEF MarkSent, Tidy, EmailShape
    <3>3. CASE CloseLook(h)
      BY <1>3, <2>1, <3>3 DEF CloseLook, Leave, NoHand, Hand, Tidy, SentSeen
    <3>4. CASE Approve(h)
      BY <1>3, <3>4 DEF Approve, Goes, Leave, NoHand, Hand
    <3>5. CASE \/ \E v \in Versions, click \in Clicks : SendLook(h, v, click)
               \/ \E v \in Versions : NotSent(h, v) \/ Skip(h, v) \/ EditLook(h, v)
               \/ Close(h) \/ CompleteLook(h)
               \/ \E from \in RerunFrom : Retry(h, from) \/ Rerun(h, from)
      <4>1. CASE \E v \in Versions, click \in Clicks : SendLook(h, v, click)
        BY <1>3, <4>1 DEF SendLook, Press, NoHand
      <4>2. ASSUME NEW v \in Versions, NotSent(h, v) \/ Skip(h, v) \/ EditLook(h, v)
            PROVE  ~hand'[h].sent
        <5>1. CASE NotSent(h, v)
          BY <1>3, <5>1 DEF NotSent, Press, NoHand
        <5>2. CASE Skip(h, v)
          BY <1>3, <5>2 DEF Skip, Press, NoHand
        <5>3. CASE EditLook(h, v)
          BY <1>3, <5>3 DEF EditLook, Press, NoHand
        <5> QED
          BY <4>2, <5>1, <5>2, <5>3
      <4>3. CASE Close(h) \/ CompleteLook(h)
        BY <1>3, <4>3 DEF Close, CompleteLook, Press, NoHand
      <4>4. CASE \E from \in RerunFrom : Retry(h, from) \/ Rerun(h, from)
        BY <1>3, <4>4 DEF Retry, Rerun, Press, NoHand
      <4> QED
        BY <3>5, <4>1, <4>2, <4>3, <4>4
    <3>6. CASE GmailRefused(h) \/ NoAnswer(h) \/ CloseWrite(h) \/ EditWrite(h) \/ CompleteWrite(h)
      BY <1>3, <3>6 DEF GmailRefused, NoAnswer, CloseWrite, EditWrite, CompleteWrite, Leave, NoHand
    <3> QED
      BY <3>1, <3>2, <3>3, <3>4, <3>5, <3>6 DEF HandlerStep
  <2> QED
    BY <1>4, <2>1, <2>2 DEF Tidy, SentSeen
<1>7. DoneIsQuiet' /\ LooksAtClose'
  <2>1. CASE state' = state /\ closed' = closed
    BY <1>1, <1>2, <2>1 DEF Tidy, DoneIsQuiet, LooksAtClose
  <2>2. CASE CloseWrite(h)
    <3>1. NothingOpen'
      <4>1. \A v \in Versions : emails[v] # "sending"
        BY <2>2 DEF CloseWrite, Clean
      <4>2. CASE hand[h].sent
        <5>1. PICK v \in Versions : emails[v] = "sent"
          BY <2>2, <4>2 DEF CloseWrite, Tidy, SentSeen
        <5>2. \A w \in Versions : emails[w] \notin Unsent
          BY <5>1 DEF Tidy, OneAlive, Alive, Unsent, GoneOut
        <5> QED
          BY <1>2, <4>1, <5>2 DEF NothingOpen, Open
      <4>3. CASE ~hand[h].sent
        BY <2>2, <4>1, <4>3 DEF CloseWrite, ClosedEmails, NothingOpen, Open, Unsent
      <4> QED
        BY <4>2, <4>3
    <3>2. state' = "done" /\ closed' = (closed \/ state # "done")
      BY <2>2 DEF CloseWrite
    <3> QED
      BY <1>1, <1>2, <3>1, <3>2 DEF Tidy, DoneIsQuiet, LooksAtClose
  <2>3. CASE CompleteWrite(h)
    <3>1. /\ closed' = closed /\ emails' = emails
          /\ state' = state \/ (state # "done" /\ state' # "done")
      BY <2>3 DEF CompleteWrite, Clean
    <3> QED
      BY <1>1, <1>2, <3>1 DEF Tidy, DoneIsQuiet, LooksAtClose
  <2> QED
    BY <2>1, <2>2, <2>3
       DEF HandlerStep, SendLook, NotSent, MarkSent, Skip, EditLook, Approve, GmailTook,
           GmailRefused, NoAnswer, Close, CloseLook, EditWrite, CompleteLook, Retry, Rerun
<1> QED
  BY <1>2, <1>5, <1>6, <1>7 DEF Tidy

(* A run that moves on to its next step; `emails' are as they were, or     *)
(* have a new draft that retired all others.                               *)
LEMMA AdvanceTidy ==
  ASSUME IInv, Tidy, run.at \in Working, NextStep, state' = Steps[run.i],
         UNCHANGED <<hand, closed>>, ~closed,
         EmailShape', OneAlive', StillQuiet', run.newest <= Newest',
         \A v \in Versions : emails'[v] # "none" <=> v <= Newest',
         \A v \in Versions : emails[v] = "sent" => emails'[v] = "sent"
  PROVE  Tidy'
<1>1. run.i \in 1..8 /\ Steps[run.i] \in StepNames /\ "done" \notin StepNames
  BY StepsAre DEF IInv, RunShape, Steps
<1>2. run' = [at |-> Place(run.i + 1), job |-> run.job, i |-> run.i + 1,
              original |-> run.original, last |-> Steps[run.i], newest |-> run.newest,
              read |-> run.read, saw |-> run.saw]
  BY DEF NextStep, IInv, RunShape
<1>3. Place(run.i + 1) \in {"final", "email", "step"}
  BY <1>1, PlaceOf
<1>4. NoGaps' /\ NoneWentOut' /\ LooksAtClose' /\ DoneIsQuiet'
  BY <1>1, <1>2, <1>3 DEF NoGaps, NoneWentOut, LooksAtClose, DoneIsQuiet
<1>5. SentSeen'
  BY DEF Tidy, SentSeen
<1> QED
  BY <1>4, <1>5 DEF Tidy

(* The emails and the call stay as they are, and so does what the run      *)
(* knows of them.                                                          *)
LEMMA WaitTidy ==
  ASSUME Tidy, UNCHANGED <<emails, state>>, EmailShape', NoneWentOut', LooksAtClose', SentSeen',
         run'.at # "idle" => \/ run.at # "idle" /\ run'.newest = run.newest
                                /\ run'.original = run.original
                             \/ run'.newest = Newest /\ run'.original = state,
         run'.at \in {"agent", "reread", "insert"} => Newest < MaxEmails
  PROVE  Tidy'
<1>1. Newest' = Newest
  BY NewestSame
<1>2. Newest \in Nat
  BY NewestIs
<1> QED
  BY <1>1, <1>2 DEF Tidy, NoGaps, OneAlive, DoneIsQuiet, StillQuiet, NothingOpen

(* The run is over and has left the call as it was.                        *)
LEMMA EndTidy ==
  ASSUME Tidy, run' = NoRun, UNCHANGED <<emails, state, closed>>,
         hand' = hand \/ hand' = [h \in Handlers |-> NoHand]
  PROVE  Tidy'
<1>1. EmailShape' /\ NoneWentOut' /\ LooksAtClose' /\ SentSeen' /\ run'.at = "idle"
  BY DEF Tidy, EmailShape, NoneWentOut, LooksAtClose, SentSeen, NoRun, NoHand, NoEmail, Statuses,
         Working
<1> QED
  BY <1>1, WaitTidy

(* A closed call is seen closed, unless the run began on it.               *)
LEMMA ClosedSeen ==
  ASSUME Tidy, run.at \in Working, ~ClosedNow PROVE ~closed
BY DEF Tidy, LooksAtClose, ClosedNow

LEMMA CommitTidy ==
  ASSUME IInv, Tidy, run.at \in Working, NEW note, Commit(emails, note), UNCHANGED <<hand, closed>>
  PROVE  Tidy'
<1>1. CASE ClosedNow
  BY <1>1, EndTidy DEF Commit, EndRun
<1>2. CASE ~ClosedNow
  <2>1. NextStep /\ state' = Steps[run.i] /\ emails' = emails /\ ~closed
    BY <1>2, ClosedSeen DEF Commit
  <2>2. Newest' = Newest
    BY <2>1, NewestSame
  <2>3. /\ run'.original = run.original /\ run'.newest = run.newest /\ run'.saw = run.saw
        /\ run.at # "idle"
    BY <2>1 DEF NextStep, IInv, RunShape, Working
  <2>4. EmailShape' /\ OneAlive' /\ StillQuiet'
    BY <2>1, <2>2, <2>3 DEF Tidy, EmailShape, OneAlive, StillQuiet, NothingOpen
  <2> QED
    BY <2>1, <2>2, <2>3, <2>4, AdvanceTidy DEF Tidy, NoGaps
<1> QED
  BY <1>1, <1>2

(* A new draft retires every one that could still be sent.                 *)
LEMMA InsertTidy == ASSUME IInv, Tidy, InsertDraft, Clean' PROVE Tidy'
<1> DEFINE n == Newest + 1
<1>0. run.at = "insert" /\ run.at \in Working /\ Commit(WithDraft, FALSE) /\ UNCHANGED <<hand, closed>>
  BY DEF InsertDraft, Working
<1>1. CASE ClosedNow
  BY <1>0, <1>1, EndTidy DEF Commit, EndRun
<1>2. CASE ~ClosedNow
  <2>1. /\ NextStep /\ state' = Steps[run.i] /\ emails' = WithDraft /\ ~closed
        /\ emails = run.saw
    BY <1>0, <1>2, ClosedSeen DEF Commit, InsertDraft, Clean
  <2>2. n \in Versions /\ n \in Nat
    BY <1>0, NewestIs, PostCallConstants DEF Tidy, NoGaps, Versions
  <2>3. \A v \in Versions :
            emails'[v] = IF v = n THEN "drafted"
                         ELSE IF emails[v] \in Retired THEN "rejected" ELSE emails[v]
    BY <2>1 DEF WithDraft
  <2>4. emails' \in [Versions -> Statuses]
    BY <2>1 DEF WithDraft, Tidy, EmailShape, Statuses
  <2>5. \A v \in Versions : emails'[v] # "none" <=> v <= n
    <3>1. \A v \in Versions : emails[v] # "none" <=> v <= Newest
      BY DEF Tidy, NoGaps
    <3>2. Newest \in Nat /\ \A v \in Versions : v \in Nat
      BY NewestIs, PostCallConstants DEF Versions
    <3>3. \A v \in Versions : emails'[v] # "none" <=> v = n \/ emails[v] # "none"
      BY <2>3 DEF Retired
    <3> QED
      BY <3>1, <3>2, <3>3
  <2>6. Newest' = n
    <3>1. {v \in Versions : emails'[v] # "none"} = 1..n
      BY <2>2, <2>5, PostCallConstants DEF Versions
    <3>2. Cardinality(1..n) = n
      BY <2>2, NewestIs, FS_Interval
    <3> QED
      BY <3>1, <3>2 DEF Newest
  <2>7. /\ run'.original = run.original /\ run'.newest = run.newest /\ run'.saw = run.saw
        /\ run.newest <= Newest /\ run.newest \in Nat
    BY <1>0, <2>1 DEF NextStep, Tidy, NoGaps, EmailShape, IInv, RunShape
  <2>8. EmailShape'
    BY <1>0, <2>4, <2>7 DEF Tidy, EmailShape
  <2>9. OneAlive'
    BY <1>0, <2>1, <2>3 DEF Tidy, NoneWentOut, OneAlive, Alive, Unsent, GoneOut, Retired
  <2>10. run.newest < Newest' /\ run.newest <= Newest' /\ StillQuiet'
    BY <2>6, <2>7, NewestIs DEF StillQuiet
  <2>11. \A v \in Versions : emails[v] = "sent" => emails'[v] = "sent"
    BY <1>0, <2>1 DEF Tidy, NoneWentOut, GoneOut
  <2> QED
    BY <1>0, <2>1, <2>5, <2>6, <2>8, <2>9, <2>10, <2>11, AdvanceTidy
<1> QED
  BY <1>1, <1>2

LEMMA TakeJobTidy == ASSUME IInv, Tidy, NEW j \in Jobs, TakeJob(j) PROVE Tidy'
<1> DEFINE i == StartAt(jobs[j].from)
<1>1. UNCHANGED <<emails, state, hand>> /\ jobs[j].from \in StepNames \cup {"start"}
  BY DEF TakeJob, IInv, JobShape
<1>2. CASE i = 0
  <2>1. UNCHANGED <<emails, state, hand, run, closed>>
    BY <1>1, <1>2 DEF TakeJob
  <2>2. EmailShape' /\ NoneWentOut' /\ LooksAtClose' /\ SentSeen' /\ run.at = "idle"
    BY <2>1, NewestSame DEF TakeJob, Tidy, EmailShape, NoneWentOut, LooksAtClose, SentSeen
  <2> QED
    BY <2>1, <2>2, WaitTidy
<1>3. CASE i # 0
  <2>1. /\ run' = [NoRun EXCEPT !.at = Place(i), !.job = j, !.i = i, !.original = state,
                                !.last = state, !.newest = Newest]
        /\ closed' = FALSE
    BY <1>3 DEF TakeJob
  <2>2. i \in 1..9 /\ (i = 9 => state \in StepNames)
    BY <1>1, <1>3, IndexOf, StepsAre DEF StartAt, Steps
  <2>3. Place(i) \in {"final", "email", "step"} /\ (Place(i) = "final" => i = 9)
    BY <2>2, StepsAre DEF Place
  <2>4. EmailShape' /\ NoneWentOut' /\ SentSeen'
    BY <1>1, <2>1, <2>3, NewestIs
       DEF Tidy, EmailShape, NoneWentOut, SentSeen, NoRun, NoEmail, Statuses
  <2>5. LooksAtClose'
    BY <1>1, <2>1, <2>2, <2>3 DEF LooksAtClose, NoRun, Working
  <2>6. run'.newest = Newest /\ run'.original = state /\ run'.at \notin {"agent", "reread", "insert"}
    BY <2>1, <2>3 DEF NoRun
  <2> QED
    BY <1>1, <2>4, <2>5, <2>6, WaitTidy
<1> QED
  BY <1>2, <1>3

(* The run looks, asks or decides, and writes nothing.                     *)
LEMMA LookTidy ==
  ASSUME IInv, Tidy, QuietStep \/ AskForDraft \/ Keep \/ ReadPrevious \/ ReadFinal, Clean'
  PROVE  Tidy'
<1>0. UNCHANGED <<emails, state, hand, closed>> /\ run.at # "idle" /\ SentSeen'
  BY DEF QuietStep, AskForDraft, Keep, ReadPrevious, ReadFinal, EndRun, Tidy, SentSeen
<1>n. Newest' = Newest
  BY <1>0, NewestSame
<1>1. CASE QuietStep /\ ClosedNow
  BY <1>0, <1>1, EndTidy DEF QuietStep, EndRun
<1>2. CASE QuietStep /\ ~ClosedNow
  <2>1. run' = [run EXCEPT !.at = "mark", !.read = state] /\ run.at = "step"
    BY <1>2 DEF QuietStep
  <2>2. EmailShape' /\ NoneWentOut' /\ LooksAtClose'
    BY <1>0, <1>2, <1>n, <2>1
       DEF IInv, RunShape, Tidy, EmailShape, NoneWentOut, LooksAtClose, Working, ClosedNow
  <2> QED
    BY <1>0, <2>1, <2>2, WaitTidy DEF IInv, RunShape
<1>3. CASE AskForDraft
  <2>1. run' = [run EXCEPT !.at = "agent"] /\ run.at = "email" /\ Newest < MaxEmails
    BY <1>3 DEF AskForDraft
  <2>2. EmailShape' /\ NoneWentOut' /\ LooksAtClose'
    BY <1>0, <1>n, <2>1
       DEF IInv, RunShape, Tidy, EmailShape, NoneWentOut, LooksAtClose, Working
  <2> QED
    BY <1>0, <2>1, <2>2, WaitTidy DEF IInv, RunShape
<1>4. CASE Keep
  <2>1. /\ run' = [run EXCEPT !.at = "reread", !.saw = emails] /\ run.at = "agent"
        /\ \A v \in Versions : emails[v] \notin GoneOut
    BY <1>4 DEF Keep, MayStillSend, SomeGoneOut
  <2>2. EmailShape' /\ NoneWentOut' /\ LooksAtClose'
    BY <1>0, <1>n, <2>1
       DEF IInv, RunShape, Tidy, EmailShape, NoneWentOut, LooksAtClose, Working
  <2>3. Newest < MaxEmails
    BY <2>1 DEF Tidy, NoGaps
  <2> QED
    BY <1>0, <2>1, <2>2, <2>3, WaitTidy DEF IInv, RunShape
<1>5. CASE ReadPrevious
  <2>1. /\ run' = [run EXCEPT !.at = "insert", !.saw = emails] /\ run.at = "reread"
        /\ state # "done" /\ emails = run.saw
    BY <1>5 DEF ReadPrevious, Clean
  <2>2. EmailShape' /\ NoneWentOut' /\ LooksAtClose'
    BY <1>0, <1>n, <2>1
       DEF IInv, RunShape, Tidy, EmailShape, NoneWentOut, LooksAtClose, Working
  <2>3. Newest < MaxEmails
    BY <2>1 DEF Tidy, NoGaps
  <2> QED
    BY <1>0, <2>1, <2>2, <2>3, WaitTidy DEF IInv, RunShape
<1>6. CASE ReadFinal
  <2>1. /\ run' = [run EXCEPT !.at = "settle", !.last = FinalState, !.read = state]
        /\ run.at = "final"
    BY <1>6 DEF ReadFinal
  <2>2. "done" \notin StepNames
    BY StepsAre DEF Steps
  <2>3. /\ state = "done" => FinalState = "done"
        /\ FinalState = "done" => state = "done" \/ (run.original = "done" /\ Newest = run.newest)
    BY <2>1, <2>2 DEF Tidy, LooksAtClose, FinalState, ClosedNow
  <2>4. EmailShape' /\ NoneWentOut' /\ LooksAtClose'
    BY <1>0, <1>n, <2>1, <2>3
       DEF IInv, RunShape, Tidy, EmailShape, NoneWentOut, LooksAtClose, Working
  <2> QED
    BY <1>0, <2>1, <2>4, WaitTidy DEF IInv, RunShape
<1> QED
  BY <1>1, <1>2, <1>3, <1>4, <1>5, <1>6

LEMMA SettleTidy == ASSUME IInv, Tidy, Settle, Clean' PROVE Tidy'
<1>1. /\ run' = NoRun /\ state' = run.last /\ state = run.read /\ run.at = "settle"
      /\ UNCHANGED <<emails, hand, closed>>
  BY DEF Settle, Clean
<1>2. Newest' = Newest
  BY <1>1, NewestSame
<1>3. EmailShape' /\ NoGaps' /\ OneAlive' /\ StillQuiet' /\ NoneWentOut' /\ SentSeen'
  BY <1>1, <1>2
     DEF Tidy, EmailShape, NoGaps, OneAlive, StillQuiet, NoneWentOut, SentSeen, NoRun, NoEmail, Statuses
<1>4. DoneIsQuiet'
  BY <1>1, <1>2 DEF Tidy, DoneIsQuiet, StillQuiet, LooksAtClose, NothingOpen
<1>5. LooksAtClose'
  BY <1>1 DEF Tidy, LooksAtClose, NoRun, Working
<1> QED
  BY <1>3, <1>4, <1>5 DEF Tidy

LEMMA WorkerTidy == ASSUME IInv, Tidy, WorkerStep, Clean, Clean' PROVE Tidy'
<1>1. CASE WritingStep \/ SkipEmail \/ Discard \/ DiscardClosed
  BY <1>1, CommitTidy DEF WritingStep, SkipEmail, Discard, DiscardClosed, Working
<1>2. CASE AudioStep \/ Mark
  <2>1. /\ NextStep /\ state' = Steps[run.i] /\ run.at \in Working
        /\ UNCHANGED <<emails, hand, closed>>
    BY <1>2 DEF AudioStep, Mark, Working
  <2>2. ~closed
    <3>1. CASE AudioStep
      BY <2>1, <3>1, ClosedSeen DEF AudioStep, Clean
    <3>2. CASE Mark
      BY <2>1, <3>2 DEF Mark, Clean, Tidy, LooksAtClose
    <3> QED
      BY <1>2, <3>1, <3>2
  <2>3. Newest' = Newest
    BY <2>1, NewestSame
  <2>4. /\ run'.original = run.original /\ run'.newest = run.newest /\ run'.saw = run.saw
        /\ run.at # "idle"
    BY <2>1 DEF NextStep, IInv, RunShape, Working
  <2>5. EmailShape' /\ OneAlive' /\ StillQuiet'
    BY <2>1, <2>3, <2>4 DEF Tidy, EmailShape, OneAlive, StillQuiet, NothingOpen
  <2> QED
    BY <2>1, <2>2, <2>3, <2>4, <2>5, AdvanceTidy DEF Tidy, NoGaps
<1> QED
  BY <1>1, <1>2, TakeJobTidy, LookTidy, InsertTidy, SettleTidy DEF WorkerStep

LEMMA StepTidy == IInv /\ CleanTidy /\ [Next]_vars => CleanTidy'
<1> SUFFICES ASSUME IInv, CleanTidy, [Next]_vars, Clean' PROVE Tidy'
  BY DEF CleanTidy
<1>1. Clean /\ Tidy
  BY CleanBefore DEF CleanTidy
<1>2. CASE WorkerStep
  BY <1>1, <1>2, WorkerTidy
<1>3. CASE Fault
  BY <1>1, <1>3, EndTidy DEF Fault, Fail, Crash
<1>4. CASE \E h \in Handlers : HandlerStep(h)
  BY <1>1, <1>4, HandlerTidy
<1>5. CASE UNCHANGED vars
  BY <1>1, <1>5
     DEF vars, Tidy, EmailShape, NoGaps, OneAlive, DoneIsQuiet, StillQuiet, NoneWentOut, SentSeen,
         LooksAtClose, NothingOpen, Newest
<1> QED
  BY <1>2, <1>3, <1>4, <1>5 DEF Next

LEMMA InitTidy == Init => CleanTidy
<1> SUFFICES ASSUME Init PROVE Tidy
  BY DEF CleanTidy
<1>1. emails = NoEmail /\ run = NoRun /\ ~closed /\ state # "done"
      /\ hand = [h \in Handlers |-> NoHand]
  BY DEF Init
<1>2. Newest = 0
  <2>1. {v \in Versions : emails[v] # "none"} = {}
    BY <1>1 DEF NoEmail
  <2> QED
    BY <2>1, FS_EmptySet DEF Newest
<1>3. \A v \in Versions : v \in Nat /\ v > 0
  BY PostCallConstants DEF Versions
<1> QED
  BY <1>1, <1>2, <1>3
     DEF Tidy, EmailShape, NoGaps, OneAlive, DoneIsQuiet, StillQuiet, NoneWentOut, SentSeen,
         LooksAtClose, NoEmail, NoRun, NoHand, Statuses, Alive, Unsent, GoneOut, Working

LEMMA Tidiness == Spec => [](IInv /\ CleanTidy)
BY InitIInv, StepIInv, InitTidy, StepTidy, PTL DEF Spec

(* A call has one follow-up.  Unless a write landed on something that had  *)
(* changed since it was read, at most one version can be sent, none once   *)
(* one went out, and none on a closed call (workflow.step_email,           *)
(* review.email_done).                                                     *)
THEOREM OneFollowUpPerCall == Spec => []OneFollowUp
<1>1. CleanTidy => OneFollowUp
  <2> SUFFICES ASSUME CleanTidy PROVE OneFollowUp
    OBVIOUS
  <2> DEFINE U == {v \in Versions : emails[v] \in Unsent}
  <2>1. OneSendable
    <3> SUFFICES ASSUME Clean PROVE Cardinality(U) <= 1
      BY DEF OneSendable
    <3>1. \A v, w \in U : v = w
      BY DEF CleanTidy, Tidy, OneAlive, Alive
    <3>2. CASE U = {}
      BY <3>2, FS_EmptySet
    <3>3. CASE \E v : v \in U
      <4> PICK v : v \in U
        BY <3>3
      <4>1. U = {v}
        BY <3>1
      <4>2. Cardinality({v}) = 1
        BY FS_Singleton
      <4> HIDE DEF U
      <4> QED
        BY <4>1, <4>2
    <3> QED
      BY <3>2, <3>3
  <2>2. ClosedIsClosed
    BY DEF ClosedIsClosed, CleanTidy, Tidy, DoneIsQuiet, NothingOpen, Open
  <2>3. NoSecondFollowUp
    BY DEF NoSecondFollowUp, SomeGoneOut, CleanTidy, Tidy, OneAlive, Alive, Unsent, GoneOut
  <2> QED
    BY <2>1, <2>2, <2>3 DEF OneFollowUp
<1> QED
  BY <1>1, Tidiness, PTL

(* "His action wins": unless such a write, or a transcription that writes  *)
(* the call's state itself, came in between, a call the seller closed is   *)
(* closed when the run is over (workflow.run_pipeline).                    *)
THEOREM HisActionPrevails == Spec => []SellerWins
<1>1. CleanTidy => SellerWins
  BY DEF SellerWins, HisActionWins, CleanTidy, Tidy, LooksAtClose
<1> QED
  BY <1>1, Tidiness, PTL
=============================================================================
