------------------------------- MODULE PostCall -------------------------------
(***************************************************************************)
(* One recorded call from 'captured' to 'done': the worker's pipeline      *)
(* (orchestrator/workflow.py, run_pipeline and step_email) against the     *)
(* seller's handlers (web/app.py, orchestrator/review.py) and the          *)
(* auto-send executor, which write the same call and the same emails.      *)
(*                                                                         *)
(* A run of statements from the first write to its commit holds SQLite's   *)
(* write lock and is one step.  What was read before it is not protected,  *)
(* so a read that decides a later write is a step of its own.  An email's  *)
(* row is followed only as far as its status (EmailSend has the rest), a   *)
(* job's as far as whether it is still to run (EventBus).                  *)
(*                                                                         *)
(* An operator named ...Slip is a plausible slip in the code that the      *)
(* operator below it models; the README says which property notices it.    *)
(***************************************************************************)
EXTENDS Naturals, Sequences, FiniteSets

CONSTANTS
    Handlers,       \* web requests and executors that run at the same time
    Clicks,         \* the buttons they press, of AllClicks
    RerunFrom,      \* steps a Retry, Re-run or Redraft starts from
    HasAudio,       \* the call was recorded here; FALSE: a transcript was imported
    MaxJobs,        \* bound: CALL_ENDED and the PROCESS_CALLs of clicks
    MaxEmails,      \* bound: drafts of this call
    MaxFaults       \* bound: steps that raise, and crashes

AllClicks == {"send", "auto", "draft", "mark_sent", "not_sent", "skip", "edit",
              "close", "complete", "retry", "rerun"}

(* workflow.PIPELINE, the steps that need audio, and those that write      *)
(* nothing when there is none or the agent's inputs are the last run's.    *)
Steps == <<"final_transcribed", "diarized", "quality_done", "summarized", "analyzed",
           "actions_extracted", "loops_reconciled", "email_drafted">>
AudioSteps == {"final_transcribed", "diarized"}
MayBeQuiet == {"summarized", "analyzed", "actions_extracted"}
              \cup (IF HasAudio THEN {} ELSE AudioSteps)

StepNames == {Steps[i] : i \in DOMAIN Steps}
Chain     == {"captured"} \cup StepNames
States    == Chain \cup {"awaiting_review", "reviewed", "done"}
Statuses  == {"none", "drafted", "sending", "sent", "saved_to_gmail", "failed", "rejected"}
Unsent    == {"drafted", "failed"}
GoneOut   == {"sent", "sending", "saved_to_gmail"}

Jobs     == 1..MaxJobs
Versions == 1..MaxEmails

ASSUME PostCallConstants ==
    /\ Clicks \subseteq AllClicks
    /\ RerunFrom \subseteq StepNames
    /\ HasAudio \in BOOLEAN
    /\ MaxJobs \in Nat \ {0} /\ MaxEmails \in Nat /\ MaxFaults \in Nat

VARIABLES
    state,      \* calls.wf_state
    error,      \* calls.wf_error is set
    emails,     \* status of each draft of the call
    skipped,    \* the 'email' artifact says that no draft was written
    jobs,       \* wf_events of the call: from which step, and its status
    run,        \* the worker's run_pipeline
    hand,       \* what each handler is doing
    faults,     \* what is left of MaxFaults
    closed,     \* history: the seller closed the open call since the run began
    finished,   \* history: the seller finished the call between runs, and no draft was written since
    taint       \* history: a write landed on something changed since it was read

vars == <<state, error, emails, skipped, jobs, run, hand, faults, closed, finished, taint>>

NoJob   == [status |-> "absent", from |-> "start"]
NoEmail == [v \in Versions |-> "none"]
NoRun   == [at |-> "idle", job |-> 0, i |-> 0, original |-> "captured", last |-> "captured",
            newest |-> 0, read |-> "captured", saw |-> NoEmail]
NoHand  == [at |-> "idle", v |-> 0, mode |-> "send", saw |-> "captured", sent |-> FALSE]

Init ==
    /\ state = (IF HasAudio THEN "captured" ELSE "diarized") /\ error = FALSE
    /\ emails = NoEmail /\ skipped = FALSE
    /\ jobs = [j \in Jobs |-> IF j = 1 THEN [NoJob EXCEPT !.status = "pending"] ELSE NoJob]
    /\ run = NoRun
    /\ hand = [h \in Handlers |-> NoHand]
    /\ faults = MaxFaults
    /\ closed = FALSE /\ finished = FALSE /\ taint = FALSE

Newest == Cardinality({v \in Versions : emails[v] # "none"})
SomeGoneOut == \E v \in Versions : emails[v] \in GoneOut

SetJob(j, s) == jobs' = [jobs EXCEPT ![j].status = s]

----------------------------------------------------------------------------
(* workflow.run_pipeline.                                                  *)

Index(name) == CHOOSE i \in DOMAIN Steps : Steps[i] = name

(* The step a run begins with; 0 when there is nothing to run.             *)
StartAtSlip(from) == IF from # "start" THEN Index(from) ELSE IF state = "captured" THEN 1 ELSE 0
StartAt(from) ==
    IF from # "start" THEN Index(from)
    ELSE CASE state = "captured"  -> 1
           [] state \in StepNames -> Index(state) + 1
           [] OTHER               -> 0

Place(i) == IF i > Len(Steps) THEN "final"
            ELSE IF Steps[i] = "email_drafted" THEN "email" ELSE "step"

(* A job whose not-before time is still to come lets a younger one pass.   *)
TakeJob(j) ==
    /\ run.at = "idle"
    /\ jobs[j].status = "pending"
    /\ LET i == StartAt(jobs[j].from) IN
       IF i = 0
       THEN SetJob(j, "done") /\ UNCHANGED <<run, closed>>
       ELSE /\ SetJob(j, "running")
            /\ run' = [NoRun EXCEPT !.at = Place(i), !.job = j, !.i = i, !.original = state,
                                    !.last = state, !.newest = Newest]
            /\ closed' = FALSE
    /\ UNCHANGED <<state, error, emails, skipped, hand, faults, finished, taint>>

(* "While a slow step ran, the seller may have ... closed the call."       *)
ClosedNowSlip == FALSE
ClosedNow == state = "done" /\ state # run.last

EndRun ==
    /\ run' = NoRun
    /\ SetJob(run.job, "done")
    /\ UNCHANGED <<state, error, emails, skipped, finished>>

NextStep == run' = [run EXCEPT !.i = @ + 1, !.last = Steps[run.i], !.at = Place(run.i + 1)]

(* The end of a step that wrote something: its writes, which leave the     *)
(* emails and the artifact's note as given, the look at the call and the   *)
(* new state are committed together, or dropped because the seller closed  *)
(* the call.                                                               *)
Commit(new, note) ==
    IF ClosedNow THEN EndRun
    ELSE /\ NextStep
         /\ state' = Steps[run.i] /\ error' = FALSE
         /\ emails' = new /\ skipped' = note
         /\ finished' = (finished /\ new = emails)
         /\ UNCHANGED jobs

WritingStep ==
    /\ run.at = "step"
    /\ Steps[run.i] \notin AudioSteps
    /\ Commit(emails, skipped)
    /\ UNCHANGED <<hand, faults, closed, taint>>

(* final.transcribe_call and diarize.diarize_call set the call's state     *)
(* themselves, so the look at the call finds their own write.              *)
AudioStep ==
    /\ run.at = "step"
    /\ HasAudio /\ Steps[run.i] \in AudioSteps
    /\ NextStep
    /\ state' = Steps[run.i] /\ error' = FALSE
    /\ taint' = (taint \/ ClosedNow)
    /\ UNCHANGED <<emails, skipped, jobs, hand, faults, closed, finished>>

(* A step that wrote nothing: the look at the call ...                     *)
QuietStep ==
    /\ run.at = "step"
    /\ Steps[run.i] \in MayBeQuiet
    /\ IF ClosedNow THEN EndRun
       ELSE /\ run' = [run EXCEPT !.at = "mark", !.read = state]
            /\ UNCHANGED <<state, error, emails, skipped, jobs, finished>>
    /\ UNCHANGED <<hand, faults, closed, taint>>

(* ... and the new state.                                                  *)
Mark ==
    /\ run.at = "mark"
    /\ NextStep
    /\ state' = Steps[run.i] /\ error' = FALSE
    /\ taint' = (taint \/ state # run.read)
    /\ UNCHANGED <<emails, skipped, jobs, hand, faults, closed, finished>>

----------------------------------------------------------------------------
(* workflow.step_email.                                                    *)

(* Backfilled or old calls, nobody to write to, a follow-up gone out.      *)
SkipEmail ==
    /\ run.at = "email"
    /\ Commit(emails, TRUE)
    /\ UNCHANGED <<hand, faults, closed, taint>>

AskForDraft ==
    /\ run.at = "email"
    /\ ~SomeGoneOut
    /\ Newest < MaxEmails
    /\ run' = [run EXCEPT !.at = "agent"]
    /\ UNCHANGED <<state, error, emails, skipped, jobs, hand, faults, closed, finished, taint>>

(* The agent answered; "re-read what the seller may have done meanwhile":  *)
(* first the emails, ...                                                   *)
Discard ==
    /\ run.at = "agent"
    /\ SomeGoneOut
    /\ Commit(emails, TRUE)
    /\ UNCHANGED <<hand, faults, closed, taint>>

MayStillSendSlip == TRUE
MayStillSend == ~SomeGoneOut

Keep ==
    /\ run.at = "agent"
    /\ MayStillSend
    /\ run' = [run EXCEPT !.at = "reread", !.saw = emails]
    /\ UNCHANGED <<state, error, emails, skipped, jobs, hand, faults, closed, finished, taint>>

(* ... then the call (workflow.USER_CLOSED), ...                           *)
DiscardClosed ==
    /\ run.at = "reread"
    /\ state = "done"
    /\ Commit(emails, TRUE)
    /\ UNCHANGED <<hand, faults, closed, taint>>

(* ... then which drafts to retire.                                        *)
ReadPrevious ==
    /\ run.at = "reread"
    /\ state # "done"
    /\ run' = [run EXCEPT !.at = "insert", !.saw = emails]
    /\ taint' = (taint \/ emails # run.saw)
    /\ UNCHANGED <<state, error, emails, skipped, jobs, hand, faults, closed, finished>>

RetiredSlip == {"drafted"}
Retired == {"drafted", "failed"}

WithDraft ==
    [v \in Versions |-> IF v = Newest + 1 THEN "drafted"
                        ELSE IF run.saw[v] \in Retired THEN "rejected" ELSE emails[v]]

InsertDraft ==
    /\ run.at = "insert"
    /\ Commit(WithDraft, FALSE)
    /\ taint' = (taint \/ (~ClosedNow /\ emails # run.saw))
    /\ UNCHANGED <<hand, faults, closed>>

----------------------------------------------------------------------------
(* The end of run_pipeline: "re-running a finished call must not drag it   *)
(* back into review", unless it wrote a new draft.                         *)
FinalStateSlip == IF ClosedNow THEN "done" ELSE "awaiting_review"
FinalState ==
    CASE ClosedNow -> "done"
      [] ~ClosedNow /\ run.original \in {"reviewed", "done"} /\ Newest = run.newest
                   -> run.original
      [] OTHER     -> "awaiting_review"

ReadFinal ==
    /\ run.at = "final"
    /\ run' = [run EXCEPT !.at = "settle", !.last = FinalState, !.read = state]
    /\ UNCHANGED <<state, error, emails, skipped, jobs, hand, faults, closed, finished, taint>>

(* The final state and workflow._resolve_stale_failures.                   *)
Settle ==
    /\ run.at = "settle"
    /\ state' = run.last /\ error' = FALSE
    /\ jobs' = [j \in Jobs |->
                  IF \/ j = run.job \/ jobs[j].status = "failed"
                     \/ jobs[j] = [status |-> "pending", from |-> "start"]
                  THEN [jobs[j] EXCEPT !.status = "done"] ELSE jobs[j]]
    /\ run' = NoRun
    /\ taint' = (taint \/ state # run.read)
    /\ UNCHANGED <<emails, skipped, hand, faults, closed, finished>>

(* A step raises: the error is kept for the call page, and the job waits   *)
(* for its next attempt or, after the last one, is parked.                 *)
Fail(s) ==
    /\ run.at \in {"step", "mark", "email", "agent", "reread", "insert"}
    /\ faults > 0 /\ faults' = faults - 1
    /\ error' = TRUE
    /\ SetJob(run.job, s)
    /\ run' = NoRun
    /\ UNCHANGED <<state, emails, skipped, hand, closed, finished, taint>>

(* The process dies.  On its next start bus.recover_running gives the job  *)
(* back, or parks it; the handlers' requests are gone.                     *)
RecoveredSlip(s) == "done"
Recovered(s) == s

Crash(s) ==
    /\ run.at # "idle"
    /\ faults > 0 /\ faults' = faults - 1
    /\ SetJob(run.job, Recovered(s))
    /\ run' = NoRun
    /\ hand' = [h \in Handlers |-> NoHand]
    /\ UNCHANGED <<state, error, emails, skipped, closed, finished, taint>>

----------------------------------------------------------------------------
(* The seller.  A handler presses one button and runs to its end.          *)

Press(h, click, new) ==
    /\ click \in Clicks
    /\ hand[h].at = "idle"
    /\ hand' = [hand EXCEPT ![h] = new]

Goes(h, place) == hand' = [hand EXCEPT ![h].at = place]
Leave(h) == hand' = [hand EXCEPT ![h] = NoHand]

(* app._call_job: the newest job that is not done.                         *)
OpenJobs == {j \in Jobs : jobs[j].status \notin {"absent", "done"}}
CallJobRunning == \E j \in OpenJobs : /\ \A k \in OpenJobs : k <= j
                                      /\ jobs[j].status = "running"

(* app._approve refuses while the call's job is running; the executor      *)
(* picks drafts and does not look.                                         *)
SendLook(h, v, click) ==
    /\ click \in {"send", "draft", "auto"}
    /\ IF click = "auto" THEN emails[v] = "drafted"
                         ELSE emails[v] \in Unsent /\ ~CallJobRunning
    /\ Press(h, click, [NoHand EXCEPT !.at = "approve", !.v = v,
                                      !.mode = IF click = "draft" THEN "draft" ELSE "send"])
    /\ UNCHANGED <<state, error, emails, skipped, jobs, run, faults, closed, finished, taint>>

(* policy.approve_and_send's locked block.                                 *)
Approve(h) ==
    LET v == hand[h].v IN
    /\ hand[h].at = "approve"
    /\ IF emails[v] \in Unsent
       THEN emails' = [emails EXCEPT ![v] = "sending"] /\ Goes(h, "gmail")
       ELSE Leave(h) /\ UNCHANGED emails
    /\ UNCHANGED <<state, error, skipped, jobs, run, faults, closed, finished, taint>>

StatusAfterSlip(mode) == IF mode = "send" THEN "sent" ELSE "draft"
StatusAfter(mode) == IF mode = "send" THEN "sent" ELSE "saved_to_gmail"

(* Gmail took it, refused it, or did not answer.                           *)
GmailTook(h) ==
    LET v == hand[h].v IN
    /\ hand[h].at = "gmail"
    /\ emails' = [emails EXCEPT ![v] = StatusAfter(hand[h].mode)]
    /\ taint' = (taint \/ emails[v] # "sending")
    /\ IF hand[h].mode = "send"
       THEN hand' = [hand EXCEPT ![h].at = "close", ![h].sent = TRUE]
       ELSE Leave(h)
    /\ UNCHANGED <<state, error, skipped, jobs, run, faults, closed, finished>>

GmailRefused(h) ==
    LET v == hand[h].v IN
    /\ hand[h].at = "gmail"
    /\ emails' = [emails EXCEPT ![v] = "failed"]
    /\ taint' = (taint \/ emails[v] # "sending")
    /\ Leave(h)
    /\ UNCHANGED <<state, error, skipped, jobs, run, faults, closed, finished>>

NoAnswer(h) ==
    /\ hand[h].at = "gmail"
    /\ Leave(h)
    /\ UNCHANGED <<state, error, emails, skipped, jobs, run, faults, closed, finished, taint>>

(* The seller's word on an email that may or may not have gone out, and on *)
(* a Gmail draft he sent himself.                                          *)
NotSent(h, v) ==
    /\ emails[v] = "sending"
    /\ Press(h, "not_sent", NoHand)
    /\ emails' = [emails EXCEPT ![v] = "failed"]
    /\ UNCHANGED <<state, error, skipped, jobs, run, faults, closed, finished, taint>>

MarkSent(h, v) ==
    /\ emails[v] = "saved_to_gmail"
    /\ Press(h, "mark_sent", [NoHand EXCEPT !.at = "close", !.sent = TRUE])
    /\ emails' = [emails EXCEPT ![v] = "sent"]
    /\ UNCHANGED <<state, error, skipped, jobs, run, faults, closed, finished, taint>>

(* review.skip_email, then email_done.                                     *)
Skip(h, v) ==
    /\ emails[v] \in Unsent
    /\ Press(h, "skip", [NoHand EXCEPT !.at = "close"])
    /\ emails' = [emails EXCEPT ![v] = "rejected"]
    /\ UNCHANGED <<state, error, skipped, jobs, run, faults, closed, finished, taint>>

(* "Close without email", offered on an open call that got no draft.       *)
Close(h) ==
    /\ skipped /\ state # "done"
    /\ Press(h, "close", [NoHand EXCEPT !.at = "close"])
    /\ UNCHANGED <<state, error, emails, skipped, jobs, run, faults, closed, finished, taint>>

(* review.email_done: a look at the call's emails ...                      *)
CloseLook(h) ==
    /\ hand[h].at = "close"
    /\ IF \E v \in Versions : emails[v] = "sending"
       THEN Leave(h)
       ELSE hand' = [hand EXCEPT ![h].at = "closing",
                                 ![h].sent = @ \/ \E v \in Versions : emails[v] = "sent"]
    /\ UNCHANGED <<state, error, emails, skipped, jobs, run, faults, closed, finished, taint>>

(* ... and the writes.                                                     *)
ClosedEmailsSlip(sent) == emails
ClosedEmails(sent) ==
    [v \in Versions |-> IF ~sent /\ emails[v] \in Unsent THEN "rejected" ELSE emails[v]]

CloseWrite(h) ==
    /\ hand[h].at = "closing"
    /\ emails' = ClosedEmails(hand[h].sent)
    /\ state' = "done" /\ error' = FALSE
    /\ closed' = (closed \/ state # "done")
    /\ finished' = (finished \/ run.at = "idle")
    /\ taint' = (taint \/ \E v \in Versions : emails[v] = "sending")
    /\ Leave(h)
    /\ UNCHANGED <<skipped, jobs, run, faults>>

(* review.update_email: a look, and a write that does not look again.      *)
EditLook(h, v) ==
    /\ emails[v] \in Unsent
    /\ Press(h, "edit", [NoHand EXCEPT !.at = "editing", !.v = v])
    /\ UNCHANGED <<state, error, emails, skipped, jobs, run, faults, closed, finished, taint>>

EditWrite(h) ==
    LET v == hand[h].v IN
    /\ hand[h].at = "editing"
    /\ emails' = [emails EXCEPT ![v] = "drafted"]
    /\ taint' = (taint \/ emails[v] \notin Unsent)
    /\ Leave(h)
    /\ UNCHANGED <<state, error, skipped, jobs, run, faults, closed, finished>>

(* review.complete_review and app.call_complete, offered once the pipeline *)
(* is through; the looks are one step, the writes another.                 *)
CompleteLook(h) ==
    /\ state \notin Chain
    /\ Press(h, "complete", [NoHand EXCEPT !.at = "completing", !.saw = state])
    /\ UNCHANGED <<state, error, emails, skipped, jobs, run, faults, closed, finished, taint>>

CompleteWrite(h) ==
    LET new == IF hand[h].saw = "awaiting_review" THEN "reviewed" ELSE hand[h].saw IN
    /\ hand[h].at = "completing"
    /\ IF hand[h].saw = "reviewed" THEN UNCHANGED <<state, error, taint>>
       ELSE /\ state' = new /\ error' = FALSE
            /\ taint' = (taint \/ state # hand[h].saw)
    /\ finished' = (finished \/ (run.at = "idle" /\ state' \in {"reviewed", "done"}))
    /\ Leave(h)
    /\ UNCHANGED <<emails, skipped, jobs, run, faults, closed>>

(* app._publish_process.                                                   *)
Publish(from) ==
    \E j \in Jobs :
        /\ jobs[j] = NoJob /\ \A k \in Jobs : k < j => jobs[k] # NoJob
        /\ jobs' = [jobs EXCEPT ![j] = [status |-> "pending", from |-> from]]

(* Retry of a call that failed; Re-run and Redraft of any.                 *)
Retry(h, from) ==
    /\ error
    /\ Press(h, "retry", NoHand)
    /\ Publish(from)
    /\ error' = FALSE
    /\ UNCHANGED <<state, emails, skipped, run, faults, closed, finished, taint>>

Rerun(h, from) ==
    /\ state # "captured"
    /\ Press(h, "rerun", NoHand)
    /\ Publish(from)
    /\ UNCHANGED <<state, error, emails, skipped, run, faults, closed, finished, taint>>

----------------------------------------------------------------------------
WorkerStep ==
    \/ \E j \in Jobs : TakeJob(j)
    \/ WritingStep \/ AudioStep \/ QuietStep \/ Mark
    \/ SkipEmail \/ AskForDraft \/ Discard \/ Keep \/ DiscardClosed \/ ReadPrevious \/ InsertDraft
    \/ ReadFinal \/ Settle

Fault == \E s \in {"pending", "failed"} : Fail(s) \/ Crash(s)

HandlerStep(h) ==
    \/ \E v \in Versions, click \in Clicks : SendLook(h, v, click)
    \/ \E v \in Versions : NotSent(h, v) \/ MarkSent(h, v) \/ Skip(h, v) \/ EditLook(h, v)
    \/ Approve(h) \/ GmailTook(h) \/ GmailRefused(h) \/ NoAnswer(h)
    \/ Close(h) \/ CloseLook(h) \/ CloseWrite(h)
    \/ EditWrite(h) \/ CompleteLook(h) \/ CompleteWrite(h)
    \/ \E from \in RerunFrom : Retry(h, from) \/ Rerun(h, from)

Next == WorkerStep \/ Fault \/ \E h \in Handlers : HandlerStep(h)

Spec == Init /\ [][Next]_vars

(* The worker thread keeps taking jobs and its agents answer.              *)
FairSpec == Spec /\ WF_vars(WorkerStep)

----------------------------------------------------------------------------
TypeOK ==
    /\ state \in States /\ error \in BOOLEAN
    /\ emails \in [Versions -> Statuses] /\ skipped \in BOOLEAN
    /\ jobs \in [Jobs -> [status : {"absent", "pending", "running", "done", "failed"},
                          from : StepNames \cup {"start"}]]
    /\ run \in [at : {"idle", "step", "mark", "email", "agent", "reread", "insert", "final", "settle"},
                job : 0..MaxJobs, i : 0..Len(Steps) + 1, original : States, last : States,
                newest : 0..MaxEmails, read : States, saw : [Versions -> Statuses]]
    /\ hand \in [Handlers -> [at : {"idle", "approve", "gmail", "close", "closing", "editing", "completing"},
                              v : 0..MaxEmails, mode : {"send", "draft"}, saw : States, sent : BOOLEAN]]
    /\ faults \in 0..MaxFaults
    /\ {closed, finished, taint} \subseteq BOOLEAN

(* What unlocked reads can spoil, and a close that a transcription or a    *)
(* diarization overwrote, is in `taint`; these hold of every behaviour in  *)
(* which no such read went stale before its write.                         *)
Clean == ~taint

(* "Retire every unsent draft, failed ones included, so only the new       *)
(* version can be sent": two versions of one follow-up are never both      *)
(* there to send.                                                          *)
OneSendable == Clean => Cardinality({v \in Versions : emails[v] \in Unsent}) <= 1

(* "... so nothing sendable is left on a closed call", whatever was being  *)
(* drafted, sent or re-run when it was closed.                             *)
ClosedIsClosed == Clean /\ state = "done" => \A v \in Versions : emails[v] \notin Unsent

(* A follow-up that went out, or may have, is the call's last: no draft is *)
(* there to be sent after it.                                              *)
NoSecondFollowUp == Clean /\ SomeGoneOut => \A v \in Versions : emails[v] # "drafted"

(* A call has one follow-up: drafts never compete with each other, with    *)
(* one that went out, or with the closing of the call.                     *)
OneFollowUp == OneSendable /\ ClosedIsClosed /\ NoSecondFollowUp

(* "His action wins": a call the seller closed while a run was under way   *)
(* is closed when the run is over.                                         *)
HisActionWins == run.at = "idle" /\ closed => state = "done"
SellerWins == Clean => HisActionWins

(* A call on its way through the pipeline is never forgotten: a job will   *)
(* move it, or the seller sees the error or the parked job.                *)
NeverForgotten ==
    state \in Chain => \/ run.at # "idle" \/ error
                       \/ \E j \in Jobs : jobs[j].status \in {"pending", "failed"}

(* "Re-running a finished call must not drag it back into review", unless  *)
(* it has a new draft to review.                                           *)
DraggedBack == state = "awaiting_review" /\ finished

(* ... as far as the code keeps that: in runs in which no step failed.     *)
NotDraggedBack == Clean /\ faults = MaxFaults => ~DraggedBack
NeverDraggedBack == Clean => ~DraggedBack

(* "The call was closed while the draft was being written", says the note  *)
(* in place of the draft.                                                  *)
DiscardedWhenClosedMeanwhile == [][DiscardClosed => closed]_vars

(* A Send is refused while a new draft is being written.                   *)
RefusedWhileDrafting ==
    [][\A h \in Handlers, v \in Versions : SendLook(h, v, "send") => run.at # "agent"]_vars

(* Every call gets through, or shows that it did not.                      *)
Processed ==
    state \in Chain ~> \/ state \notin Chain \/ error
                       \/ \E j \in Jobs : jobs[j].status = "failed"

(* ... and on its way drags nothing back that was finished.                *)
ProcessedForGood == Processed /\ []NotDraggedBack
=============================================================================
