# Sales Coach in TLA+

TLA+ models of `salescoach`, the local-first sales coach in this repository
(`src/` below is the repository root): a Python web server with a worker thread,
a scheduler and a live-capture manager over one SQLite file, which records or
imports sales calls, has agents summarise them and draft a follow-up email, and
sends that email through Gmail when the seller says so.

The models are about what the program's threads, processes and outside services
may do to one another: two clicks at once, an edit under a running step, a lost
answer from Gmail, a crash between two writes, a recorder that finishes late.
What the agents write and how text is parsed and sound decoded is left out; how what they
write is kept, counted, cached, quoted and shown is in.

- [1. The system](#1-the-system): components, their state, how they interact
- [2. How the models are made](#2-how-the-models-are-made)
- [3. Modules](#3-modules): state and actions, property by property
- [4. Runs](#4-runs): what TLC checks, the bounds, the fairness
- [5. Proofs](#5-proofs): what TLAPS proves, and how
- [6. Where the code and its own words differ](#6-where-the-code-and-its-own-words-differ)
- [7. Slips](#7-slips): what each property notices
- [8. Not modelled](#8-not-modelled)
- [9. Plan](#9-plan)

To check: `tlc -config X.cfg MCModule` and `tlapm ModuleProofs.tla`, in this directory.

## 1. The system

### Processes and shared state

One server process (`cli.py`, `web/app.py`) runs a thread per request, the
worker thread (`orchestrator/worker.py`), the scheduler's threads
(`automation/scheduler.py`) and the live manager (`live/manager.py`). Beside it
the seller may start `salescoach work` (a second worker), `salescoach call` (a
second live manager), `salescoach sources poll` and `salescoach process`.
All of them share:

- **one SQLite file**, in WAL mode with a busy timeout. Python's `sqlite3` module
  runs a SELECT outside a transaction and opens one at the first write, so what a
  handler read before its first write may be old when it writes; between its first
  write and its commit no other writer gets in;
- the **audio archive** (`data/audio/<call>/`) and the **inbox** of raw payloads
  (`data/inbox/<kind>/`), plain files that no transaction covers;
- **Gmail**, the **recorders' HTTP APIs** and the **model providers**, which answer
  late, or never, or after the caller has given up.

### Components

| component (source) | state | operations | hard part | module |
|---|---|---|---|---|
| Email delivery (`execution/policy.py`, `gmail.py`; buttons of `web/app.py`) | the `emails` row: status, mode, approved content, Message-ID | approve and send, save to Drafts, recover a stuck attempt, "It was not sent", mark sent, edit, skip | lost answers, two clicks, a crash around the Gmail call | `EmailSend`, `OneDelivery` |
| Outreach (`automation/autosend.py`, `followup.py`, `replies.py`) | nudges, decisions of the day, replies, the auto-send log | evaluate due loops, draft, send what was left alone, read and analyse replies | sends without the seller; a cap, a limit and a hold kept over several tables | `Outreach` |
| Workflow bus and worker (`orchestrator/bus.py`, `worker.py`) | `wf_events`: status, attempts, not-before | publish, claim, complete, fail, defer, recover, retry | crash loops, two consumers, a Retry on a running job | `EventBus`, `WorkLedger` |
| Post-call pipeline and review (`orchestrator/workflow.py`, `review.py`) | `calls.wf_state`, `wf_error`, the drafts | steps with an agent call each; send, skip, close, complete, retry, re-run | the seller acts during a step that takes minutes | `PostCall` |
| Analysis steps (`orchestrator/workflow.py`, `context.py`, `agents/`, `speech/`) | turns, speakers, artifacts with the hash of their prompt, claims, loops | transcribe, diarize, rate, summarise, analyse, extract, reconcile; name a speaker, move the call | a re-run reuses an answer that is about other turns | `CallAnalysis` |
| Live capture (`live/manager.py`, `supervisor.py`, `archive.py`) | the session, `calls.wf_state`, two PCM and two FLAC files | start, stop, session ended, recover orphans | a crash inside the conversion; two processes | `LiveCapture` |
| Live transcription (`live/vad.py`, `stream_asr.py`, `supervisor.py`, `levels.py`) | blocks, a ring, a bounded queue, numbered turns | cut into segments, submit, transcribe, stop | off by one sample; a queue at its limit when the call ends | `Vad`, `LiveSpeech` |
| Live coach (`coach/`, `plugins/live_coach.py`, `live/hub.py`) | candidates, the ranker's memory, the nudges on the screen and in the table | attach, take a line, rank, show, slow pass, dismiss, end | a slow answer about a moment that is over; a write that fails between deciding and showing | `LiveCoach`, `NudgeBudget` |
| Transcript intake (`sources/`) | `last_ok`, the raw payload, the call, its CALL_ENDED, remembered labels | poll, import, hold, answer the speaker question | late transcripts, failed imports, racing importers | `Intake` |
| Watched folder (`sources/adapters/folder.py`) | files under their name, `.processing`, `processed/`; those to skip | recover, list, take, import, set aside | two polls, a name used again, a crash between rename and commit | `Folder` |
| Memory gate and commitments; Jarvis bridge (`memory/gate.py`, `review.py`, `integrations/jarvis_bridge.py`) | provenance per field, conflicts, open loops, links to another application's commitments | propose, park, resolve, reconcile, confirm, reject; import, mirror, close, read back | an agent's claim against the seller's word; two owners of one promise | `Commitments` |
| Intelligence (`intel/`, `plugins/intelligence.py`, part of `setupui/web.py`) | assessments, risks, elements, health, the strategy artifact, methodologies | strategist run, reconciler, edits, switch; build, save and delete a methodology; validate and cap an answer | a run of the old methodology; what a re-run deletes and a cached one does not write back | `DealStrategy`, `Methodology` |
| Learning (`learning/patterns.py`, `observe.py`, `memory/patterns.py`) | observations, patterns, merges, proposals, a trigger's weight | recompute, judge, merge, propose, decide | chains of merges; a pattern that goes and returns | `Learning` |
| Outcomes and deal stages (`learning/outcomes.py`, `weekly.py`) | derived verdicts; stage history | recompute, prune; set a deal's outcome | a late reply, a switch that looks like progress, two tabs | `Outcomes`, `DealOutcome` |
| Calendar and scheduler (`automation/calendar.py`, `scheduler.py`) | copies of meetings, armed recordings, slots of a draft | sync, arm, tick, start, stop, fill slots | a slow read between a body and its write | `Calendar` |
| Model providers and the agent loop (`agents/base.py`, `providers/`) | attempts of a run, what a shared provider has learned of its endpoint | ask, retry, fall back, wait | retry, fallback and quota in one loop | `Agents` |
| Configuration and the setup pages' model choice (`config.py`, `providers/setup.py`, `setupui/`) | one YAML file, keys, the last connection test, the card on Today | save, list, test, dismiss | edits by hand between two saves; a test that outlives a save | `Settings` |
| Store and migrations (`store/`, `repo.py`) | the schema version and the tables | create, migrate, add columns | two processes, a death between two statements | `Store` |
| Parsers, prompts, validators, profile, sign-in, command line, Swift helpers | text, forms, files | | data, see section 8 | |

A call's life crosses them in this order. The calendar or the seller starts a capture, whose
sound is segmented, transcribed and coached while it goes on; live capture or intake writes
the call and publishes CALL_ENDED on the bus; the worker claims it and runs the pipeline, which
ends in `awaiting_review` with a draft; the seller's click, or the auto-send executor, sends it
through email delivery, which closes the call. Closing, re-runs and retries go back to the bus;
follow-ups and replies go on from the loops. The modules meet at these points: `EventBus` takes
handlers as black boxes that finish, raise, are refused or die; `PostCall` takes jobs as rows
that wait, run, wait again or are parked, a send as an attempt that Gmail takes, refuses or does
not answer, and steps as steps that write or raise; `CallAnalysis` says what those steps write
and `Agents` what asking an agent is; `LiveCapture` and `Intake` end where CALL_ENDED is queued;
`Vad` hands segments to `LiveSpeech`, which stores and publishes the lines `LiveCoach` takes;
`Outreach` decides which emails there are, `EmailSend` how one goes out; `Commitments` has the
pipeline's reconcile step as an agent's claims.

### What makes each correct

- *Email delivery*: the buyer gets at most one copy, of the content that was approved;
  what the page offers to send has not gone out; "sent" is true.
- *Outreach*: one nudge per loop waits at a time, every follow-up is counted once, the limit
  and the cap hold, and what goes out without a click was held and is what was checked.
- *Bus*: an event is never stranded, never left "running" by nobody, never done
  without having been handled, and each settles although handlers crash the process.
- *Pipeline*: the seller's action wins over the step it interrupts; at most one
  version of the follow-up is there to send, and none once one went out or the call is
  closed; a call is moved on or shows why it is not.
- *Analysis steps*: claims cite the transcript there is; no turn is shown better than its
  report says; what was found is under the call's deal and is what the newest answer says.
- *Live capture*: one capture per manager; audio on disk survives every crash and
  failed conversion; the worker hears of a call when, and only when, its audio is final.
- *Live transcription*: whoever talks long enough is in a segment, no sample is in two, times
  are those of the archive; stored lines come in order and everything is accounted for; ending
  a call waits for nothing that does not come.
- *Live coach*: what is on the screen keeps the budget the configuration states; every candidate
  is waiting, recorded, or its write failed; no published line is missed; no nudge goes up for
  what has been asked meanwhile.
- *Intake, folder*: a meeting the recorder finished in time is imported, or its failure is on
  record, before the window passes it; a held call waits for the answer and is handed
  on once; the payload of a call, and a file the seller saved, is kept.
- *Gate and bridge*: what the seller said of a loop stands until he says otherwise; the
  bridge drops only its own mirrors, and closes a commitment of his only after his own
  "done"; the two applications agree in the end.
- *Intelligence*: the seller's word outlives every run; a disagreement is reconciled or waiting;
  a switch of the methodology reaches the deal; no answer is more optimistic than its quotes.
- *Learning, outcomes*: his verdicts hold through merges and recomputes, each call counts once,
  he is asked again only on new evidence; what happened stays true, and a switch is no progress.
- *Calendar*: an armed meeting is recorded once, or says why not, and its recording ends; slots
  offered are free.
- *Agents, settings, store*: the rows of a run tell what it did; a save keeps hand edits and
  what it accepts can be used; opening an older store loses nothing.

The hazards behind these, each with its line, are listed in `PROJECT.json`.

## 2. How the models are made

**Steps.** The grain is SQLite's: a `BEGIN IMMEDIATE` block, a single statement, or the
stretch from a handler's first write to its commit is one action. A SELECT that decides
a later write is an action of its own, and so is a call to Gmail, an agent or ffmpeg.
Conversely nothing the code does inside one such stretch is split or made optional.

**Crashes.** A crash drops the threads' locals (`pc`, `hand`, `run`, `job`, `session`)
and keeps the tables and files. Whatever the code does at the next start is an action
(`Connect`, `Boot`).

**Taint.** Some handlers read a row and write it by id later, without looking again. The
code accepts that such a write may land on a row that moved on in between, and several
properties are false in those behaviours. Rather than leave the race out, the models let
it happen and record it in a history variable: `taint` in most modules (in `EmailSend`,
`Commitments`, `Outreach`, `Calendar` and `LiveCoach` a set naming the races), `stray` in
`LiveCapture` (a capture no manager holds), `crossed` in `CallAnalysis` (a step wrote for a deal
the call had left), `late` in `DealStrategy`, `raced` in `Agents` and `DealOutcome`, `clash` in
`Folder`.
A property that starts with `Clean =>` or `~stray =>` speaks of all behaviours in which
none of these races has happened *yet*; crashes, lost answers, retries, failures and all
other interleavings are in. Where a race is worth showing for itself, section 6 names the
property without the condition. Properties stated without the condition hold in spite
of the races.

**History variables** (marked `history` where they are declared) are there for the properties;
no guard of the modelled code reads one.

**Bounds** are constants named in each module and marked `bound` there (`MaxFaults`,
`MaxJobs`, ...), or finite supplies (`Requests`). The proofs do not depend on their values.

**Hosting.** Some components share no state with any other model: the folder and the store have
nothing to do with a poll of a recorder's API, and a row of `agent_runs` nothing with a turn. Such
a model is a module of its own, and an MC module instantiates it beside the one it belongs to: its
behaviours have a `part`, chosen at the start, and only that part's actions happen; the variables
of the others keep their initial value, or hold `Off`. An invariant of a part is stated as
`part = "x" => ...`. What is checked is what separate runs would check. `MCCalendar` has
`Calendar` beside a `LiveCapture` that stays as it starts, for the proofs' sake. The assumptions of a
hosted module are a definition (`FolderConstants`), which the MC module ASSUMEs.

**Slips.** An operator `FooSlip` defined just above `Foo` is the mistake somebody could
make at that place of the code; nothing uses it. Section 7 says which property notices
when `Foo` is replaced by it.

## 3. Modules

Each component has a module with the specification, an `MC...` module that adds the
symmetry sets for TLC, and a `...Proofs` module with the theorems.

### EmailSend and OneDelivery: the one path to Gmail, and what it promises

| model | code |
|---|---|
| `row` | the `emails` row; `<<mode, approved>>` stands for `rfc822_message_id`, a hash of the two |
| `gmail` | Gmail's side of every call: planned, in flight, accepted, lost; `mailed` when the seller sends a Gmail draft by hand |
| `pc`, `click`, `seen`, `mine` | a handler thread, what it was asked, the row as it read it, its Gmail call |
| `Approve` | the `BEGIN IMMEDIATE` block of `approve_and_send`: status 'sending', mode, approved content |
| `FoundSending`, `LookFound`, `SaveNotFound`, `SendNotFound`, `Adopt`, `Release` | the branch for a row found in 'sending': ask Gmail for the Message-ID, adopt what is there, release a stuck save, refuse a stuck send |
| `Issue`, `DefinitelyNotSent`, `DeliveryUnknown`, `MarkSent` | the Gmail call and the three ways it ends |
| `EditCheck/Write`, `SkipCheck/Write`, `NotSentCheck/Write`, `MarkSentCheck/Write` | the handlers that read the status and write by id |
| `Accept`, `Lose`, `SendByHand`, `Crash` | Gmail, the seller in Gmail, the process |

The content is abstracted to `Bodies`; `policy.evaluate`'s verdict is left out because a
blocked email changes nothing. `NeverTwice` (`NoDuplicate`: at most one copy reaches the buyer;
`RetryIsSafe`: what is offered for sending has not gone and is not on its way) and
`SentAsApproved` (what went out is what was approved, and 'sent' is said of nothing else:
`SentIsTrue`, which needs no `Clean`, and `ApprovedBytes`) relate the row to what Gmail did with calls whose answers were lost.

`OneDelivery` is the abstract specification: one email as the seller and the buyer see it. The page says
that it is open, unknown, in Drafts, sent or rejected; approving it is the only way from open to unknown, and
fixes the content; of copies the buyer gets one, of that content, while nothing else is said; the page
goes back to "open" only if he has none, and says "sent" only if he has. `DeliversAsPromised` is that
`EmailSend` implements it, with the row's status read as the page shows it (`Says`: 'drafted' and
'failed' offer the email), the calls planned so far as what was approved (`Granted`) and the calls that
delivered as the copies (`Reached`). Threads, calls in flight, lost answers, recoveries and crashes are
hidden: most steps are stutters, and each of the others must be one step of `OneDelivery`. It holds until the first race
that `taint` names, of the step after which there is none (`Clean'`).

### Outreach: which emails there are, and which go out by themselves

| model | code |
|---|---|
| `loops`, `closing`, `nudges` | the loops with their next check and follow-up count; open proposals to close one; the emails of kind 'nudge' |
| `decided`, `logged`, `autoSent` | decisions of the day; rows of `autosend_log`, and the sends they should count |
| `written`, `stored`, `fresh`, `mail` | replies in the world, in the table, queued for analysis; EMAIL_SENT events not handled |
| `eval`, `auto` | what an evaluator, and the auto-send pass, has read |
| `EvaluateDue`, `EvaluateOne`, `Evaluate`, `AgentDecides`, `DraftNudge`, `DraftFails` | `evaluate_due` and `evaluate_loop`: rules, then an agent, then a write from what was read |
| `PassStarts`, `Refuse`, `AutoSend`, `LogSent` | `autosend.run_once`: the drafts, `check`, the send, the log |
| `CountSent`, `Poll`, `Analyze` | `on_email_sent`, the reply poll, `on_reply` |
| `Answer`, `Snooze`, `StillOpen`, `Close`, `RejectClosing`, `SellerSends`, `Settle`, `Edit`, `Discard` | the buttons of the follow-up page |
| `BuyerWrites`, `Ripen`, `Dies`, `NextDay` | the world; time that makes a draft qualify; the server |

`KeepsLimits` is four: `OnePending` (one nudge of a loop waits at a time), `CountedOnce`,
`LimitHolds`, `CapHolds`. `AutoSendsHeld`: what goes out without a click has sat for its hold and is
low risk. Each names the races it excuses. That an email goes out at most once is `EmailSend`'s.

### EventBus and WorkLedger: the queue, its consumers, and what it promises

| model | code |
|---|---|
| `status`, `attempts` | `wf_events`; a row's id is its number, so "oldest first" is the smallest |
| `cooling` | rows whose `not_before` lies ahead |
| `Connect` | the worker's start: `recover_running`, once per start (worker.py) |
| `StartDrain` | `salescoach work`, which does not recover |
| `SeeNoCall`, `live` | the wait while a capture runs |
| `Claim`, `NothingToDo` | `claim_next` |
| `Succeed`, `Raise`, `Complete`, `FailRead`, `FailWrite`, `Defer` | the handler's outcome and its record; `bus.fail` is a SELECT and an UPDATE |
| `Retry` | the Retry button, on any status in `RetryFrom` (a page may be out of date) |
| `Die`, `IdleError` | a killed process; a database error in the loop |

`NothingStranded` is three: `PendingClaimable`, `NothingLeftRunning`, `ParkedOnlyWhenSpent`; under
fairness `Settles`.

`WorkLedger` is the abstract specification: what the bus owes whoever gives it work. Accepted work is owed
until it was done from beginning to end or every attempt is spent, and then it is parked where the seller
sees it; an attempt is spent when it begins, and given back only on a refusal; Retry takes up what is
parked; a run of a call's pipeline settles what that call gave up on before. There is no worker in it, no
row that says 'running', no crash, backoff or live call. `KeepsLedger` is that `EventBus` implements it: 'pending' and
'running' are both "owed" (`Says`), so claims, deaths and most recoveries must not be seen but for
the attempt, and a row may leave "owed" only as the ledger allows; together with `NothingStranded`, since a row
that nobody can claim is owed for ever and no step of the ledger is wrong.

`DoneIsTrue` is checked with a second consumer and Retry from a stale page (in
`CallAnalysis.cfg`, `part` "bus").

### PostCall: pipeline, drafts and buttons

| model | code |
|---|---|
| `state`, `error` | `calls.wf_state`, `wf_error` |
| `emails`, `skipped` | the status of each version of the follow-up; the artifact that says none was written |
| `jobs` | CALL_ENDED and the PROCESS_CALL of each click, with the step it starts from |
| `run` | `run_pipeline` on the worker: step, the state it started from, the state it wrote last |
| `TakeJob`, `WritingStep`, `AudioStep`, `QuietStep`, `Mark` | the loop of `run_pipeline`; transcription and diarization write the state themselves; a step without news writes nothing |
| `SkipEmail`, `AskForDraft`, `Discard`, `Keep`, `DiscardClosed`, `ReadPrevious`, `InsertDraft` | `step_email`: what it reads before the agent, what it reads again after, the insert |
| `ReadFinal`, `Settle` | the end of the run |
| `Fail`, `Crash` | a step that raises; a process that dies |
| `SendLook`, `Approve`, `GmailTook`, `GmailRefused`, `NoAnswer`, `NotSent`, `MarkSent` | the email buttons and the auto-send executor, with `email_done` |
| `Skip`, `Close`, `CloseLook`, `CloseWrite`, `EditLook`, `EditWrite`, `CompleteLook`, `CompleteWrite`, `Retry`, `Rerun` | the other buttons of the call page |

`OneFollowUp` (`OneSendable`, `ClosedIsClosed`, `NoSecondFollowUp`) ties versions of a draft to each
other and to the call; `SellerWins` ties the run's late writes to a click made during it;
`NeverForgotten` ties the state to jobs and errors; `ProcessedForGood` is progress
(`Processed`) and that a re-run drags no finished call back (`NotDraggedBack`).

### CallAnalysis: what the steps write, and what they reuse

| model | code |
|---|---|
| `text`, `turns`, `speakers` | which transcript the turns hold; each turn's grade, cluster and person; the clusters' people |
| `art` | the newest artifact of each kind: the prompt it answers (its hash) and the answer |
| `claims`, `loops`, `deal` | claims and assessments; the call's own loops; `calls.deal_id` |
| `run` | the run of the pipeline: its step, what it loaded, whether the step was answered from the cache |
| `Begin`, `Load`, `Advance`, `Settle`, `Stops`, `Dropped` | `run_pipeline`, `_agent_step`: where it starts, what a step loads, the commit, the look at the call |
| `Transcribe`, `Diarize` | turns written anew; clusters and kept names |
| `Quality`, `Summary`, `Analysis`, `ActionsFound`, `Reconcile` | the steps, each with a new or a cached answer |
| `Prompt`, `Cached` | what each prompt is made of, and when an artifact answers it |
| `MapSpeaker`, `SetDeal`, `Decide`, `Close` | the seller's buttons between steps |

`EvidenceStands`: once the quality check was done on the turns there are, none is shown better than
the report on it says (`GradesApply`), and the claims are the newest analysis's and cite the
transcript there is (`EvidenceIsHere`). `FindingsStand`: claims and loops are under the call's deal
unless it was moved while a step ran (`FindingsFollow`), and every proposed loop is one of the newest
actions' (`ProposalsAreCurrent`). Answers are model values: what an agent says is not modelled, what
it was asked is.

### LiveCapture: recording, and the archive

| model | code |
|---|---|
| `wf`, `ended` | `calls.wf_state` (all pipeline states are one) and the call's CALL_ENDED |
| `pcm`, `flac` | the flushed length of each channel's files |
| `written`, `open` | what the session has put on a channel; the channels whose file its archive holds open |
| `capt` | which process's capture helper is recording |
| `session`, `at`, `job`, `orphans` | a process's `LiveManager`: its lock is held from start to end of an operation, so a process is at one place |
| `Start`, `StartFails`, `StartCapture`, `Started`, `StartedLost` | `start_call` |
| `Record` | frames flushed to disk while the helper runs |
| `BeginEnd`, `Stop`, `StopCapture`, `ReadCall` | `stop_call` up to the archive |
| `Measure`, `Convert`, `Raised`, `Unlink`, `FinishArchive` | `finalize`: pad to the longer channel, convert both, then remove both PCM files |
| `WriteEnd` | the state, `wf_error` and CALL_ENDED in one transaction |
| `Boot`, `Crash`, `Trouble` | `recover_orphans` at a start; a crash; an operation that raises |
| `Process` | the pipeline takes the call (PostCall) |

`AudioIsWhole` is three: `NothingLostUnlessStray`, `EndedIsFinal`, `CapturedIsQueued`.

### Vad and LiveSpeech: sound to stored lines

| model | code |
|---|---|
| `vad`, `out` | `EnergyVAD`'s position, blocks, ring and segment; the segments returned |
| `Feed`, `Process`, `Close`, `Split`, `Gap`, `Flush` | `feed` block by block, `_process`, `_close`, `_split` at the quietest block, `_gap` for lost samples |
| `queue`, `worker`, `busy`, `disabled`, `abort`, `stats` | `LiveTranscriber` |
| `reader`, `stop`, `nextIdx`, `turns`, `shown` | `CaptureSession`'s reader thread and `stop`; numbering, turns stored, turns published |
| `Speaks`, `Submit`, `Gets`, `Transcribes`, `GivesUp` | a segment is put or dropped, taken, transcribed, stored and published |
| `Kills`, `JoinsReader`, `JoinsMonitor`, `PutsStop`, `JoinsWorker`, `GivesUpJoin` | the end of a call, step by step |
| `Tick`, `CheckSilence`, `Polls` | levels and the monitor |

Whether a block is speech, and how loud, is chosen: the noise floor is numeric. Speech is louder than what
is not speech, so a split finds a pause if there is one. In the code the floor rises by at most a few dB within
a segment, and a block just under it may be louder than speech before the rise; that is left out. `VadConstants`
says what the segments rest on, with the numbers of the defaults and of `config/asr.yaml`: the ring and an onset
fit in a segment (0.26 s of 12 s), and a stretch just long enough to be owed a segment is less than half of what a split looks
through (2 x 0.28 s of 3 s), so that of two halves one is speech enough. `SegmentsTrue`: segments follow each other without a sample in two (`TimesAreTrue`), a
stretch of speech that lasts long enough is in one (`Heard`), none is too long. `WordsTrue`: every
segment is accounted for, stored lines come in order under the number they were shown with, a silence
is reported once, and stopping waits for nothing that does not come.

### LiveCoach and NudgeBudget: the coach, and what it promised

| model | code |
|---|---|
| `call`, `saved`, `sent` | the live call; lines the transcriber has stored, has published |
| `engine`, `attached`, `inbox`, `heard`, `slot` | the engine's life, its bounded queue, `ConversationState` |
| `ranker` | the candidates' pool, what was shown, what is up |
| `screen`, `stored`, `down` | nudges published; their rows; rows with `dismissed = 1` |
| `slow` | the slow pass that runs and what it read |
| `Subscribe`, `Attach`, `Finish` | the plugin's supervisor; `attach` subscribes and then reads the stored turns |
| `TakeLine`, `TakeSlow`, `TakeDismiss`, `TakeEnded`, `Tick` | `handle` and `tick`, each with `_rank` and its writes, which may fail |
| `SlowAnswers`, `ClickDismiss`, `SaveLine`, `PublishLine`, `CallMoves`, `Pass` | the other threads, and call time |

`NudgeBudget` is the abstract specification: a screen that shows a nudge only after the warm-up, when
none is up, the gap of its kind has passed and fewer than the cap were shown. `KeepsBudget` is
that `LiveCoach` implements it, with `trigger` and `at` of each nudge on the screen for its `screen` and
the positions whose row says dismissed for its `dismissed`. The ranker keeps the budget over a list of
its own that writes, failures and dismissals reach late: that is what the refinement is about.
`EveryCandidateKept`: a candidate waits, has its row, or its write failed. `LinesHeeded`: no published line
is missed by a running engine (`NoLineMissed`), and no nudge goes up about what was asked
meanwhile (`NeverMoot`). The local model's candidates, off by default, and the replay are left out.

### Intake: meetings somebody else recorded

| model | code |
|---|---|
| `clock`, `started`, `listed` | time in ticks; when a meeting took place, and when the recorder had its transcript |
| `lastOk` | the state key `sources:<kind>:last_ok` |
| `call`, `raw`, `known` | the call of each `source_ref` with its CALL_ENDED; payload files; remembered speaker labels |
| `StartPoll`, `List`, `FinishPoll` | `poll` and `poll_one`: the window, the first `MAX_PER_POLL` of the list, moving `last_ok` |
| `Turn`, `PassOver`, `Look`, `SaveRaw`, `Create`, `Fails` | `import_normalized`: the look for an existing call, the file, the transaction, the unlinking when it raises |
| `AnswerLook`, `AnswerWrite`, `AnswerAgain` | `resolve_speaker`, and an upload that carries the answer |
| `Handle` | the pipeline takes the call |
| `Tick`, `Meet`, `Transcribed`, `Dies` | the world |

`NothingMissed` is about windows; `AnswersHold` is three: `RawKept`, `AskedWaits`, `ReadyIsQueued`.

### Folder: files instead of an API

`drop`, `work`, `processed`, `moved` are the files under their name, under `.processing`, in
`processed/`, and there under a name with a time; `skipped` the state key; `at`, `job` what each poll
does. `Recover`, `List`, `Take`, `Read`, `Import`, `AfterImport`, `AfterFailure`, `Finish` are
the adapter's steps, a rename or a commit each; `Save`, `Ages`, `Dies` the world. `FolderKept`: a file
the seller saved stays in the folder, or is in `processed/` and a call (`Kept`, where two polls or two
files of a name did not meet), and only what can never be read, or whose poll died, is set aside.

### Commitments: what a call leaves open, here and in Jarvis

| model | code |
|---|---|
| `loop` | the `loops` row: status, review state, link and linked commitment; the rank of the status's provenance; its open conflicts (`offers`) |
| `world` | Jarvis's commitments: status, and whose note the last closing bears |
| `at`, `job` | what each request, agent and sync is doing, and the rows it read |
| `Propose`, `GateWrite` | `gate.propose`: the look, then the writes its caller commits with it |
| `Add`, `Confirm`, `Reject`, `EditText`, `EditStatus`, `Accept`, `Dismiss` | the buttons of a loop and of a conflict |
| `Import` | `bootstrap_import` |
| `Create`, `ClaimStatus`, `Park`, `RerunLook`, `RerunDrop` | `step_reconcile`, and what a reply or a follow-up proposes |
| `StartSync`, `Land`, `Link` | `sync` and `mirror_loop`: a program run, then a commit |
| `CloseRows`, `CloseStates`, `CloseOne` | `close_mirrors`: rows, states, then one row after the other |
| `BackRows`, `BackStates`, `BackOne`, `ReadBack`, `EndSync` | `read_back` |
| `SyncFails` | the program, the database or the process fails; complete pairs stay |
| `Happens` | the owner closes or drops a commitment in Jarvis, or its sweep drops one |

`said` is what the seller last said of a loop's status (a rejection says nothing that the
code records), `heard` the closings in Jarvis that were already taken for his word. Of the
gated fields only the status is modelled: it alone is shared with Jarvis. "superseded" is
treated as "cancelled" by every reader here and so is one value with it; every loop is of
a type that is mirrored; the two one-way duties of a sync, `keep_alive` and `claim_calls`,
are left out. Closing a commitment that is no longer open is taken to do nothing.

`HisWordStands` is two: `SellersWord` and `OnlyMirrorsDropped`.

### DealStrategy and Methodology: reading a deal

| model | code |
|---|---|
| `active`, `switching` | the methodology in use; a switch between its two writes |
| `inputs`, `assessed`, `verdicts` | what a prompt is made of; the analyst's and the strategist's assessments; reconciliations |
| `risk`, `element`, `health` | gated rows with their confidence; the score and its cap |
| `strategy`, `failed`, `due` | the newest artifact, whether the last run failed, queued runs |
| `Analyse`, `Starts`, `Applies`, `Fails`, `Reconciles` | the analyst's step, `run_for_call`, `apply`, the reconciler |
| `Press`, `SwitchWrites`, `SwitchQueues`, `SellerSets`, `Dies` | the deal page, `switch`, the command line |

`SellersWord`: neither a later run, nor the sweep that clears risks, nor another methodology's run
overwrites what he set. `NothingMissed`: a disagreement is reconciled or will be, and a switch is
followed by a reading with the new methodology or a failure that is shown.

`Methodology` has no state: it is `validate_definition`, `build`, the two files' library with
what its forms refuse, and `validate` with the evidence check and the caps, as operators.
`ReadingHolds` evaluates them over every definition of up to two elements that is valid, every content of
two files, and every answer about the elements: the gap order names each element once, the
methodology in use exists and no form takes it away, and an element that its quotes do not bear out
is not "known" and, if critical, keeps the score under its cap.

### Learning, Outcomes, DealOutcome: what is learned

`Learning` has observations per tag and call, the patterns' rows with their user state and merge
(`row`), the older mirror (`legacy`), proposals, nudges shown and a trigger's weight. `Analyse`, `Recompute`,
`SetUserState`, `SetPromptUse`, `MergeInto`, `Unmerge`, `Decide`, `Shown`, `SetsWeight` are the functions
of the same names; each click and each recompute is one step (`RecomputeFrom`), because every caller
ends in it. `HisWordOnLearned`: his verdict holds through merges, deletions and returns (`YouOutrankIt`), each
observation counts for one pattern along every chain (`EachCountsOnce`), and a decided proposal returns
only on twice the evidence (`AskedOnNewEvidence`).

`Outcomes` derives verdicts of an email (replied, met), a promise (on time) and a call (advanced) from
facts that arrive late: `Fetches` comes after `BuyerReplies`, `Recompute` when it comes.
`VerdictsHold`: a 1 stays, a 0 becomes 1 only for a late-fetched answer, and a switch of the
methodology is no progress. `DealOutcome` has two tabs that save a deal's stage: `Reads`, then `Writes`.
`HistoryTells`: where no save went by a row another had changed, the history is a chain that ends
at the deal, the digest counts each closing once, and a reason is there exactly while it is lost.

### Calendar: meetings, the recorder, and free slots

| model | code |
|---|---|
| `agenda`, `rows` | the calendar outside; the `calendar_meetings` rows |
| `sync`, `SyncReads`, `SyncWrites`, `SyncFails` | `sync_events`: a window read from outside, then an upsert and a delete |
| `start`, `Begins`, `StartCall`, `LinkCall`, `Tick`, `DueNow`, `ClickNow`, `Over` | `recorder_tick` and `start_recording`: checks, a start, the link, in three writes |
| `live`, `calls`, `OtherCall`, `StopCall` | `LiveManager`, as far as the recorder sees it |
| `SetRecord`, `Reschedule`, `Pass`, `Dies` | arming; the world |
| `email`, `fill`, `FillReads`, `FillWrites`, `FillFails`, `EditDraft`, `SendDraft` | `fill_slots` around a slow read |
| `ComputeSlots`, `Free`, `Nearest`, `Overlaps`; `Open`, `Turn`, `Slot` | `compute_slots`; its loop over the preferred days, as the rank of a day among those with a free time |

`ArmedIsRecorded`: a meeting he armed is armed, recorded, or says why not (`ArmedIsKept`), and once
(`RecordedOnce`). `StopsItself`: its recording ends. `SlotsAreFree`: what a draft offers is within
hours, keeps the buffer, one a day, and it gives up only with fewer than two such days. The scheduler's other
duties are the threads of `Outreach`; the prep brief of a meeting is left out.

### Agents, Settings: whom the steps ask

`Agents`: runs that share a provider. `StartRun`, `Request`, then `Completes`, `Invalid`, `Down`, `Limited`, `Breaks`
(a row each), and for refused requests `Refusal` or `Rejection`, with what is remembered of the endpoint
(`learned`) by all runs. `AttemptsTell` is four: the rows tell the run (`RowsTell`), a run told to wait asks
nobody (`QuotaIsFinal`), only what is refused is remembered (`LearnedIsRefused`), and a refusal costs a
run nothing except where two learn at once (`RefusalsAreMet`).

`Settings`: the file, its unreadable versions set aside, keys and their hosts, the tests under way. `model_use`,
`model_list`, `model_test`, `test_connection`, `dismiss_card` are the handlers; `HandEdits` and `Elsewhere` the
seller's editor and shell. `SettingsHold`: a save keeps what he wrote by hand or sets it aside
(`HandEditsKept`), and what a form accepts can be used for either tier (`SavedIsUsable`).

### Store: opening what is there

`db` is what is committed, `work` the copy of the open transaction and `writer` its owner. An opener `Looks`,
`Creates`, `Reads` the version, runs the scripts statement by statement (`Scripts`), the rebuilds in a transaction
each (`Begins`, `Drops`, `Renames`, `Commits`), and then the plugins' columns (`Compares`, `Adds`); it may die anywhere.
`StoreKept`: no row is lost on the way from any age of a file (`NothingLost`), and a handle that was
returned is on today's tables (`OpenIsCurrent`).

## 4. Runs

Distinct states and times are of two workers on a laptop-size machine. All but the first listed
part of a run are hosted (section 2).

| run | question | instance | states |
|---|---|---|---|
| `EmailSend` | do two handlers with every button, late and lost answers and crashes keep delivery right? | 2 threads, 2 Gmail calls, 2 contents | 1.7 M, 150 s |
| | `Outreach`: which emails go out? | 1 loop, 2 nudges, limit and cap 1, 3 days, 1 reply, 1 click | |
| `EmailStuckSave` | "exactly once", with a stuck save (violated) | 2 threads, 3 calls, Send and Save | |
| `BusWorker` | does the bus keep its ledger, and does every event settle, when handlers fail, hang up the process or are refused? | 3 events, 2 of one call, 2 attempts, one retry, refusal, live call, error | 296 k |
| `PostCall` | do runs and clicks stay consistent? | 2 handlers with 11 buttons, 2 jobs, 2 drafts, 1 fault | 3.7 M |
| `PostCallLife` | does a recorded call get through, and stay through? | 1 handler, 2 jobs, 2 drafts, 2 faults, audio | 360 k |
| `LiveCapture` | is audio kept, and handed on when final? | 2 calls, lengths to 2, 2 faults | 1.1 M |
| `Intake` | is a meeting imported, kept, held and handed on? | 1 unlabelled meeting, poller and 2 requests, 3 ticks | 3.1 M |
| | `Folder`: is a file kept? | 3 files of 1 name, one unreadable, 2 polls | |
| | `Store`: does an older store open whole? | every age, 2 openers, 1 death | |
| `Commitments` | does the seller's word stand, and do the two applications agree? | 1 loop, 1 commitment, a request, an agent, a sync; 2 clicks, 2 claims, 1 event in Jarvis, 1 failure | 1.4 M |
| `Calendar` | is an armed meeting recorded, once, and does it stop? are slots free? | 1 meeting, 2 syncers, 3 ticks, 2 calls; 64 calendars of 3 days | 564 k |
| `LiveCoach` | does the coach keep its budget and miss nothing? | 2 lines, 3 candidates, 2 triggers, a queue of 3; a pass, a fault or a click | 655 k, 100 s |
| | `Vad`: are segments true? | blocks of 2, up to 17 samples, gaps | |
| | `LiveSpeech`: does a call end in order? | 1 channel, 4 segments, a queue of 2, 2 troubles | |
| `DealStrategy` | does the seller's word outlive runs and switches? | 2 runs, 2 analyses, 1 edit, 1 switch or death, 2 methodologies | 1.6 M |
| | `Methodology`, `Learning`, `Outcomes`, `DealOutcome` | definitions of 1 to 2 elements; 3 tags, 2 calls; 2 emails or 2 calls, 5 ticks; 2 tabs, 3 saves | |
| `CallAnalysis` | is what was found about the turns and the deal there are? | 2 turns, 2 transcripts, 2 runs, 2 clicks, 1 stop | 3.1 M |
| | `Agents`, `Settings`, `EventBus` with a drainer and stale Retry | 2 runs; 3 providers, 2 edits; 2 events | |

**Why the bounds are enough to meet the cases.** The races in the code are between two
parties (a click and a click, a click and the worker, a poll and an upload), so two
handlers show them; a third only repeats one. Two Gmail calls are an attempt and its
retry; the third in `EmailStuckSave` is the stuck save itself. Two attempts per event
distinguish the first, a middle and the last failure of `bus.fail` (the code's
`MAX_ATTEMPTS` is 3; the theorems hold for any). Three events are one at the head that
crashes the process, one of the same call and one behind. Two jobs and two drafts are a
run and a re-run, an old version and a new one. Audio of length 2 on two channels gives
unequal channels and a file that grows while it is converted. Three ticks with an overlap
of 1 and a lookback of 2 let a meeting be on time, late, before the lookback and outside
the window. One loop and one commitment suffice for `Commitments`, because rows are
independent but for a commitment that two loops adopt (section 6). In `Outreach` three days are the
nudge's gap, the day it is due and the one after, and a cap and a limit of 1 are reached by the second
nudge. 17 samples in blocks of 2 with segments of 8 to 12 give a segment that is split, a tail, a gap
inside and outside one, and a short one that is flushed; that speech is long from 5 samples on, and that a split looks through 12, is
as tight as `VadConstants` allows. `LiveCoach` has one trouble at a time, two
candidates that compete and one that finds the cap; `BudgetIsKept` has no such bounds. Two runs of
`CallAnalysis` are a run and a re-run, the second of a step in the middle or of all. Two tags new to
the taxonomy and one of it give a chain of two merges. Mutants (section 7) show that each property
can fail at these bounds.

**State constraints.** `OneRace` (`Outreach`, `Calendar`): at most one *kind* of race in a behaviour; each
property excuses some and must hold with the others. `OneTrouble` (`LiveCoach`, `DealStrategy`): a slow pass,
a click or a fault; a death or a switch. `Apart` (`Calendar`): recording and drafting share no state.
`Plain`, `OneFamily`, `OneSubject` (`DealStrategy`): the score, the other family of patterns, the other
kind of verdict, which share nothing with what a behaviour is about. The one liveness property
checked under constraints is `StopsItself`: of behaviours with two kinds of race it says nothing.

**Deadlock** is checked in `BusWorker` and `Commitments`, whose processes never stop. The other
systems stop when they are finished or the bounds are used up (an email that was sent; a call
that is done with no click left; every meeting over), and their configurations say so.

**Fairness.** Liveness is stated only where the code's scheduling gives it.

- `EventBus!Fairness` (in `MCCallAnalysis`'s `BusSpec`): weak fairness of the worker's step (a thread in a loop; the server
  is started again after it died), of time (`Cool`) and of the end of a live call. None
  of handlers: they may raise or kill the process each time. None of clicks or drains.
  The events and the bounds are finite, so `Settles` says that nothing *the worker does*
  starves an event; with an endless stream of older events it would not hold.
- `PostCall!FairSpec`: weak fairness of the worker's step. Agents answer, because the
  providers time out; failures and crashes are at most `MaxFaults`.
- `LiveCapture!FairSpec`: weak fairness of each process's step, and strong fairness of
  pressing Stop on a call whose page says it is live: the seller ends his calls. Strong,
  because the button is out of reach whenever the manager is busy or the server down.
- `Commitments!FairSpec`: weak fairness of a sync's step, also where it goes through the
  gate. The server's thread syncs every six hours, catches every failure, and starts with
  the server. Failures are at most `MaxFaults`; `Agree` says that the two applications
  agree once clicks, claims and failures are over, with the seller and agents free never
  to act.
- `Calendar!Fairness`: weak fairness of the recorder's tick (a thread that runs every few seconds),
  of a started call's next step (it is linked or fails; nothing waits there) and of time. None of syncs,
  clicks or the calendar.

`StopsItself` is about a recording the duty can see: a call linked to its meeting.

## 5. Proofs

TLAPS checks these for all values of the constants. Each rests on an inductive invariant
with `Init => Inv` and `Inv /\ [Next]_vars => Inv'`, one step per action. The theorems on a hosted module
are over the specification of its host (`AllSpec`, `BothSpec`), in the proof module that extends the host;
those on `Calendar` are over its own, which `MCCalendar` instantiates beside a `LiveCapture` at rest.

| theorem | says | the invariant beyond types |
|---|---|---|
| `EmailSendProofs!TypeCorrect` | `[]TypeOK` | |
| `EmailSendProofs!Invariance` | `[]IInv` | `OwnsCall`: between planning a call and recording its outcome, one thread owns it. `RowNamesCall`: a row in 'sending' names the call that put it there, also as read. `SawIt`: what a handler saw before the place it is at. `NotSentStays`: "not sent" stays true. `LiveCalls`: by the row's status, which calls can still reach the buyer |
| `EmailSendProofs!NoDuplicateSend`, `SafeToRetry`, `NeverSentTwice` | `[]NoDuplicate`, `[]RetryIsSafe`, both: `[]NeverTwice` | read off `LiveCalls` |
| `EmailSendProofs!DeliveryIsKept` | `DeliversAsPromised`: `EmailSend` implements `OneDelivery` | every step maps to one of `OneDelivery` or a stutter, given the invariants of the three theorems around it (`Promise`) |
| `EmailSendProofs!WhatIsSentIsApproved` | `[]SentAsApproved` | `SentIsKnown`: what a handler is about to record as sent was delivered; `NotSentIsOver`: the call of a "Not sent" about to be recorded is over; `ApprovedHolds`: between approval and the Gmail call the row is that call's and holds the approved content |
| `EmailSendProofs!LimitsAreKept`, `AutoSendsAreHeld` | `[]KeepsLimits`, `AutoSendsHeld` of `Outreach` | `Alone`: two evaluations at once are an overlap; `Looked`: what the rules saw of a loop is still so while a model thinks about it; `Within`: what waits for a loop counts towards its limit; `Announced`, `Logged`: what is announced went out, and is logged but for the send at hand; `BatchIsFit`: the drafts a pass took are as it read them. Each but for the races it names |
| `PostCallProofs!NoCallForgotten` | `[]NeverForgotten` | `SettlesOutside`, `ReviewsOutside`: a run about to end, and a "Complete review" under way, hold a state outside the chain of steps |
| `PostCallProofs!OneFollowUpPerCall`, `HisActionPrevails` | `[]OneFollowUp`, `[]SellerWins` | `CleanTidy`: unless a race was met, the versions have no gaps and at most one is alive, a closed call has nothing open (`DoneIsQuiet`), nor has a run of one before it makes a new draft (`StillQuiet`), what a run or a handler knows of what went out is so (`NoneWentOut`, `SentSeen`), and so is what a run knows of who closed the call (`LooksAtClose`) |
| `LiveCaptureProofs!OneCaptureAtATime` | `[]OneUnlessStray` | `Holds`: a capture belongs to the manager that holds its session, or is about to; `Owns`: what a manager is ending |
| `LiveCaptureProofs!AudioStaysWhole` | `[]AudioIsWhole`, if the server is the only recorder | `Whole`: where a call is in its life, and what the operation under way knows of it (`CallLedger`, `JobLedger`); what is recorded is in the PCM while there is one, and in a FLAC of the final length after (`Kept`); how far the conversion has come (`Progress`) |
| `LiveCaptureProofs!ArmedIsRecordedHolds` | `[]ArmedIsRecorded` of `Calendar` | `Unfound`: what a copy has not found is known to have vanished; `Turns`: a starter that links has its call; without a race `Uncrossed`: a call is told in its meeting's row or just being linked, a starter has its meeting for itself, in a row that is stored and, before its call begins, has none |
| `LiveCaptureProofs!SlotsAreFreeHolds` | `[]SlotsAreFree` of `Calendar` | `Offers`: what was offered last was computed from an answer; the rest are facts about operators: `FreeFits` (interval arithmetic is quarter by quarter), `Ranks` (taking turns gives as many days as there are, or as are wanted), `NearestIs` |
| `IntakeProofs!NothingIsMissed` | `[]NothingMissed`, if the meetings are finitely many and fit into one poll | `Listing`, `Going`: everything before a poll's window was settled by earlier polls, and what is in it is done, failed or still on the list; `Past`: nothing on record lies in the future |
| `IntakeProofs!AnswersAreHeld` | `[]AnswersHold` | `Unready`: no event goes with a call before it is ready; `HasPayload`: who is about to make a call has its payload on disk |
| `IntakeProofs!FilesAreKept` | `[]FolderKept` | `Met`: two files of one name have met; `Left`: a `.processing` file nobody is at is what a dead poll left; `Holds`: the file a poll is at is the one it read; `Caches`: what it has set aside may be |
| `IntakeProofs!StoreIsKept` | `[]StoreKept` | `Reached`: a version says what was done, and nobody is further; `Middle`: one opener at most is inside a script, its columns there while the version is not; `Created`: a store being created is of today; `Working`: what an open transaction has done, by its place |
| `CommitmentsProofs!SellersWordStands` | `[]SellersWord` | `Heeds`: what he said has his rank, and is not a proposed open loop that a re-run may drop; `Fit`: whoever is in the gate with less than his rank is an agent, whoever is about to drop a loop saw it proposed and open |
| `CommitmentsProofs!NothingOfHisDropped` | `[]OnlyMirrorsDropped` | `Sound`, and `Fit` for what a sync read: a mirror is never a commitment of Jarvis's own |
| `CommitmentsProofs!HisWordIsHeeded`, `TypeCorrect` | `[]HisWordStands`, `[]TypeOK` | `Fit`: what a sync goes through is linked |
| `CommitmentsProofs!OwnIsClosedOnHisWord` | `OwnClosedOnHisWord`, of steps | `Backed`: "done" with the seller's rank is what he said last |
| `LiveCoachProofs!StaysCautious` | `[]IInv` | `Pooled`: a candidate that waits was never shown and has its id to itself; `OnScreen`: a nudge on the screen has a row "shown", once; `Marked`: what is dismissed was shown; `Cautious`: the ranker has spent all that is on the screen, no earlier, and holds to be up what is up |
| `LiveCoachProofs!BudgetIsKept` | `KeepsBudget`: `LiveCoach` implements `NudgeBudget` | every step maps to one of `NudgeBudget` or a stutter, given `IInv` |
| `LiveCoachProofs!CandidatesAreKept`, `LinesAreHeeded` | `[]EveryCandidateKept`, `[]LinesHeeded` | `Told`: what waits has no word yet, and what has none waits or was lost; `Weighed`: a candidate is compared with no more than its evidence was taken from; at most one line is stored and not yet published |
| `LiveCoachProofs!WordsAreTrue` | `[]WordsTrue` of `LiveSpeech` | `Ordered`: the queue rises above all that was taken and shown, and no more was dealt with than taken; `Settled`: once a waited-for reader is done, Stop stays at the end of the queue until the worker takes it, and every number is accounted for |
| `LiveCoachProofs!SegmentsAreTrue` | `[]SegmentsTrue` of `Vad` | `DetectorOK`: ring and segment are runs of blocks up to where the detector is, the segment no longer than it may be and past what was returned; `Remembered`: a stretch that is owed is met by a segment returned, or the open one holds enough of it; one that goes on is held, or counted by the onset and all in the ring (`Counted`) |
| `DealStrategyProofs!TypeCorrect`, `HisWordStands` | `[]TypeOK`, `[]SellersWord` | `WordHeld`: what he set has his rank |
| `DealStrategyProofs!NothingIsMissed` | `[]NothingMissed` | `RunsOK`: what a run read; `Heeded`: a disagreement is settled or somebody is at it; `SideKept`: the strategist's side is there, or its step is to come; `SwitchFollows`: a run whose methodology is no longer in use is followed by another one |
| `DealStrategyProofs!OneIsInUse`, `NoFalseOptimism` | of any two methodology files, and of any methodology, deal and tuning (`Methodology`) | none: they are facts about operators |
| `DealStrategyProofs!ReadingIsSound` | `[]ReadingHolds` of `Methodology` | none: `Kept` returns the kept keys in their order (`KeptIs`), so the order of the gaps has every element once |
| `DealStrategyProofs!HistoryIsTold` | `[]HistoryTells` of `DealOutcome` | `StageOK`: what a save read and is to write |
| `DealStrategyProofs!HisWordOutranks` | `HisWordOnLearned` of `Learning` | `SaidIsKept`: a pattern's row carries his word, and one that is deleted had none; `WrongIsOut`: all of a tag is excluded or nothing; `OneTagEach`, `InOnePattern`: a call is under one tag, and if it is not called wrong it counts in one pattern, the tag's own unless that was merged; `DecidedOnAll`: a decision keeps at least what spoke for it |
| `DealStrategyProofs!VerdictsStay` | `VerdictsHold` of `Outcomes` | `RowsTell`: what a recompute would say now may follow what the last one said |
| `CallAnalysisProofs!EvidenceIsTrue`, `FindingsAreTrue` | `[]EvidenceStands`, `[]FindingsStand` | `RunOK`: a step that works has loaded the transcript there is, and an answer from the cache is about it; `ClaimsOK`: the claims are the newest analysis's and cite what its prompt read; `RowsOK`: the shape of the rows |
| `CallAnalysisProofs!NoStrandedEvent`, `NothingRunsUnowned` | `[]PendingClaimable`, `[]NothingLeftRunning` of `EventBus`, without a drainer | `RunningIsWorkers`: what runs is the worker's own event or its previous life's; `ReadIsEnough`: what `bus.fail` read bounds the attempts when it writes |
| `CallAnalysisProofs!ParkedIsSpent` | `[]ParkedOnlyWhenSpent`, without a drainer and with Retry on parked jobs only | in addition `ReadIsExact`, `StillRunning` |
| `CallAnalysisProofs!NothingIsStranded` | `[]NothingStranded`: the three together, under the assumptions of all | |
| `CallAnalysisProofs!LedgerIsKept` | `KeepsLedger`: `EventBus` implements `WorkLedger`, without a drainer and with Retry on parked jobs only | those of `NothingIsStranded` and `DoneWasDone`, and `OneRuns`: one row at most says 'running', the worker's own or its previous life's, so a recovery is one step of the ledger or none |
| `CallAnalysisProofs!DoneWasDone` | `[]DoneIsTrue`, with any drainers and any Retry | `CompletesHandled`: who is about to say 'done' has run the handler to the end |
| `CallAnalysisProofs!RunsTellWhatTheyDid` | `[]AttemptsTell` of `Agents` | `RowsOf`: by the place a run is at, what its rows say; `FormOf`: how the form it asks with came from what it and others learned |
| `CallAnalysisProofs!HandEditsSurvive` | `SettingsHold` of `Settings` | `SettingsOK`: what he wrote is in the file or beside it |

`NoDuplicate` is not inductive: that at most one copy *has been* delivered does not
exclude two calls *on their way*. `LiveCalls` speaks of calls that can still arrive, and
by status, because the status decides whether another may be made. `PendingClaimable`
fails as an invariant by itself at `bus.fail`, whose UPDATE uses attempts read before.
`NothingMissed` needs the polls' lists, since a window moves only when a poll ends.
`EvidenceStands` fails by itself between a step's load and its write, where `RunOK` says what it holds.
The budget is not the ranker's own list: a nudge spent and never shown, because its write failed,
and a dismissal the ranker has not heard of make the two differ, always so that the ranker allows less
than the budget does. `Cautious` is that direction. `AudioIsWhole` says only how a call must end up;
between the rename of one file and the next it is `Whole` that says which of the two copies is the good one.
The sum of `Accounted` bounds no counter by itself: after a reader that was not waited for it does not hold,
and it is `Ordered` that keeps the counts under the highest number handed out. `EachCountsOnce` follows chains of merges of any length, and is
proved without induction on them: that a tag has one end is all that `InOnePattern` needs.

Hypotheses. Without a drainer (`Drainers = {}`): section 6 (6) shows what one breaks. Retry on parked jobs only
(`RetryFrom = {"failed"}`): (13) shows what Retry on a running event does. The meetings of one poll: (4). One
recorder (`Recorders = {}`): (3). Where a property excuses races, the module's history variables (`taint`,
`races`, `stray`, `raced`, `lost`) name them, and the theorem says nothing of a behaviour after the race it excuses.

Assumptions: those on the constants in each module, evaluated by TLC in every run: `ConstantsOK`,
`PostCallConstants`, `LiveCaptureConstants`, `IntakeConstants`, `CommitmentsConstants`,
`CallAnalysisConstants`, `CoachConstants`, `StrategyConstants`, `MethodologyConstants`, and those of the hosted
modules, assumed by their hosts as `PartConstants` or `PartsConstants`. Those of
`Calendar` are `InstanceConstants`; of the scheduling rules it says that a time to avoid and
an event end after they begin (`parse_page` sees to the events) and that no day is listed twice.

Induction. No theorem of the library with an operator as parameter can be cited, but a set can take the operator's place: of the
numbers for which a claim fails there is a least one (`LeastOne`, from `WFMin` and
`NatLessThanWellFounded`), and the step leads to a smaller one. `Upwards` says it once, and `SumExists`, `FitExists` and `ChainExists`
use it to show that the recursive functions of `Vad` (the speech in a segment, what is taken of the ring, the
blocks of a piece) are what their equations say. `Methodology` and `Vad` write recursion as functions for that reason.

Only model-checked: liveness (`Settles`, `ProcessedForGood`, `EveryCallEnds`, `Agree`, `StopsItself`), which with
ENABLED is out of TLAPS's reach here. Every safety property of a run has its theorem, but for
`ExactlyOnce`, which is false (section 6).

## 6. Where the code and its own words differ

The first is a run expected to end in a violation. The others are operators in the modules that no run lists;
to see one, put it into the configuration named, as an INVARIANT or a PROPERTY (a hosted module's
under a name in its MC module: `Fresh == O!CheckedFresh`), with the change given.

1. **Two copies of one email** (`EmailStuckSave`). Two clicks find the same stuck Save to
   Drafts. The first releases it and starts its own send; the second's release, an UPDATE
   by id alone (`policy.py:192`), sets that running send to 'failed' and sends again.
2. **A closed call reopens** (`HisActionWins`, `PostCallLife.cfg`). `transcribe_call` (`speech/final.py:166`) and `diarize_call`
   (`speech/diarize.py:189`) write the call's state themselves, so the look after the step
   (`workflow.py:486`, "his action wins") does not see that the seller closed the call during it.
3. **A second process's call is ended** (`NothingLost`, `LiveCapture.cfg` with one call and `Recorders = {cmd}`).
   `recover_orphans` takes any live call for a crashed one, also one that `salescoach call` is recording.
4. **Meetings beyond the cap of the first poll** (`LastTwoDays`, `Intake` by itself with two meetings) are never
   imported and never on record (`sources/__init__.py:29,195`).
5. **A sent email's body changes** (`OnlyDraftsEdited`, `EmailStuckSave.cfg` with Send and edit and two bodies).
   `update_email` checks the status and writes by id, so a form saved while another tab sends
   changes the body of a sent email and sets it back to 'drafted'.
6. `RecoveredDied` (`BusWorker.cfg` with a drainer): "anything left 'running' died with the previous process" is
   not so beside a `salescoach work`; its event is handed out a second time.
7. `NeverDraggedBack` (`PostCallLife.cfg`): a re-run of a finished call that fails once starts over from a
   later state, and then drags the call back into review.
8. `DiscardedWhenClosedMeanwhile` (`PostCall.cfg`): Redraft on a call that was closed before discards the new
   draft and says the call was closed *while* it was written.
9. `RefusedWhileDrafting` (`PostCall.cfg` with three jobs): Send is to be refused while a new draft is written; the guard
   looks at the newest job only (`app.py:1412`), so a second queued redraft hides the running one.
10. `RejectedStays` (`Commitments.cfg`): "Rejected. It will not be tracked or mirrored." (`app.py:1251`). It is
   not mirrored; but `reject_loop` records no provenance for the cancelled status, so an
   agent's strong claim that was decided before the rejection and is written after it moves
   the loop to another status.
11. `SettlesConflicts` (`Commitments.cfg`): the seller's input "closes any open conflict on that field"
   (`gate.py:7`); when he sets the value that is already there, `propose` returns before
   that (`gate.py:64`) and the conflict stays.
12. `HeardOnce` (`Commitments.cfg`): a loop that was closed through Jarvis and is then reopened here is
   closed again by the next sync: the commitment still bears the old note, which
   `read_back` takes for a new decision (`jarvis_bridge.py:187`). Only what this system
   closed there is recognised as reopened here. And `Agree` with two loops: both can adopt the same
   commitment (`context.world_commitments` offers all but our own mirrors); with one done and one
   open the bridge closes and restores it at every sync.
13. A Retry on a running job says "Queued again." and is lost when the run completes
   (`app.py:796`); one between the two statements of `bus.fail` parks an event that has
   attempts left under "failed after 3 attempts" (`ParkedOnlyWhenSpent` with `RetryFrom` as in `CallAnalysis.cfg`).

Of the newer models, by module:

- `Outreach`: `CheckedFresh`. "Checked fresh on each run" (`autosend.py:5-6`): the pass reads all drafts first (215) and checks
  each against that row (224); the send takes what is there, so an edit in between goes out unchecked.
- `Calendar`: `fill_slots` writes the body it read before the calendar answered and overwrites an edit made
  meanwhile (`calendar.py:424`). `SKIP_TYPES` is in camelCase, `busy_intervals` compares upper case. A daily duty that
  starts unconfigured waits until the next day, although saving the profile is said to be enough.
- `LiveCoach`: `SpentWasShown`: "Not stored means not shown: give the ranker its cooldown and budget slot back"
  (`engine.py:333`), but when the *retired* cannot be written the step ends with the winner spent (320). `NeverAnswered`:
  a nudge about a slot goes up after the slot was filled (`state.py:12-14` against `engine.py:412`).
  A hiccup of `status()` (59-64 of the plugin) attaches anew and with a new budget; a queue that
  overflows may drop "_slow" or "ended".
- `CallAnalysis`: `MappedIsShown`: "a mapped person survives a re-run" (`tests/test_speech_diarize.py:70`) in `speakers` but
  not on every turn (`diarize.py:180-187`). `RerunIsCached`: "a re-run with unchanged audio is a cache hit" fails after a
  report has marked a turn: the mark takes the recogniser's own, which the prompt showed, off the turn. `AssessmentsFollow`, `AlwaysFollow`: moving a call leaves its assessments behind, and, once moved
  while a step ran, what that step wrote stays with the old deal for good (`app.py:1181-1184`). `LoopsCiteIt`: a loop decided earlier cites turns of the old
  transcript. `FoundAgainReturns` (three runs): a promise found, lost and found again stays dropped
  (`workflow.py:248`). `ReviewedIsWhole`: a re-run from a late step takes a call to review that has not been
  through the earlier ones.
- `DealStrategy`: `HealthCapped`: "capped by facts" (`strategist.py:17`), but a run with less confidence replaces the caps and not the
  score, which may then lie above them.
  `RerunIsCached`: the prompt holds something the run before wrote (`history.py:10-13`): the people it named. `VerdictsStand`: reconciliations
  cite assessments the analyst's step deleted (`workflow.py:146`). A crash between the strategy's commit and the
  reconciler loses the disagreement; one between `set_active` and the queueing a switch (`setupui/web.py:167`); a run of
  the command line that outlives a switch stores the old methodology's reading as the newest.
- `Learning`: `MergesHold`, `ReturnedCameBack`, `MirrorHolds`, `AcceptingLowers`: a merge into a pattern that nothing shows any more is
  void; a verdict taken back counts as a return; the mirror does not follow every verdict; "Lower the weight" is
  accepted with the weight it was offered with, though the seller has set a lower one since.
- `DealOutcome`: `HistoryAlwaysTells`: a save reads (`outcomes.py:110`) and writes (125); a save between goes unseen, and a stale tab's form reopens a won deal.
- `Agents`: `AskedAgain`: a run refused what another run has just learned raises instead of asking again
  (`http_chat.py:252-254`). `NoneUnfinished`: an exception a provider does not convert leaves its attempt "running"
  ("every attempt is recorded", `agents/base.py`).
- `Settings`: `CardComesBack`, `TestedIsUsed`: "A provider that stops being usable ... brings the card back" (`state.py:308-310`): not if the card was
  dismissed for the same before it was usable;
  a test of values that were not saved counts for those that were.
- `Folder`: `SetAsideAtAll`, `KeptAtAll`, `ReadIfProcessed`: two polls, or two files of one name, can set aside
  or replace a file that could be read (`folder.py:199,211,226-231`).
- `LiveSpeech`: `DiedAlone`: a stop under way is recorded as the helper's death when the monitor had looked at `_stopping` before it (`supervisor.py:262-265`).
  `StopIsKept`: a reader that outlives its join may drop the stop marker from a full queue (`stream_asr.py:59-74`).
- `Store`: `BothOpen`, `OpensAgain`: a script that a second process, or a death, meets half way raises on the next
  start (`migrate.py:261-263`); `ColumnsThere` (`stores.py:49-53`).

Seen while reading, in the models but not exhibited by a property, or just outside them:

- A live capture escapes its manager when the database raises after `session.start()`
  (`stray`); one orphan that cannot be finalized keeps `recover_orphans` from the rest.
- Two imports of a meeting race: the loser unlinks the payload that the other's call uses.
  Two answers to the speaker question: the second may take the call back to 'diarized'
  after its event was spent. (`taint` in `Intake`.)
- Before the seller's name is configured every import of the first poll fails, and the
  two-day lookback is used up by it. A failure stays on record only until the next poll.
- `call_redraft` does not refuse a held call (`app.py:1090`).
- "Complete review" pressed during a re-run is overwritten when the re-run ends.
- An exception of the Gmail client *after* the message was accepted counts as "definitely
  not sent" when it is a `ValueError` (`policy.py:91`). The model takes the classification
  as correct.
- `autosend.run_once` does not look at the status it gets back: a recovered Save to Drafts
  is logged as sent and closes the call (`autosend.py:245`).
- `close_mirrors` takes the seller's rank for his "done" (`jarvis_bridge.py:157`), looked up
  after the row was read: when he reopens the loop in between, his commitment is closed for
  a claim of an agent's. The same sync restores it. (`taint` in `Commitments`.)

## 7. Slips

Replacing the definition by its `...Slip` makes the property fail in the run named.

| run | property | definition | the slip |
|---|---|---|---|
| EmailSend | NeverTwice | `DeliveryUnknown` | a timeout is taken for a failure |
| EmailSend | DeliversAsPromised | `AdoptedMode` | a recovery takes the mode of the new click for that of the stuck attempt |
| EmailSend | SentAsApproved | `Editable` | an email may be edited while it is sent |
| EmailSend | KeepsLimits | `HoldsWhenAsked` (Outreach) | a nudge asked for is drafted beside one that waits |
| EmailSend | AutoSendsHeld | `ChecksOut` (Outreach) | the pass sends any draft, held or not |
| BusWorker | KeepsLedger | `Retires` | a run that succeeds also retires the re-run a click has queued |
| BusWorker | Settles | `Recovered` | recovery makes every running event pending, spent or not |
| PostCall | OneFollowUp | `ClosedEmails` | closing leaves the drafts |
| PostCall | SellerWins | `ClosedNow` | no look at the call after a step |
| PostCall | NeverForgotten | `Recovered` | a job whose process died counts as done |
| PostCallLife | ProcessedForGood | `StartAt` | a call past its first step is not started |
| LiveCapture | OneUnlessStray | `Free` | no look for a call that is live |
| LiveCapture | AudioIsWhole | `Leftover` | leftovers are finalized only when both PCM files are there |
| LiveCapture | EveryCallEnds | `PublishEnded` | only a manager's own session publishes |
| Intake | NothingMissed | `Since` | the window starts at the last poll, without overlap |
| Intake | AnswersHold | `Waiting` | any imported call can be answered for |
| Intake | FolderKept | `Remembers` (Folder) | whatever fails is remembered as unreadable |
| Intake | StoreKept | `Lands` (Store) | a rebuild commits statement by statement |
| Commitments | HisWordStands | `Weaker` | ranks are not compared |
| Commitments | OwnClosedOnHisWord | `ByHim` | no look at whose "done" it is |
| Commitments | Agree | `ToClose` | only loops that are done are looked at |
| Calendar | ArmedIsRecorded | `Recordable` | a meeting that has its call may be recorded again |
| Calendar | SlotsAreFree | `Overlaps` | only an event that begins inside is seen |
| Calendar | StopsItself | `Over` | after the grace period, not at its end: the clock's last tick is missed |
| LiveCoach | KeepsBudget | `Cooling` | no gap between nudges |
| LiveCoach | EveryCandidateKept | `Unshown` | a winner whose row failed is dropped without a word |
| LiveCoach | LinesHeeded | `Backfill` | the stored lines are not read on attaching |
| LiveCoach | SegmentsTrue | `Enough` (Vad) | a segment needs as much speech as a segment is long |
| LiveCoach | WordsTrue | `NextIdx` (LiveSpeech) | a number whose write failed is used again |
| DealStrategy | SellersWord | `Cleared` | the sweep clears a risk the seller opened |
| DealStrategy | NothingMissed | `Materialized` | a cached strategy's assessments are not written back |
| DealStrategy | ReadingHolds | `Entries` (Methodology) | an element is as good as its best quote |
| DealStrategy | HisWordOnLearned | `Target` (Learning) | one hop of a chain of merges |
| DealStrategy | VerdictsHold | `SameMethod` (Outcomes) | rows of another methodology count as progress |
| DealStrategy | HistoryTells | `Moved` (DealOutcome) | a change of stage alone is not written down |
| CallAnalysis | EvidenceStands | `Cached` | any stored answer is reused |
| CallAnalysis | FindingsStand | `RerunDrops` | a re-run drops nothing |
| CallAnalysis | AttemptsTell | `FallsBack` (Agents) | the fallback falls back to itself |
| CallAnalysis | SettingsHold | `SetAside` (Settings) | an unreadable file is overwritten |
| CallAnalysis | DoneIsTrue | `Raise` (EventBus) | a handler that raises is completed |

Further slips stand in the modules; they break a conjunct of the same properties: `StatusAfter` and
`Sendable` (EmailSend); `AfterFailure`, `Connect`, `Refunded` (EventBus); `Retired`, `MayStillSend`, `FinalState`
(PostCall); `Target`, `StopCapture`, `NewState` (LiveCapture); `FirstState`, `TakenBack`, `Publishes`
(Intake); `Released`, `MayDrop` (Commitments); `Undecided`, `Spent`, `Uncounted`, `UnderCap` (Outreach);
`Upserted` (Calendar); `AskedMeanwhile` (LiveCoach); `FromRing`, `Forget` (Vad); `Sound`, `GivesUp`
(LiveSpeech); `Marked`, `Named`, `Moves` (CallAnalysis); `Waits`, `Learns`, `Tries` (Agents);
`Accepted` (Settings); `Stamped` (Folder); `After`, `Again` (Store); `Sha` (DealStrategy); `Rest`
(Methodology); `Excluded`, `Stays`, `DecidedN` (Learning); `Out` (Outcomes); `Reason` (DealOutcome).

## 8. Not modelled

- **Gmail, the calendar, the recorders, the providers, Jarvis** are external: the models have how the
  code uses them and what they may answer.
- **What agents write**: summaries, loops, drafts and strategy are text. What they are asked, when an
  answer is reused, and what is made of it is modelled.
- **Signal processing**: echo, the noise floor, alignment, the clustering of voices, decoding. `Vad`
  and `CallAnalysis` choose the outcome.
- **Parsers, HTTP clients, prompts, schemas, validators, HTML**: text in, text out, with unit tests of
  their own. `Intake` and `Folder` take them as steps that succeed or raise. The evidence check is
  in `Methodology`, by how a quote is found.
- **SQLite** is taken to do what its documentation says. A SIGKILL loses no commit.
- **Profile, sign-in, hosting, command line, Swift helpers**: forms, a password check, set-up,
  registration, a window. `salescoach work`, `call` and `strategy` appear as processes, the capture
  helper as a process that records while it is alive.
- Within modelled components: in `PostCall` plugin steps; in `CallAnalysis` imported text calls, bleed,
  other calls' loops and claims in the prompts; in `LiveCapture` a helper that cannot be stopped in
  time, and the import of an audio file; in `Intake` people and deals, `only_deals`, webhooks; in `Commitments` the
  other gated fields and tables, a loop's cadence and priority; in `Calendar` the prep brief; in `LiveCoach`
  the local model's candidates, the replay and its timeline; in `Outcomes` weekends, moved meetings, reopened
  promises; in `Vad` a write to the archive that fails; in `Store` which columns hold what, and vector search.

## 9. Plan

Done: every component of section 1's table has a module, `LiveCoach`, `EmailSend` and `EventBus` implement
abstract specifications, and every safety property of a run is a theorem (section 5). Left, in this order:

1. An abstract specification of a *call's life* that `PostCall` and `Intake` implement.
2. The import of an audio file beside `LiveCapture` (a racing import gets an IntegrityError; one that dies
   between its rename and its commit leaves a directory), the prep brief in `Calendar`, plugin steps in `PostCall`.
