------------------------------ MODULE LiveSpeech ------------------------------
(***************************************************************************)
(* The threads of one live capture after its audio is on disk              *)
(* (live/supervisor.py): the reader, which hands every segment of speech   *)
(* to the live transcriber's queue and meters the levels (live/levels.py); *)
(* the transcriber's worker (live/stream_asr.py), which stores and shows   *)
(* live turns; the monitor, which raises the alarms; and stop(), which     *)
(* waits for all of them.                                                  *)
(*                                                                         *)
(* Segments are numbered as the reader submits them, by either channel.    *)
(* Module Vad says how they are cut, module LiveCapture what the archive   *)
(* keeps.                                                                  *)
(***************************************************************************)
EXTENDS Integers, Sequences, SequencesExt, FiniteSets

CONSTANTS
    Channels,
    MaxQueue,       \* LiveTranscriber.max_queue
    Stop,           \* what stop puts on the queue
    Threshold,      \* silence_alert_s, in ticks
    MaxSegs,        \* bound: segments of speech
    MaxTrouble      \* bound: failures and time-outs

LiveSpeechConstants ==
    /\ MaxQueue \in Nat \ {0} /\ Threshold \in Nat \ {0} /\ MaxSegs \in Nat /\ MaxTrouble \in Nat
    /\ Stop \notin 1..MaxSegs

VARIABLES
    helper,     \* the capture helper: "up" or "gone"
    reader,     \* "reads", "flushes" or "done"
    stop,       \* where stop() is
    queue, worker, busy,    \* LiveTranscriber._q and what its thread does, with what
    disabled, abort, stats,
    nextIdx, turns, shown,  \* CaptureSession._next_idx; turns stored; turns published
    silent, alerted,        \* ticks since a channel's last sound; Levels._alerted
    monitor, died,          \* what the monitor has read; CaptureSession.died_early
    alarms,     \* history: silence alarms raised since each channel's last sound
    alone,      \* history: the helper ended before stop() did it
    late,       \* history: the reader was not waited for to the end
    left        \* what is left of MaxTrouble

asr    == <<queue, worker, busy, disabled, abort, stats>>
sink   == <<nextIdx, turns, shown>>
levels == <<silent, alerted, alarms>>
vars   == <<helper, reader, stop, asr, sink, levels, monitor, died, alone, late, left>>

None == 0
Counters == {"submitted", "transcribed", "dropped", "errors", "skipped", "abandoned"}
Count(key) == stats' = [stats EXCEPT ![key] = @ + 1]
Trouble == left > 0 /\ left' = left - 1

(* _make_live: no model, no live transcript, and the call is recorded all  *)
(* the same.                                                               *)
Init ==
    /\ helper = "up" /\ reader = "reads" /\ stop = "no"
    /\ queue = <<>> /\ worker \in {"waits", "none"} /\ busy = None
    /\ disabled = FALSE /\ abort = FALSE /\ stats = [k \in Counters |-> 0]
    /\ nextIdx = 0 /\ turns = <<>> /\ shown = <<>>
    /\ silent = [c \in Channels |-> 0] /\ alerted = [c \in Channels |-> FALSE]
    /\ alarms = [c \in Channels |-> 0]
    /\ monitor = "waits" /\ died = FALSE /\ alone = FALSE /\ late = FALSE
    /\ left = MaxTrouble

----------------------------------------------------------------------------
(* The reader.                                                             *)

(* Levels.update.                                                          *)
SoundSlip(c) == silent' = [silent EXCEPT ![c] = 0] /\ alerted' = alerted
Sound(c) == silent' = [silent EXCEPT ![c] = 0] /\ alerted' = [alerted EXCEPT ![c] = FALSE]

Hears(c) ==
    /\ reader = "reads" /\ helper = "up" /\ silent[c] > 0
    /\ Sound(c) /\ alarms' = [alarms EXCEPT ![c] = 0]
    /\ UNCHANGED <<helper, reader, stop, asr, sink, monitor, died, alone, late, left>>

(* LiveTranscriber.submit: the oldest is dropped until there is room.      *)
Submit ==
    /\ worker # "none" /\ stats.submitted < MaxSegs
    /\ queue' = Append(IF Len(queue) = MaxQueue THEN Tail(queue) ELSE queue, stats.submitted + 1)
    /\ stats' = [stats EXCEPT !.submitted = @ + 1, !.dropped = IF Len(queue) = MaxQueue THEN @ + 1 ELSE @]
    /\ UNCHANGED <<worker, busy, disabled, abort>>

Speaks ==
    /\ reader \in {"reads", "flushes"} /\ Submit
    /\ UNCHANGED <<helper, reader, stop, sink, levels, monitor, died, alone, late, left>>

(* End of the helper's output, or an error: what the VADs hold is flushed. *)
ReaderEnds ==
    /\ \/ reader = "reads" /\ helper = "gone" /\ reader' = "flushes" /\ left' = left
       \/ reader = "reads" /\ Trouble /\ reader' = "flushes"
       \/ reader = "flushes" /\ reader' = "done" /\ left' = left
    /\ UNCHANGED <<helper, stop, asr, sink, levels, monitor, died, alone, late>>

----------------------------------------------------------------------------
(* LiveTranscriber._run.                                                   *)
GivesUpSlip == "done"
GivesUp == "waits"

Gets ==
    /\ worker = "waits" /\ queue # <<>>
    /\ queue' = Tail(queue)
    /\ IF Head(queue) = Stop THEN worker' = "done" /\ UNCHANGED <<busy, stats>>
       ELSE IF abort THEN Count("abandoned") /\ UNCHANGED <<worker, busy>>
       ELSE IF disabled THEN Count("skipped") /\ worker' = GivesUp /\ UNCHANGED busy
       ELSE worker' = "busy" /\ busy' = Head(queue) /\ UNCHANGED stats
    /\ UNCHANGED <<helper, reader, stop, disabled, abort, sink, levels, monitor, died, alone, late, left>>

(* _transcribe and CaptureSession._on_segment.  A turn that the database   *)
(* refuses is shown and its index is not used again; a segment may turn    *)
(* out to hold no words.                                                   *)
NextIdxSlip(saved) == IF saved THEN nextIdx + 1 ELSE nextIdx
NextIdx(saved) == nextIdx + 1

Transcribes ==
    /\ worker = "busy" /\ worker' = "waits" /\ busy' = None
    /\ \/ /\ Count("transcribed") /\ UNCHANGED <<disabled, left>>
          /\ UNCHANGED sink
       \/ /\ Count("transcribed") /\ UNCHANGED disabled
          /\ \E saved \in BOOLEAN :
                /\ IF saved THEN left' = left ELSE Trouble
                /\ nextIdx' = NextIdx(saved)
                /\ turns' = IF saved THEN Append(turns, [idx |-> nextIdx, seg |-> busy]) ELSE turns
                /\ shown' = Append(shown, [idx |-> nextIdx, seg |-> busy])
       \/ Trouble /\ Count("errors") /\ UNCHANGED <<disabled, sink>>
       \/ Trouble /\ disabled' = TRUE /\ UNCHANGED <<stats, sink>>
    /\ UNCHANGED <<helper, reader, stop, queue, abort, levels, monitor, died, alone, late>>

----------------------------------------------------------------------------
(* The monitor, and the clock it goes by.                                  *)
Tick ==
    /\ stop # "stopped"
    /\ \E c \in Channels : silent[c] < Threshold
    /\ silent' = [c \in Channels |-> IF silent[c] < Threshold THEN silent[c] + 1 ELSE silent[c]]
    /\ UNCHANGED <<helper, reader, stop, asr, sink, alerted, alarms, monitor, died, alone, late, left>>

(* Levels.check_silence.                                                   *)
Due(c) == ~alerted[c] /\ silent[c] >= Threshold
CheckSilence ==
    /\ stop \notin {"asr", "put", "join", "abort", "stopped"} /\ \E c \in Channels : Due(c)
    /\ alerted' = [c \in Channels |-> alerted[c] \/ Due(c)]
    /\ alarms' = [c \in Channels |-> IF Due(c) THEN alarms[c] + 1 ELSE alarms[c]]
    /\ UNCHANGED <<helper, reader, stop, asr, sink, silent, monitor, died, alone, late, left>>

(* _monitor_loop looks whether it is being stopped, then whether the       *)
(* helper is still there.                                                  *)
LooksStopping ==
    /\ monitor = "waits" /\ stop = "no" /\ ~died
    /\ monitor' = "polls"
    /\ UNCHANGED <<helper, reader, stop, asr, sink, levels, died, alone, late, left>>
Polls ==
    /\ monitor = "polls" /\ monitor' = "waits"
    /\ died' = (helper = "gone")
    /\ UNCHANGED <<helper, reader, stop, asr, sink, levels, alone, late, left>>

HelperEnds ==
    /\ helper = "up" /\ stop = "no" /\ Trouble
    /\ helper' = "gone" /\ alone' = TRUE
    /\ UNCHANGED <<reader, stop, asr, sink, levels, monitor, died, late>>

----------------------------------------------------------------------------
(* CaptureSession.stop, then LiveTranscriber.stop with drain=True.  The    *)
(* joins give up after a while; the put does not.                          *)
At(place) == stop = place
Goto(place) == stop' = place
Rest == UNCHANGED <<sink, levels, died, alone, monitor>>
Kept == Rest /\ UNCHANGED late

StopIsCalled ==
    /\ At("no") /\ Goto("kill")
    /\ UNCHANGED <<helper, reader, asr, left>> /\ Kept
Kills ==
    /\ At("kill") /\ Goto("reader") /\ helper' = "gone"
    /\ UNCHANGED <<reader, asr, left>> /\ Kept
JoinsReader ==
    /\ At("reader") /\ Goto("monitor")
    /\ IF reader = "done" THEN left' = left ELSE Trouble
    /\ late' = (reader # "done")
    /\ UNCHANGED <<helper, reader, asr>> /\ Rest
JoinsMonitor ==
    /\ At("monitor") /\ monitor = "waits" /\ Goto(IF worker = "none" THEN "stopped" ELSE "put")
    /\ UNCHANGED <<helper, reader, asr, left>> /\ Kept
PutsStop ==
    /\ At("put") /\ Len(queue) < MaxQueue /\ Goto("join")
    /\ queue' = Append(queue, Stop)
    /\ UNCHANGED <<helper, reader, worker, busy, disabled, abort, stats, left>> /\ Kept
JoinsWorker ==
    /\ At("join")
    /\ IF worker = "done" THEN Goto("stopped") /\ UNCHANGED <<abort, left>>
       ELSE Goto("abort") /\ abort' = TRUE /\ Trouble
    /\ UNCHANGED <<helper, reader, queue, worker, busy, disabled, stats>> /\ Kept
GivesUpJoin ==
    /\ At("abort") /\ Goto("stopped")
    /\ IF worker = "done" THEN left' = left ELSE Trouble
    /\ UNCHANGED <<helper, reader, asr>> /\ Kept

Stopping == StopIsCalled \/ Kills \/ JoinsReader \/ JoinsMonitor \/ PutsStop \/ JoinsWorker \/ GivesUpJoin
Reading  == Speaks \/ ReaderEnds
Working  == Gets \/ Transcribes
Next ==
    \/ Stopping \/ Reading \/ Working
    \/ (\E c \in Channels : Hears(c)) \/ Tick \/ CheckSilence \/ LooksStopping \/ Polls \/ HelperEnds

Spec == Init /\ [][Next]_vars

----------------------------------------------------------------------------
TypeOK ==
    /\ Len(queue) <= MaxQueue /\ worker \in {"waits", "busy", "done", "none"}
    /\ busy \in 0..MaxSegs /\ stats \in [Counters -> 0..MaxSegs]
    /\ silent \in [Channels -> 0..Threshold] /\ alerted \in [Channels -> BOOLEAN]
    /\ left \in 0..MaxTrouble

(* What a call's summary counts adds up: every segment was transcribed, or *)
(* dropped, or failed, or skipped, or given up, or still waits; but for    *)
(* the one that showed there was no model.                                 *)
Waiting == Cardinality({i \in DOMAIN queue : queue[i] # Stop}) + (IF busy = None THEN 0 ELSE 1)
Accounted ==
    ~late => stats.submitted =
        stats.transcribed + stats.dropped + stats.errors + stats.skipped + stats.abandoned
        + Waiting + (IF disabled THEN 1 ELSE 0)

(* Live turns carry the order in which they were spoken, each its own      *)
(* number, through dropped segments and database errors: what is stored    *)
(* under a number is what was shown under it.                              *)
Rising(ts) == \A i \in 2..Len(ts) : ts[i - 1].idx < ts[i].idx /\ ts[i - 1].seg < ts[i].seg
InOrder == Rising(shown) /\ ToSet(turns) \subseteq ToSet(shown)

(* A silence is reported once, and again only after a sound.               *)
OneAlarm == \A c \in Channels : alarms[c] <= 1 /\ (alarms[c] = 1 <=> alerted[c])

(* Ending a call waits for nothing that does not come: stop() finds room   *)
(* on the queue or a worker that makes it, and the worker it joins has     *)
(* something to take, its own Stop at the end.                             *)
NeverStuck ==
    ~late => /\ At("put") => Len(queue) < MaxQueue \/ worker \in {"busy", "waits"}
             /\ At("join") => worker \in {"busy", "done"} \/ queue # <<>>

(* The same when the reader was too slow to be waited for.                 *)
StopIsKept == At("join") => worker \in {"busy", "done"} \/ queue # <<>>

(* Recorded as died on its own, it was not stopped by the seller.          *)
DiedAlone == died => alone
=============================================================================
