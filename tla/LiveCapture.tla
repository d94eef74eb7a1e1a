----------------------------- MODULE LiveCapture -----------------------------
(***************************************************************************)
(* Recording calls: the live manager (live/manager.py), one per process,   *)
(* the capture session it runs (live/supervisor.py) and the audio archive  *)
(* that session writes and that is finalized when the call ends or, after  *)
(* a crash, by whoever ends it (live/archive.py).                          *)
(*                                                                         *)
(* A process is the server or a `salescoach call` in a terminal.  Each has *)
(* a manager of its own, whose lock is held from the start of an operation *)
(* to its end: what a process is doing is one place.  The calls' rows and  *)
(* audio directories are shared.  An audio file is followed by its length, *)
(* in chunks, as far as it has been flushed.                               *)
(*                                                                         *)
(* An operator named ...Slip is a plausible slip in the code that the      *)
(* operator below it models; the README says which property notices it.    *)
(***************************************************************************)
EXTENDS Integers, Sequences, FiniteSets, FiniteSetsExt

CONSTANTS
    Calls,          \* calls that may be recorded
    Server,         \* the server
    Recorders,      \* `salescoach call` processes
    NoCall, NoProc,
    MaxLen,         \* bound: chunks of audio on a channel
    MaxFaults       \* bound: crashes, operations that raise, database errors

Procs == {Server} \cup Recorders
Names == {"me", "them"}
Order == <<"me", "them">>               \* archive.NAMES
None  == -1                             \* no such file
Lengths == None..MaxLen

ASSUME LiveCaptureConstants ==
    /\ Server \notin Recorders
    /\ NoCall \notin Calls /\ NoProc \notin Procs
    /\ MaxLen \in Nat /\ MaxFaults \in Nat

VARIABLES
    wf,         \* calls.wf_state; "processed" is every state of the pipeline
    ended,      \* CALL_ENDED: "no", "queued" or "handled"
    pcm, flac,  \* lengths of the files in each call's audio directory
    written,    \* Archive.written: what the session has put on each channel
    open,       \* channels whose file the session's archive holds open
    capt,       \* the process whose capture helper is recording each call
    session,    \* LiveManager._session: the call it holds
    at,         \* what each process is doing
    job,        \* the call it is ending
    orphans,    \* recover_orphans: the calls still to end
    faults,     \* what is left of MaxFaults
    stray       \* history: a capture was left running that no manager holds

files == <<pcm, flac>>
vars  == <<wf, ended, pcm, flac, written, open, capt, session, at, job, orphans, faults, stray>>

NoJob == [call |-> NoCall, own |-> FALSE, i |-> 0, target |-> 0, saw |-> "none"]
Nothing == [n \in Names |-> None]

Init ==
    /\ wf = [c \in Calls |-> "none"] /\ ended = [c \in Calls |-> "no"]
    /\ pcm = [c \in Calls |-> Nothing] /\ flac = [c \in Calls |-> Nothing]
    /\ written = [c \in Calls |-> [n \in Names |-> 0]]
    /\ open = [c \in Calls |-> {}]
    /\ capt = [c \in Calls |-> NoProc]
    /\ session = [p \in Procs |-> NoCall]
    /\ at = [p \in Procs |-> "down"]
    /\ job = [p \in Procs |-> NoJob]
    /\ orphans = [p \in Procs |-> {}]
    /\ faults = MaxFaults /\ stray = FALSE

Goto(p, place) == at' = [at EXCEPT ![p] = place]
JobOf(p, new)  == job' = [job EXCEPT ![p] = new]
Fault == faults > 0 /\ faults' = faults - 1

----------------------------------------------------------------------------
(* LiveManager.start_call.                                                 *)

(* "A call is already live" is refused; the new call is committed as live  *)
(* before its capture starts.                                              *)
FreeSlip(p) == TRUE
Free(p) == session[p] = NoCall

Start(p, c) ==
    /\ at[p] = "idle" /\ Free(p)
    /\ wf[c] = "none"
    /\ wf' = [wf EXCEPT ![c] = "live"]
    /\ Goto(p, "starting") /\ JobOf(p, [NoJob EXCEPT !.call = c])
    /\ UNCHANGED <<ended, files, written, open, capt, session, orphans, faults, stray>>

(* session.start() raised.                                                 *)
StartFails(p) ==
    /\ at[p] = "starting"
    /\ Fault
    /\ wf' = [wf EXCEPT ![job[p].call] = "capture_failed"]
    /\ Goto(p, "idle") /\ JobOf(p, NoJob)
    /\ UNCHANGED <<ended, files, written, open, capt, session, orphans, stray>>

StartCapture(p) ==
    /\ at[p] = "starting"
    /\ capt' = [capt EXCEPT ![job[p].call] = p]
    /\ Goto(p, "started")
    /\ UNCHANGED <<wf, ended, files, written, open, session, job, orphans, faults, stray>>

(* CALL_STARTED is committed, then the manager keeps the session ...       *)
Started(p) ==
    /\ at[p] = "started"
    /\ session' = [session EXCEPT ![p] = job[p].call]
    /\ Goto(p, "idle") /\ JobOf(p, NoJob)
    /\ UNCHANGED <<wf, ended, files, written, open, capt, orphans, faults, stray>>

(* ... unless that commit, or a statement before it, raised.               *)
StartedLost(p) ==
    /\ at[p] = "started"
    /\ Fault
    /\ stray' = TRUE
    /\ Goto(p, "idle") /\ JobOf(p, NoJob)
    /\ UNCHANGED <<wf, ended, files, written, open, capt, session, orphans>>

----------------------------------------------------------------------------
(* Archive.write, from the session's reader thread: a frame, and zeros     *)
(* before it where the channel was silent.  A file is opened by its first  *)
(* frame; one that was unlinked since takes its frames with it.            *)
Record(c, n, len) ==
    /\ capt[c] # NoProc
    /\ len > written[c][n]
    /\ written' = [written EXCEPT ![c][n] = len]
    /\ open' = [open EXCEPT ![c] = @ \cup {n}]
    /\ pcm' = IF n \in open[c] /\ pcm[c][n] = None THEN pcm
              ELSE [pcm EXCEPT ![c][n] = len]
    /\ UNCHANGED <<wf, ended, flac, capt, session, at, job, orphans, faults, stray>>

----------------------------------------------------------------------------
(* LiveManager.stop_call: of the manager's own session, or of a call some  *)
(* other process left.                                                     *)
BeginEnd(p, c) ==
    /\ Goto(p, IF session[p] = c THEN "stopping" ELSE "reading")
    /\ JobOf(p, [NoJob EXCEPT !.call = c, !.own = (session[p] = c)])

Stop(p, c) ==
    /\ at[p] = "idle"
    /\ wf[c] # "none"
    /\ p = Server \/ session[p] = c
    /\ BeginEnd(p, c)
    /\ UNCHANGED <<wf, ended, files, written, open, capt, session, orphans, faults, stray>>

(* CaptureSession.stop up to the archive: the helper and the reader end.   *)
StopCaptureSlip(p) ==
    /\ at[p] = "stopping"
    /\ Goto(p, "measure")
    /\ UNCHANGED <<wf, ended, files, written, open, capt, session, job, orphans, faults, stray>>

StopCapture(p) ==
    LET c == job[p].call IN
    /\ at[p] = "stopping"
    /\ capt' = [capt EXCEPT ![c] = NoProc]
    /\ open' = [open EXCEPT ![c] = {}]
    /\ Goto(p, "measure")
    /\ UNCHANGED <<wf, ended, files, written, session, job, orphans, faults, stray>>

(* The look at the call.  A call another process left may still have audio *)
(* to finalize (archive.recover); a call of this manager has been through  *)
(* finalize already, and the session is given up.                          *)
LeftoverSlip(c) == \A n \in Names : pcm[c][n] # None
Leftover(c) == \E n \in Names : pcm[c][n] # None

ReadCall(p) ==
    LET c == job[p].call IN
    /\ at[p] = "reading"
    /\ JobOf(p, [job[p] EXCEPT !.saw = wf[c]])
    /\ Goto(p, IF wf[c] = "capture_failed" THEN "next"
               ELSE IF ~job[p].own /\ Leftover(c) THEN "measure" ELSE "writing")
    /\ UNCHANGED <<wf, ended, files, written, open, capt, session, orphans, faults, stray>>

----------------------------------------------------------------------------
(* archive.finalize_dir.                                                   *)

LengthOf(c, n) == IF pcm[c][n] # None THEN pcm[c][n] ELSE flac[c][n]
TargetSlip(c) == pcm[c]["me"]
Target(c) == Max({LengthOf(c, n) : n \in Names} \cup {0})

(* Where the manager goes on once the audio is final.                      *)
Finalized(p) ==
    IF job[p].own THEN Goto(p, "reading") /\ session' = [session EXCEPT ![p] = NoCall]
                  ELSE Goto(p, "writing") /\ UNCHANGED session

Measure(p) ==
    LET c == job[p].call IN
    /\ at[p] = "measure"
    /\ IF Target(c) = 0
       THEN /\ pcm' = [pcm EXCEPT ![c] = Nothing]
            /\ Finalized(p) /\ UNCHANGED job
       ELSE /\ JobOf(p, [job[p] EXCEPT !.i = 1, !.target = Target(c)])
            /\ Goto(p, "convert") /\ UNCHANGED <<pcm, session>>
    /\ UNCHANGED <<wf, ended, flac, written, open, capt, orphans, faults, stray>>

NextName(p) == JobOf(p, [job[p] EXCEPT !.i = @ + 1]) /\ Goto(p, "convert")

(* One channel: its PCM is converted, or silence written for it.           *)
Convert(p) ==
    LET c == job[p].call
        n == Order[job[p].i] IN
    /\ at[p] = "convert" /\ job[p].i <= Len(Order)
    /\ IF pcm[c][n] # None
       THEN /\ flac' = [flac EXCEPT ![c][n] = Max({job[p].target, pcm[c][n]})]
            /\ Goto(p, "unlink") /\ UNCHANGED job
       ELSE /\ flac' = [flac EXCEPT ![c][n] = IF @ = None THEN job[p].target ELSE @]
            /\ NextName(p)
    /\ UNCHANGED <<wf, ended, pcm, written, open, capt, session, orphans, faults, stray>>

(* The session is given up even when its stop raised; the call is not      *)
(* ended, and neither are the orphans behind it.                           *)
Raised(p) ==
    /\ session' = [session EXCEPT ![p] = IF job[p].own THEN NoCall ELSE @]
    /\ orphans' = [orphans EXCEPT ![p] = {}]
    /\ Goto(p, "idle") /\ JobOf(p, NoJob)

(* "A .pcm is removed only after its FLAC is complete"; it may be gone.    *)
Unlink(p) ==
    LET c == job[p].call
        n == Order[job[p].i] IN
    /\ at[p] = "unlink"
    /\ IF pcm[c][n] = None THEN Raised(p) /\ UNCHANGED pcm
       ELSE /\ pcm' = [pcm EXCEPT ![c][n] = None]
            /\ NextName(p) /\ UNCHANGED <<session, orphans>>
    /\ UNCHANGED <<wf, ended, flac, written, open, capt, faults, stray>>

FinishArchive(p) ==
    /\ at[p] = "convert" /\ job[p].i > Len(Order)
    /\ Finalized(p)
    /\ UNCHANGED <<wf, ended, files, written, open, capt, job, orphans, faults, stray>>

----------------------------------------------------------------------------
(* The end of stop_call: ended_at, 'captured' and CALL_ENDED, one commit.  *)
(* The event is published once, whatever has become of the first one.      *)
NewStateSlip(p) == "captured"
NewState(p) == IF job[p].saw = "live" THEN "captured" ELSE wf[job[p].call]

PublishEndedSlip(p) == job[p].own
PublishEnded(p) == TRUE

WriteEnd(p) ==
    LET c == job[p].call IN
    /\ at[p] = "writing"
    /\ wf' = [wf EXCEPT ![c] = NewState(p)]
    /\ ended' = IF PublishEnded(p) /\ ended[c] = "no" THEN [ended EXCEPT ![c] = "queued"] ELSE ended
    /\ Goto(p, "next")
    /\ UNCHANGED <<files, written, open, capt, session, job, orphans, faults, stray>>

(* Done; recover_orphans goes on to the next one.                          *)
Next1(p) ==
    /\ at[p] = "next"
    /\ IF orphans[p] = {} THEN Goto(p, "idle") /\ JobOf(p, NoJob) /\ UNCHANGED orphans
       ELSE \E c \in orphans[p] :
                /\ orphans' = [orphans EXCEPT ![p] = @ \ {c}]
                /\ BeginEnd(p, c)
    /\ UNCHANGED <<wf, ended, files, written, open, capt, session, faults, stray>>

(* A full disk, a locked database: an operation raises half way.           *)
Ending == {"measure", "convert", "unlink", "reading", "writing"}

Trouble(p) ==
    /\ at[p] \in Ending
    /\ Fault
    /\ Raised(p)
    /\ UNCHANGED <<wf, ended, files, written, open, capt, stray>>

----------------------------------------------------------------------------
(* A process starts; the server's first act is recover_orphans.            *)
Boot(p) ==
    /\ at[p] = "down"
    /\ Goto(p, IF p = Server THEN "next" ELSE "idle")
    /\ orphans' = [orphans EXCEPT ![p] = IF p = Server THEN {c \in Calls : wf[c] = "live"} ELSE {}]
    /\ UNCHANGED <<wf, ended, files, written, open, capt, session, job, faults, stray>>

(* It dies, or is shut down; its capture helpers lose their pipe and end.  *)
Crash(p) ==
    /\ at[p] # "down"
    /\ Fault
    /\ LET mine == {c \in Calls : capt[c] = p} IN
       /\ capt' = [c \in Calls |-> IF c \in mine THEN NoProc ELSE capt[c]]
       /\ open' = [c \in Calls |-> IF c \in mine THEN {} ELSE open[c]]
    /\ session' = [session EXCEPT ![p] = NoCall]
    /\ orphans' = [orphans EXCEPT ![p] = {}]
    /\ Goto(p, "down") /\ JobOf(p, NoJob)
    /\ UNCHANGED <<wf, ended, files, written, stray>>

(* The worker takes the CALL_ENDED while no call is live in its server.    *)
Process(c) ==
    /\ at[Server] # "down" /\ session[Server] = NoCall
    /\ ended[c] = "queued" /\ wf[c] = "captured"
    /\ ended' = [ended EXCEPT ![c] = "handled"]
    /\ wf' = [wf EXCEPT ![c] = "processed"]
    /\ UNCHANGED <<files, written, open, capt, session, at, job, orphans, faults, stray>>

----------------------------------------------------------------------------
Step(p) ==
    \/ StartCapture(p) \/ Started(p)
    \/ StopCapture(p) \/ ReadCall(p)
    \/ Measure(p) \/ Convert(p) \/ Unlink(p) \/ FinishArchive(p)
    \/ WriteEnd(p) \/ Next1(p) \/ Boot(p)

Next ==
    \/ \E p \in Procs : Step(p) \/ StartFails(p) \/ StartedLost(p) \/ Trouble(p) \/ Crash(p)
    \/ \E p \in Procs, c \in Calls : Start(p, c) \/ Stop(p, c)
    \/ \E c \in Calls, n \in Names, len \in 0..MaxLen : Record(c, n, len)
    \/ \E c \in Calls : Process(c)

Spec == Init /\ [][Next]_vars

(* Operations run to their end, the server is started again when it died,  *)
(* and the seller stops, sooner or later, a call whose page says it is     *)
(* live.                                                                   *)
FairSpec ==
    /\ Spec
    /\ \A p \in Procs : WF_vars(Step(p))
    /\ \A c \in Calls : SF_vars(wf[c] = "live" /\ Stop(Server, c))

----------------------------------------------------------------------------
States == {"none", "live", "capture_failed", "captured", "processed"}

TypeOK ==
    /\ wf \in [Calls -> States]
    /\ ended \in [Calls -> {"no", "queued", "handled"}]
    /\ pcm \in [Calls -> [Names -> Lengths]] /\ flac \in [Calls -> [Names -> Lengths]]
    /\ written \in [Calls -> [Names -> 0..MaxLen]]
    /\ open \in [Calls -> SUBSET Names]
    /\ capt \in [Calls -> Procs \cup {NoProc}]
    /\ session \in [Procs -> Calls \cup {NoCall}]
    /\ at \in [Procs -> {"down", "idle", "starting", "started", "stopping", "next"} \cup Ending]
    /\ job \in [Procs -> [call : Calls \cup {NoCall}, own : BOOLEAN, i : 0..Len(Order) + 1,
                          target : 0..MaxLen, saw : States]]
    /\ orphans \in [Procs -> SUBSET Calls]
    /\ faults \in 0..MaxFaults /\ stray \in BOOLEAN

(* "One capture at a time": no process records two calls at once, unless a *)
(* capture was left running that its manager no longer holds.              *)
OneCapture == \A c, d \in Calls : capt[c] = capt[d] /\ capt[c] # NoProc => c = d
OneUnlessStray == ~stray => OneCapture

(* "A crash loses at most the unflushed seconds, never the call": what was *)
(* put on disk is in the PCM or in the FLAC, wherever a crash or a failure *)
(* interrupted the conversion and whoever took it up again.                *)
NothingLost ==
    \A c \in Calls, n \in Names : written[c][n] <= Max({pcm[c][n], flac[c][n], 0})
NothingLostUnlessStray == ~stray => NothingLost

(* The worker is told of a call only when its audio is final: both files   *)
(* that exist are equally long and hold all that was recorded.             *)
Final(c) ==
    /\ capt[c] = NoProc
    /\ \A n \in Names : pcm[c][n] = None /\ written[c][n] <= Max({flac[c][n], 0})
    /\ \A n \in Names : flac[c][n] # None => flac[c][n] = Max({flac[c][m] : m \in Names})
EndedIsFinal == ~stray => \A c \in Calls : ended[c] # "no" => Final(c)

(* "The call's later state is never rewound", and a call waiting to be     *)
(* processed has its event waiting.                                        *)
CapturedIsQueued == \A c \in Calls : wf[c] = "captured" <=> ended[c] = "queued"

(* From the first sample to the worker's job, the audio of a call is whole. *)
AudioIsWhole == NothingLostUnlessStray /\ EndedIsFinal /\ CapturedIsQueued

(* A call recorded is a call ended and handed on, whatever crashed or      *)
(* raised while it was; one that could not be recorded says so.            *)
EveryCallEnds ==
    \A c \in Calls : wf[c] = "live" ~> ended[c] # "no" \/ wf[c] = "capture_failed"
=============================================================================
