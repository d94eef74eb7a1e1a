-------------------------- MODULE LiveCaptureProofs --------------------------
(* Theorems about LiveCapture, for any calls, processes, lengths and       *)
(* faults; and about Calendar, which arms and starts them.                 *)
EXTENDS MCCalendar, SequenceTheorems, FiniteSetTheorems, WellFoundedInduction,
        NaturalsInduction, TLAPS

(* The part of the types the argument rests on.                            *)
Places == {"down", "idle", "starting", "started", "stopping", "next"} \cup Ending

JobShape ==
    /\ job = [p \in Procs |-> job[p]]
    /\ \A p \in Procs :
        /\ job[p] = [x \in {"call", "own", "i", "target", "saw"} |-> job[p][x]]
        /\ job[p].own \in BOOLEAN

Shape ==
    /\ capt \in [Calls -> Procs \cup {NoProc}]
    /\ session \in [Procs -> Calls \cup {NoCall}]
    /\ at \in [Procs -> Places]
    /\ orphans \in [Procs -> SUBSET Calls]
    /\ JobShape

(* What a process is ending, and whether its own session recorded it.      *)
Owns(p) ==
    /\ at[p] \in {"starting", "started", "stopping"} \cup Ending => job[p].call \in Calls
    /\ at[p] \in {"starting", "started"} => session[p] = NoCall
    /\ at[p] = "stopping" => job[p].own /\ session[p] = job[p].call
    /\ at[p] \in Ending /\ job[p].own =>
          capt[job[p].call] # p /\ session[p] \in {job[p].call, NoCall}

(* A capture belongs to the manager that holds its session, or is about to.*)
Holds(p) ==
    \A c \in Calls : capt[c] = p => \/ session[p] = c
                                    \/ at[p] = "started" /\ job[p].call = c

IInv ==
    /\ Shape
    /\ \A p \in Procs : Owns(p)
    /\ ~stray => \A p \in Procs : Holds(p)

----------------------------------------------------------------------------
LEMMA InitIInv == Init => IInv
<1> SUFFICES ASSUME Init PROVE IInv
  OBVIOUS
<1>1. Shape
  BY DEF Init, Shape, JobShape, NoJob, Places
<1>2. \A p \in Procs : Owns(p) /\ Holds(p)
  BY LiveCaptureConstants DEF Init, Owns, Holds, Ending
<1> QED
  BY <1>1, <1>2 DEF IInv

(* What process p does leaves the others' part of the invariant alone.     *)
LEMMA OneMoves ==
  ASSUME IInv, NEW p \in Procs, Shape', Owns(p)', stray' \/ Holds(p)', stray => stray',
         \A q \in Procs : q # p => at'[q] = at[q] /\ job'[q] = job[q] /\ session'[q] = session[q],
         \A c \in Calls : capt'[c] \in {capt[c], p, NoProc}
  PROVE  IInv'
<1>1. ASSUME NEW q \in Procs, q # p PROVE Owns(q)'
  BY <1>1, LiveCaptureConstants DEF IInv, Owns
<1>2. ASSUME ~stray', NEW q \in Procs, q # p PROVE Holds(q)'
  BY <1>2, LiveCaptureConstants DEF IInv, Holds
<1>3. \A q \in Procs : Owns(q)'
  BY <1>1
<1>4. ~stray' => \A q \in Procs : Holds(q)'
  BY <1>2
<1> QED
  BY <1>3, <1>4 DEF IInv

(* The parts operations share: a step of the conversion, an exception, the *)
(* end of the conversion, the start of a stop.                             *)
LEMMA KeepsOnEnding ==
  ASSUME IInv, NEW p \in Procs, NEW new, at[p] \in Ending, JobOf(p, new), Goto(p, "convert"),
         new = [call |-> job[p].call, own |-> job[p].own, i |-> new.i, target |-> new.target,
                saw |-> job[p].saw],
         UNCHANGED <<capt, orphans, stray, session>>
  PROVE  IInv'
<1>1. Shape'
  BY LiveCaptureConstants DEF IInv, Shape, JobShape, Owns, Places, Ending, Goto, JobOf
<1>2. Owns(p)'
  BY <1>1, LiveCaptureConstants DEF IInv, Shape, JobShape, Owns, Holds, Ending, Goto, JobOf
<1>3. stray' \/ Holds(p)'
  BY LiveCaptureConstants DEF IInv, Shape, JobShape, Owns, Holds, Ending, Goto, JobOf
<1>4. \A q \in Procs : q # p => at'[q] = at[q] /\ job'[q] = job[q] /\ session'[q] = session[q]
  BY DEF IInv, Shape, JobShape, Goto, JobOf
<1> QED
  BY <1>1, <1>2, <1>3, <1>4, OneMoves

LEMMA RaisedKeeps ==
  ASSUME IInv, NEW p \in Procs, at[p] \in Ending, Raised(p), UNCHANGED <<capt, stray>>
  PROVE  IInv'
<1>1. Shape'
  BY LiveCaptureConstants, ZenonT(40) DEF IInv, Shape, JobShape, Owns, Places, Ending, Goto, JobOf, NoJob, Raised
<1>2. Owns(p)'
  BY <1>1, LiveCaptureConstants DEF IInv, Shape, JobShape, Owns, Holds, Ending, Goto, JobOf, NoJob, Raised
<1>3. stray' \/ Holds(p)'
  BY LiveCaptureConstants DEF IInv, Shape, JobShape, Owns, Holds, Ending, Goto, JobOf, NoJob, Raised
<1>4. \A q \in Procs : q # p => at'[q] = at[q] /\ job'[q] = job[q] /\ session'[q] = session[q]
  BY DEF IInv, Shape, JobShape, Goto, JobOf, NoJob, Raised
<1> QED
  BY <1>1, <1>2, <1>3, <1>4, OneMoves

LEMMA FinalizedKeeps ==
  ASSUME IInv, NEW p \in Procs, at[p] \in Ending, Finalized(p), job' = job,
         UNCHANGED <<capt, orphans, stray>>
  PROVE  IInv'
<1>1. Shape'
  <2>1. at' \in [Procs -> Places]
    BY DEF IInv, Shape, Places, Ending, Goto, Finalized
  <2>2. session' \in [Procs -> Calls \cup {NoCall}]
    BY DEF IInv, Shape, Finalized
  <2>3. JobShape'
    BY DEF IInv, Shape, JobShape
  <2> QED
    BY <2>1, <2>2, <2>3 DEF IInv, Shape
<1>2. Owns(p)'
  BY <1>1, LiveCaptureConstants DEF IInv, Shape, JobShape, Owns, Holds, Ending, Goto, Finalized
<1>3. stray' \/ Holds(p)'
  BY LiveCaptureConstants DEF IInv, Shape, JobShape, Owns, Holds, Ending, Goto, Finalized
<1>4. \A q \in Procs : q # p => at'[q] = at[q] /\ job'[q] = job[q] /\ session'[q] = session[q]
  BY DEF IInv, Shape, JobShape, Goto, Finalized
<1> QED
  BY <1>1, <1>2, <1>3, <1>4, OneMoves

LEMMA BeginKeeps ==
  ASSUME IInv, NEW p \in Procs, NEW c \in Calls, at[p] \in {"idle", "next"}, BeginEnd(p, c),
         UNCHANGED <<capt, session, stray>>, orphans' \in [Procs -> SUBSET Calls]
  PROVE  IInv'
<1>1. Shape'
  <2>1. at' \in [Procs -> Places]
    BY LiveCaptureConstants DEF IInv, Shape, Places, Ending, Goto, BeginEnd
  <2> DEFINE mine == (session[p] = c)
             new  == [NoJob EXCEPT !.call = c, !.own = mine]
  <2>2. job' = [job EXCEPT ![p] = new] /\ mine \in BOOLEAN
    BY DEF JobOf, BeginEnd
  <2> HIDE DEF mine
  <2>3. new.own = mine /\ new = [x \in {"call", "own", "i", "target", "saw"} |-> new[x]]
    BY DEF NoJob
  <2> HIDE DEF new
  <2>4. JobShape'
    BY <2>2, <2>3 DEF IInv, Shape, JobShape
  <2> QED
    BY <2>1, <2>4 DEF IInv, Shape
<1>2. Owns(p)'
  BY <1>1, LiveCaptureConstants DEF IInv, Shape, JobShape, Owns, Holds, Ending, Goto, JobOf, NoJob, BeginEnd
<1>3. stray' \/ Holds(p)'
  BY LiveCaptureConstants DEF IInv, Shape, JobShape, Owns, Holds, Ending, Goto, JobOf, NoJob, BeginEnd
<1>4. \A q \in Procs : q # p => at'[q] = at[q] /\ job'[q] = job[q] /\ session'[q] = session[q]
  BY DEF IInv, Shape, JobShape, Goto, JobOf, NoJob, BeginEnd
<1> QED
  BY <1>1, <1>2, <1>3, <1>4, OneMoves

LEMMA StartFailsKeeps == ASSUME IInv, NEW p \in Procs, StartFails(p) PROVE IInv'
<1>1. Shape'
  BY DEF IInv, Shape, JobShape, Places, Ending, StartFails, Goto, JobOf, NoJob
<1>2. Owns(p)'
  BY <1>1, LiveCaptureConstants DEF IInv, Shape, JobShape, Owns, Holds, Ending, StartFails, Goto, JobOf, NoJob
<1>3. stray' \/ Holds(p)'
  BY LiveCaptureConstants DEF IInv, Shape, JobShape, Owns, Holds, Ending, StartFails, Goto, JobOf, NoJob
<1>4. /\ stray => stray'
      /\ \A q \in Procs : q # p => at'[q] = at[q] /\ job'[q] = job[q] /\ session'[q] = session[q]
      /\ \A c \in Calls : capt'[c] \in {capt[c], p, NoProc}
  BY DEF IInv, Shape, JobShape, StartFails, Goto, JobOf, NoJob
<1> QED
  BY <1>1, <1>2, <1>3, <1>4, OneMoves

LEMMA StartedLostKeeps == ASSUME IInv, NEW p \in Procs, StartedLost(p) PROVE IInv'
<1>1. Shape'
  BY DEF IInv, Shape, JobShape, Places, Ending, StartedLost, Goto, JobOf, NoJob
<1>2. Owns(p)'
  BY <1>1, LiveCaptureConstants DEF IInv, Shape, JobShape, Owns, Holds, Ending, StartedLost, Goto, JobOf, NoJob
<1>3. stray' \/ Holds(p)'
  BY LiveCaptureConstants DEF IInv, Shape, JobShape, Owns, Holds, Ending, StartedLost, Goto, JobOf, NoJob
<1>4. /\ stray => stray'
      /\ \A q \in Procs : q # p => at'[q] = at[q] /\ job'[q] = job[q] /\ session'[q] = session[q]
      /\ \A c \in Calls : capt'[c] \in {capt[c], p, NoProc}
  BY DEF IInv, Shape, JobShape, StartedLost, Goto, JobOf, NoJob
<1> QED
  BY <1>1, <1>2, <1>3, <1>4, OneMoves

LEMMA TroubleKeeps == ASSUME IInv, NEW p \in Procs, Trouble(p) PROVE IInv'
BY RaisedKeeps DEF Trouble

LEMMA CrashKeeps == ASSUME IInv, NEW p \in Procs, Crash(p) PROVE IInv'
<1>1. Shape'
  BY DEF IInv, Shape, JobShape, Places, Ending, Crash, Goto, JobOf, NoJob
<1>2. Owns(p)'
  BY <1>1, LiveCaptureConstants DEF IInv, Shape, JobShape, Owns, Holds, Ending, Crash, Goto, JobOf, NoJob
<1>3. stray' \/ Holds(p)'
  BY LiveCaptureConstants DEF IInv, Shape, JobShape, Owns, Holds, Ending, Crash, Goto, JobOf, NoJob
<1>4. /\ stray => stray'
      /\ \A q \in Procs : q # p => at'[q] = at[q] /\ job'[q] = job[q] /\ session'[q] = session[q]
      /\ \A c \in Calls : capt'[c] \in {capt[c], p, NoProc}
  BY DEF IInv, Shape, JobShape, Crash, Goto, JobOf, NoJob
<1> QED
  BY <1>1, <1>2, <1>3, <1>4, OneMoves

LEMMA StartCaptureKeeps == ASSUME IInv, NEW p \in Procs, StartCapture(p) PROVE IInv'
<1>1. Shape'
  BY DEF IInv, Shape, JobShape, Places, Ending, StartCapture, Goto, JobOf
<1>2. Owns(p)'
  BY <1>1, LiveCaptureConstants DEF IInv, Shape, JobShape, Owns, Holds, Ending, StartCapture, Goto, JobOf
<1>3. stray' \/ Holds(p)'
  BY LiveCaptureConstants DEF IInv, Shape, JobShape, Owns, Holds, Ending, StartCapture, Goto, JobOf
<1>4. /\ stray => stray'
      /\ \A q \in Procs : q # p => at'[q] = at[q] /\ job'[q] = job[q] /\ session'[q] = session[q]
      /\ \A c \in Calls : capt'[c] \in {capt[c], p, NoProc}
  BY DEF IInv, Shape, JobShape, StartCapture, Goto, JobOf
<1> QED
  BY <1>1, <1>2, <1>3, <1>4, OneMoves

LEMMA StartedKeeps == ASSUME IInv, NEW p \in Procs, Started(p) PROVE IInv'
<1>1. Shape'
  BY LiveCaptureConstants, ZenonT(40) DEF IInv, Shape, JobShape, Owns, Places, Ending, Started, Goto, JobOf, NoJob
<1>2. Owns(p)'
  BY <1>1, LiveCaptureConstants DEF IInv, Shape, JobShape, Owns, Holds, Ending, Started, Goto, JobOf, NoJob
<1>3. stray' \/ Holds(p)'
  BY LiveCaptureConstants DEF IInv, Shape, JobShape, Owns, Holds, Ending, Started, Goto, JobOf, NoJob
<1>4. /\ stray => stray'
      /\ \A q \in Procs : q # p => at'[q] = at[q] /\ job'[q] = job[q] /\ session'[q] = session[q]
      /\ \A c \in Calls : capt'[c] \in {capt[c], p, NoProc}
  BY DEF IInv, Shape, JobShape, Started, Goto, JobOf, NoJob
<1> QED
  BY <1>1, <1>2, <1>3, <1>4, OneMoves

LEMMA StopCaptureKeeps == ASSUME IInv, NEW p \in Procs, StopCapture(p) PROVE IInv'
<1>1. Shape'
  BY DEF IInv, Shape, JobShape, Places, Ending, StopCapture, Goto, JobOf
<1>2. Owns(p)'
  BY <1>1, LiveCaptureConstants DEF IInv, Shape, JobShape, Owns, Holds, Ending, StopCapture, Goto, JobOf
<1>3. stray' \/ Holds(p)'
  BY LiveCaptureConstants DEF IInv, Shape, JobShape, Owns, Holds, Ending, StopCapture, Goto, JobOf
<1>4. /\ stray => stray'
      /\ \A q \in Procs : q # p => at'[q] = at[q] /\ job'[q] = job[q] /\ session'[q] = session[q]
      /\ \A c \in Calls : capt'[c] \in {capt[c], p, NoProc}
  BY DEF IInv, Shape, JobShape, StopCapture, Goto, JobOf
<1> QED
  BY <1>1, <1>2, <1>3, <1>4, OneMoves

LEMMA ReadCallKeeps == ASSUME IInv, NEW p \in Procs, ReadCall(p) PROVE IInv'
<1>1. Shape'
  BY ZenonT(40) DEF IInv, Shape, JobShape, Places, Ending, ReadCall, Goto, JobOf
<1>2. Owns(p)'
  BY <1>1, LiveCaptureConstants DEF IInv, Shape, JobShape, Owns, Holds, Ending, ReadCall, Goto, JobOf
<1>3. stray' \/ Holds(p)'
  BY LiveCaptureConstants DEF IInv, Shape, JobShape, Owns, Holds, Ending, ReadCall, Goto, JobOf
<1>4. /\ stray => stray'
      /\ \A q \in Procs : q # p => at'[q] = at[q] /\ job'[q] = job[q] /\ session'[q] = session[q]
      /\ \A c \in Calls : capt'[c] \in {capt[c], p, NoProc}
  BY DEF IInv, Shape, JobShape, ReadCall, Goto, JobOf
<1> QED
  BY <1>1, <1>2, <1>3, <1>4, OneMoves

LEMMA MeasureKeeps == ASSUME IInv, NEW p \in Procs, Measure(p) PROVE IInv'
<1>1. CASE Target(job[p].call) = 0
  <2>1. Finalized(p) /\ job' = job /\ at[p] = "measure" /\ UNCHANGED <<capt, orphans, stray>>
    BY <1>1 DEF Measure
  <2> QED
    BY <2>1, FinalizedKeeps DEF Ending
<1>2. CASE Target(job[p].call) # 0
  <2>1. PICK t, m, new : /\ m = [job[p] EXCEPT !.i = 1]
                         /\ new = [m EXCEPT !.target = t]
                         /\ JobOf(p, new) /\ Goto(p, "convert") /\ at[p] = "measure"
                         /\ UNCHANGED <<capt, orphans, stray, session>>
    BY <1>2 DEF Measure
  <2>2. m = [call |-> job[p].call, own |-> job[p].own, i |-> m.i, target |-> m.target,
             saw |-> job[p].saw]
    BY <2>1 DEF IInv, Shape, JobShape
  <2>3. new = [call |-> job[p].call, own |-> job[p].own, i |-> new.i, target |-> new.target,
               saw |-> job[p].saw]
    BY <2>1, <2>2
  <2> QED
    BY <2>1, <2>3, KeepsOnEnding DEF Ending
<1> QED
  BY <1>1, <1>2

LEMMA ConvertKeeps == ASSUME IInv, NEW p \in Procs, Convert(p) PROVE IInv'
<1>1. Shape'
  <2>1. at' \in [Procs -> Places]
    BY DEF IInv, Shape, Places, Ending, Convert, Goto, NextName
  <2>2. JobShape'
    <3> DEFINE next == [job[p] EXCEPT !.i = @ + 1]
    <3>1. job' = job \/ job' = [job EXCEPT ![p] = next]
      BY DEF Convert, JobOf, NextName
    <3>2. /\ next.own = job[p].own /\ job[p].own \in BOOLEAN
          /\ next = [x \in {"call", "own", "i", "target", "saw"} |-> next[x]]
      BY DEF IInv, Shape, JobShape
    <3> HIDE DEF next
    <3> QED
      BY <3>1, <3>2, SMTT(30) DEF IInv, Shape, JobShape
  <2>3. UNCHANGED <<capt, session, orphans>>
    BY DEF Convert
  <2> QED
    BY <2>1, <2>2, <2>3 DEF IInv, Shape
<1>2. Owns(p)'
  BY <1>1, LiveCaptureConstants DEF IInv, Shape, JobShape, Owns, Holds, Ending, Convert, Goto, JobOf, NextName
<1>3. stray' \/ Holds(p)'
  BY LiveCaptureConstants DEF IInv, Shape, JobShape, Owns, Holds, Ending, Convert, Goto, JobOf, NextName
<1>4. /\ stray => stray'
      /\ \A q \in Procs : q # p => at'[q] = at[q] /\ job'[q] = job[q] /\ session'[q] = session[q]
      /\ \A c \in Calls : capt'[c] \in {capt[c], p, NoProc}
  BY DEF IInv, Shape, JobShape, Convert, Goto, JobOf, NextName
<1> QED
  BY <1>1, <1>2, <1>3, <1>4, OneMoves

LEMMA UnlinkKeeps == ASSUME IInv, NEW p \in Procs, Unlink(p) PROVE IInv'
<1>1. CASE pcm[job[p].call][Order[job[p].i]] = None
  <2>1. Raised(p) /\ at[p] = "unlink" /\ UNCHANGED <<capt, stray>>
    BY <1>1 DEF Unlink
  <2> QED
    BY <2>1, RaisedKeeps DEF Ending
<1>2. CASE pcm[job[p].call][Order[job[p].i]] # None
  <2>1. NextName(p) /\ at[p] = "unlink" /\ UNCHANGED <<capt, orphans, stray, session>>
    BY <1>2 DEF Unlink
  <2> DEFINE new == [job[p] EXCEPT !.i = @ + 1]
  <2>2. JobOf(p, new) /\ Goto(p, "convert")
    BY <2>1 DEF NextName
  <2>3. new = [call |-> job[p].call, own |-> job[p].own, i |-> new.i, target |-> new.target,
               saw |-> job[p].saw]
    BY DEF IInv, Shape, JobShape
  <2> HIDE DEF new
  <2> QED
    BY <2>1, <2>2, <2>3, KeepsOnEnding DEF Ending
<1> QED
  BY <1>1, <1>2

LEMMA WriteEndKeeps == ASSUME IInv, NEW p \in Procs, WriteEnd(p) PROVE IInv'
<1>1. Shape'
  BY DEF IInv, Shape, JobShape, Places, Ending, WriteEnd, Goto, JobOf
<1>2. Owns(p)'
  BY <1>1, LiveCaptureConstants DEF IInv, Shape, JobShape, Owns, Holds, Ending, WriteEnd, Goto, JobOf
<1>3. stray' \/ Holds(p)'
  BY LiveCaptureConstants DEF IInv, Shape, JobShape, Owns, Holds, Ending, WriteEnd, Goto, JobOf
<1>4. /\ stray => stray'
      /\ \A q \in Procs : q # p => at'[q] = at[q] /\ job'[q] = job[q] /\ session'[q] = session[q]
      /\ \A c \in Calls : capt'[c] \in {capt[c], p, NoProc}
  BY DEF IInv, Shape, JobShape, WriteEnd, Goto, JobOf
<1> QED
  BY <1>1, <1>2, <1>3, <1>4, OneMoves

LEMMA Next1Keeps == ASSUME IInv, NEW p \in Procs, Next1(p) PROVE IInv'
<1>1. CASE orphans[p] = {}
  <2>1. Goto(p, "idle") /\ JobOf(p, NoJob) /\ UNCHANGED <<capt, orphans, stray, session>>
        /\ at[p] = "next"
    BY <1>1 DEF Next1
  <2>2. Shape'
    BY <2>1 DEF IInv, Shape, JobShape, Places, Goto, JobOf, NoJob
  <2>3. Owns(p)' /\ (stray' \/ Holds(p)')
    BY <2>1 DEF IInv, Shape, JobShape, Owns, Holds, Ending, Goto, JobOf
  <2> QED
    BY <2>1, <2>2, <2>3, OneMoves DEF IInv, Shape, JobShape, Goto, JobOf
<1>2. CASE orphans[p] # {}
  <2>1. PICK c \in orphans[p] : orphans' = [orphans EXCEPT ![p] = @ \ {c}] /\ BeginEnd(p, c)
    BY <1>2 DEF Next1
  <2>2. c \in Calls /\ at[p] = "next" /\ UNCHANGED <<capt, session, stray>>
    BY <2>1 DEF Next1, IInv, Shape
  <2>3. orphans' \in [Procs -> SUBSET Calls]
    BY <2>1 DEF IInv, Shape
  <2> QED
    BY <2>1, <2>2, <2>3, BeginKeeps
<1> QED
  BY <1>1, <1>2

LEMMA BootKeeps == ASSUME IInv, NEW p \in Procs, Boot(p) PROVE IInv'
<1>1. Shape'
  BY DEF IInv, Shape, JobShape, Places, Ending, Boot, Goto, JobOf
<1>2. Owns(p)'
  BY <1>1, LiveCaptureConstants DEF IInv, Shape, JobShape, Owns, Holds, Ending, Boot, Goto, JobOf
<1>3. stray' \/ Holds(p)'
  BY LiveCaptureConstants DEF IInv, Shape, JobShape, Owns, Holds, Ending, Boot, Goto, JobOf
<1>4. /\ stray => stray'
      /\ \A q \in Procs : q # p => at'[q] = at[q] /\ job'[q] = job[q] /\ session'[q] = session[q]
      /\ \A c \in Calls : capt'[c] \in {capt[c], p, NoProc}
  BY DEF IInv, Shape, JobShape, Boot, Goto, JobOf
<1> QED
  BY <1>1, <1>2, <1>3, <1>4, OneMoves

LEMMA StartKeeps == ASSUME IInv, NEW p \in Procs, NEW c \in Calls, Start(p, c) PROVE IInv'
<1>1. Shape'
  BY DEF IInv, Shape, JobShape, Places, Ending, Start, Goto, JobOf, NoJob, Free
<1>2. Owns(p)'
  BY <1>1, LiveCaptureConstants DEF IInv, Shape, JobShape, Owns, Holds, Ending, Start, Goto, JobOf, NoJob, Free
<1>3. stray' \/ Holds(p)'
  BY LiveCaptureConstants DEF IInv, Shape, JobShape, Owns, Holds, Ending, Start, Goto, JobOf, NoJob, Free
<1>4. /\ stray => stray'
      /\ \A q \in Procs : q # p => at'[q] = at[q] /\ job'[q] = job[q] /\ session'[q] = session[q]
      /\ \A d \in Calls : capt'[d] \in {capt[d], p, NoProc}
  BY DEF IInv, Shape, JobShape, Start, Goto, JobOf, NoJob, Free
<1> QED
  BY <1>1, <1>2, <1>3, <1>4, OneMoves

LEMMA StopKeeps == ASSUME IInv, NEW p \in Procs, NEW c \in Calls, Stop(p, c) PROVE IInv'
BY BeginKeeps DEF Stop, IInv, Shape

LEMMA FinishArchiveKeeps == ASSUME IInv, NEW p \in Procs, FinishArchive(p) PROVE IInv'
BY FinalizedKeeps DEF FinishArchive, Ending

----------------------------------------------------------------------------
LEMMA StepIInv == IInv /\ [Next]_vars => IInv'
<1> SUFFICES ASSUME IInv, [Next]_vars PROVE IInv'
  OBVIOUS
<1>1. CASE UNCHANGED vars
  BY <1>1 DEF vars, IInv, Shape, JobShape, Owns, Holds
<1>2. ASSUME NEW c \in Calls, NEW n \in Names, NEW len \in 0..MaxLen, Record(c, n, len)
      PROVE  IInv'
  BY <1>2 DEF Record, IInv, Shape, JobShape, Owns, Holds
<1>3. ASSUME NEW c \in Calls, Process(c) PROVE IInv'
  BY <1>3 DEF Process, IInv, Shape, JobShape, Owns, Holds
<1>4. ASSUME NEW p \in Procs, Step(p) PROVE IInv'
  BY <1>4, StartCaptureKeeps, StartedKeeps, StopCaptureKeeps, ReadCallKeeps, MeasureKeeps,
     ConvertKeeps, UnlinkKeeps, FinishArchiveKeeps, WriteEndKeeps, Next1Keeps, BootKeeps DEF Step
<1>5. ASSUME NEW p \in Procs,
             StartFails(p) \/ StartedLost(p) \/ Trouble(p) \/ Crash(p)
      PROVE  IInv'
  BY <1>5, StartFailsKeeps, StartedLostKeeps, TroubleKeeps, CrashKeeps
<1>6. ASSUME NEW p \in Procs, NEW c \in Calls, Start(p, c) \/ Stop(p, c) PROVE IInv'
  BY <1>6, StartKeeps, StopKeeps
<1> QED
  BY <1>1, <1>2, <1>3, <1>4, <1>5, <1>6 DEF Next

LEMMA IInvOneCapture == IInv => OneUnlessStray
<1> SUFFICES ASSUME IInv, ~stray, NEW c \in Calls, NEW d \in Calls,
                    capt[c] = capt[d], capt[c] # NoProc
             PROVE  c = d
  BY DEF OneUnlessStray, OneCapture
<1>1. capt[c] \in Procs
  BY DEF IInv, Shape
<1>2. /\ Holds(capt[c]) /\ Owns(capt[c])
  BY <1>1 DEF IInv
<1> QED
  BY <1>1, <1>2, LiveCaptureConstants DEF Holds, Owns

(* One capture at a time: whatever crashes, raises or is pressed, and      *)
(* however many processes record, a manager that lost none of its captures *)
(* runs at most one (LiveManager.start_call, stop_call).                   *)
THEOREM OneCaptureAtATime == Spec => []OneUnlessStray
<1>1. Spec => []IInv
  BY InitIInv, StepIInv, PTL DEF Spec
<1> QED
  BY <1>1, IInvOneCapture, PTL

----------------------------------------------------------------------------
(* The audio of a call, in a server that runs alone.                       *)
USE DEF None

Alone == Recorders = {}
Place == at[Server]
Mine  == job[Server]
Converting == {"measure", "convert", "unlink"}

Files ==
    /\ wf \in [Calls -> States]
    /\ ended \in [Calls -> {"no", "queued", "handled"}]
    /\ pcm \in [Calls -> [Names -> Lengths]] /\ flac \in [Calls -> [Names -> Lengths]]
    /\ written \in [Calls -> [Names -> 0..MaxLen]]
    /\ open \in [Calls -> SUBSET Names]

Aim ==
    /\ Mine.target \in 0..MaxLen
    /\ Place \in {"convert", "unlink"} => Mine.i \in 1..3
    /\ Place = "unlink" => Mine.i # 3

(* Where a call is in its life, and what the operation under way knows.    *)
CallLedger(c) ==
    /\ (wf[c] = "captured") <=> (ended[c] = "queued")
    /\ (wf[c] = "processed") <=> (ended[c] = "handled")
    /\ session[Server] = c => wf[c] = "live"
    /\ c \in orphans[Server] => wf[c] # "none"

JobLedger ==
    /\ Place \in {"starting", "started", "stopping"} => wf[Mine.call] = "live"
    /\ Place = "reading" => wf[Mine.call] # "none"
    /\ Place \in Ending /\ Mine.own => wf[Mine.call] = "live"
    /\ Place \in {"reading", "writing"} /\ Mine.own => session[Server] = NoCall
    /\ Place \in Ending /\ ~Mine.own => session[Server] # Mine.call
    /\ (Place \in Converting /\ ~Mine.own) \/ Place = "writing" =>
            /\ (Mine.saw = "live") <=> (wf[Mine.call] = "live")
            /\ wf[Mine.call] \in {"live", "captured", "processed"}

(* How long both channels of a call are to be.                             *)
Top(c, t) ==
    /\ 0 <= t /\ \A n \in Names : LengthOf(c, n) <= t
    /\ t = 0 \/ \E n \in Names : t = LengthOf(c, n)

(* What is recorded is in the PCM while there is one, and in a FLAC of the *)
(* final length once there is none; the conversion begins after the        *)
(* capture, and is over when the worker is told.                           *)
Kept(c) ==
    /\ capt[c] = NoProc => open[c] = {}
    /\ capt[c] # NoProc => \A n \in open[c] : pcm[c][n] # None
    /\ capt[c] # NoProc \/ wf[c] = "none" => flac[c] = Nothing
    /\ ended[c] # "no" => \A n \in Names : pcm[c][n] = None
    /\ \A n \in Names :
        /\ pcm[c][n] # None => 1 <= pcm[c][n] /\ written[c][n] <= pcm[c][n]
        /\ pcm[c][n] = None => written[c][n] <= flac[c][n] \/ written[c][n] = 0
        /\ pcm[c][n] = None /\ flac[c][n] # None => Top(c, flac[c][n])

(* How far the conversion has come.                                        *)
Progress ==
    /\ Place = "starting" => flac[Mine.call] = Nothing
    /\ Place \in Converting => ended[Mine.call] = "no"
    /\ Place \in {"convert", "unlink"} =>
            /\ Top(Mine.call, Mine.target)
            /\ \A k \in 1..2 : k < Mine.i => pcm[Mine.call][Order[k]] = None
    /\ Place = "unlink" => flac[Mine.call][Order[Mine.i]] = Mine.target
    /\ (Place = "reading" /\ Mine.own) \/ Place = "writing" =>
            \A n \in Names : pcm[Mine.call][n] = None

Whole ==
    /\ Files /\ Aim /\ JobLedger
    /\ \A c \in Calls : CallLedger(c)
    /\ ~stray => Progress /\ \A c \in Calls : Kept(c)

LEMMA InitWhole == Init => Whole
<1> SUFFICES ASSUME Init PROVE Whole
  OBVIOUS
<1>1. Mine = NoJob /\ Place = "down"
  BY DEF Init, Place, Mine, Procs
<1>2. Nothing \in [Names -> Lengths] /\ 0 \in 0..MaxLen
  BY LiveCaptureConstants DEF Nothing, Lengths
<1>3. Files
  BY <1>2 DEF Init, Files, States
<1>4. Aim /\ JobLedger /\ Progress
  BY <1>1, <1>2 DEF Aim, JobLedger, Progress, NoJob, Ending, Converting
<1>5. \A c \in Calls : CallLedger(c)
  BY LiveCaptureConstants DEF Init, CallLedger, Procs
<1>6. \A c \in Calls : Kept(c)
  BY DEF Init, Kept, Nothing
<1> QED
  BY <1>3, <1>4, <1>5, <1>6 DEF Whole

(* The longest of a set of lengths, and the length Measure aims at.        *)
LEMMA MaxIs ==
  ASSUME NEW S \in SUBSET Int, NEW m \in S, \A x \in S : m >= x
  PROVE  Max(S) = m
<1>1. PICK x \in S : x = Max(S) /\ \A y \in S : x >= y
  BY Zenon DEF Max
<1>2. m >= x /\ x >= m
  BY <1>1
<1> QED
  BY <1>1, <1>2

LEMMA MaxOfTwo ==
  ASSUME NEW a \in Int, NEW b \in Int
  PROVE  Max({a, b}) = IF a >= b THEN a ELSE b
<1> DEFINE S == {a, b}
<1>1. S \in SUBSET Int /\ a \in S /\ b \in S
  OBVIOUS
<1>2. CASE a >= b
  <2>1. \A x \in S : a >= x
    BY <1>2
  <2> HIDE DEF S
  <2>2. Max(S) = a
    BY <1>1, <2>1, MaxIs
  <2> QED
    BY <1>2, <2>2 DEF S
<1>3. CASE ~(a >= b)
  <2>1. \A x \in S : b >= x
    BY <1>3
  <2> HIDE DEF S
  <2>2. Max(S) = b
    BY <1>1, <2>1, MaxIs
  <2> QED
    BY <1>3, <2>2 DEF S
<1> QED
  BY <1>2, <1>3

LEMMA TargetIsTop ==
  ASSUME Files, NEW c \in Calls
  PROVE  Target(c) \in 0..MaxLen /\ Top(c, Target(c))
<1> DEFINE S == {LengthOf(c, n) : n \in Names} \cup {0}
<1>1. \A n \in Names : LengthOf(c, n) \in Lengths
  BY DEF Files, LengthOf
<1>2. S = {LengthOf(c, "me"), LengthOf(c, "them"), 0}
  BY DEF Names
<1>3. {LengthOf(c, "me"), LengthOf(c, "them"), 0} \subseteq Int
  BY <1>1, LiveCaptureConstants DEF Lengths, Names
<1>4. PICK m \in S : \A x \in S : m >= x
  BY <1>2, <1>3
<1>5. Max(S) = m
  BY <1>2, <1>3, <1>4, MaxIs
<1>6. Target(c) = m
  BY <1>5 DEF Target
<1> QED
  BY <1>1, <1>2, <1>4, <1>6, LiveCaptureConstants DEF Top, Names, Lengths

(* A step that touches no file and no row leaves the calls as they are.    *)
LEMMA Untouched ==
  ASSUME Whole, UNCHANGED <<wf, ended, files, written, open, capt>>, stray => stray'
  PROVE  Files' /\ (~stray' => \A c \in Calls : Kept(c)')
<1>1. Files'
  BY DEF Whole, Files, files
<1>2. \A c \in Calls : Kept(c) => Kept(c)'
  BY DEF Kept, Top, LengthOf, files
<1> QED
  BY <1>1, <1>2 DEF Whole

(* What a call being recorded is, and that nobody is ending it.            *)
LEMMA Recorded ==
  ASSUME Alone, IInv, Whole, ~stray, NEW c \in Calls, capt[c] # NoProc
  PROVE  /\ wf[c] = "live" /\ ended[c] = "no"
         /\ ~(Place \in Ending \cup {"starting"} /\ Mine.call = c)
<1>1. capt[c] = Server /\ Server \in Procs
  BY DEF IInv, Shape, Alone, Procs
<1>2. session[Server] = c \/ (Place = "started" /\ Mine.call = c)
  <2>1. Holds(Server)
    BY <1>1 DEF IInv
  <2> QED
    BY <1>1, <2>1 DEF Holds, Place, Mine
<1>3. Files /\ CallLedger(c)
  BY DEF Whole
<1>4. wf[c] = "live"
  BY <1>2, <1>3 DEF Whole, JobLedger, CallLedger
<1>5. ended[c] = "no"
  BY <1>3, <1>4 DEF Files, CallLedger
<1>6. ~(Place \in Ending \cup {"starting"} /\ Mine.call = c)
  BY <1>1, <1>2, LiveCaptureConstants DEF IInv, Owns, Whole, JobLedger, Place, Mine, Ending
<1> QED
  BY <1>4, <1>5, <1>6

LEMMA MovesOn ==
  ASSUME IInv, NEW place, NEW new
  PROVE  /\ Goto(Server, place) => Place' = place
         /\ JobOf(Server, new) => Mine' = new
BY DEF IInv, Shape, JobShape, Goto, JobOf, Place, Mine, Procs

(* Starting a call.                                                        *)
LEMMA StartWhole ==
  ASSUME Alone, IInv, Whole, NEW c \in Calls, Start(Server, c)
  PROVE  Whole'
<1>1. Place' = "starting" /\ Mine' = [NoJob EXCEPT !.call = c]
  BY MovesOn DEF Start
<1>2. Mine'.call = c /\ Mine'.target = 0
  BY <1>1 DEF NoJob
<1>3. Files' /\ Aim'
  BY <1>1, <1>2, LiveCaptureConstants DEF Whole, Files, Aim, Start, States, files
<1>4. JobLedger'
  BY <1>1, <1>2 DEF Whole, Files, JobLedger, Start, Ending, Converting
<1>5. ASSUME NEW d \in Calls PROVE CallLedger(d)'
  BY <1>5, LiveCaptureConstants DEF Whole, Files, CallLedger, Start, Free
<1>6. ASSUME ~stray PROVE Progress' /\ \A d \in Calls : Kept(d)'
  <2>1. flac[c] = Nothing
    BY <1>6 DEF Whole, Kept, Start
  <2>2. Progress'
    BY <1>1, <1>2, <2>1 DEF Progress, Start, Converting, files
  <2>3. ASSUME NEW d \in Calls PROVE Kept(d)'
    BY <1>6, <2>3 DEF Whole, Files, Kept, Top, LengthOf, Start, files
  <2> QED
    BY <2>2, <2>3
<1> QED
  BY <1>3, <1>4, <1>5, <1>6 DEF Whole, Start

LEMMA StartFailsWhole ==
  ASSUME Alone, IInv, Whole, StartFails(Server)
  PROVE  Whole'
<1>0. Mine.call \in Calls /\ wf[Mine.call] = "live" /\ session[Server] = NoCall
  BY DEF IInv, Owns, Procs, StartFails, Place, Mine, Whole, JobLedger
<1>1. Place' = "idle" /\ Mine' = NoJob
  BY MovesOn DEF StartFails
<1>2. Files' /\ Aim' /\ JobLedger'
  <2>1. Files'
    BY DEF Whole, Files, StartFails, States, files
  <2>2. Aim' /\ JobLedger'
    BY <1>1, LiveCaptureConstants DEF Aim, JobLedger, NoJob, Ending, Converting
  <2> QED
    BY <2>1, <2>2
<1>3. ASSUME NEW d \in Calls PROVE CallLedger(d)'
  BY <1>0, <1>3, LiveCaptureConstants DEF Whole, Files, CallLedger, StartFails, Mine
<1>4. ASSUME ~stray PROVE Progress' /\ \A d \in Calls : Kept(d)'
  <2>1. Progress'
    BY <1>1 DEF Progress, Converting
  <2>2. ASSUME NEW d \in Calls PROVE Kept(d)'
    BY <1>0, <1>4, <2>2 DEF Whole, Files, Kept, Top, LengthOf, StartFails, files, Mine
  <2> QED
    BY <2>1, <2>2
<1> QED
  BY <1>2, <1>3, <1>4 DEF Whole, StartFails

LEMMA StartCaptureWhole ==
  ASSUME Alone, IInv, Whole, StartCapture(Server)
  PROVE  Whole'
<1>0. Mine.call \in Calls /\ wf[Mine.call] = "live" /\ Mine' = Mine
  BY DEF IInv, Owns, Procs, StartCapture, Place, Mine, Whole, JobLedger
<1>1. Place' = "started"
  BY MovesOn DEF StartCapture
<1>2. Files' /\ Aim' /\ JobLedger'
  BY <1>0, <1>1 DEF Whole, Files, Aim, JobLedger, StartCapture, files, Ending, Converting
<1>3. ASSUME NEW d \in Calls PROVE CallLedger(d)'
  BY <1>3 DEF Whole, CallLedger, StartCapture
<1>4. ASSUME ~stray PROVE Progress' /\ \A d \in Calls : Kept(d)'
  <2>1. Progress'
    BY <1>1 DEF Progress, Converting
  <2>2. capt[Mine.call] = NoProc /\ flac[Mine.call] = Nothing
    BY <1>0, <1>4, Recorded DEF Whole, Progress, StartCapture, Place
  <2>3. ASSUME NEW d \in Calls PROVE Kept(d)'
    <3>1. CASE d = Mine.call
      BY <1>0, <1>4, <2>2, <3>1 DEF Whole, IInv, Shape, Kept, Top, LengthOf, StartCapture, files, Mine
    <3>2. CASE d # Mine.call
      BY <1>0, <1>4, <3>2 DEF Whole, IInv, Shape, Kept, Top, LengthOf, StartCapture, files, Mine
    <3> QED
      BY <3>1, <3>2
  <2> QED
    BY <2>1, <2>3
<1> QED
  BY <1>2, <1>3, <1>4 DEF Whole, StartCapture

LEMMA StartedWhole ==
  ASSUME Alone, IInv, Whole, Started(Server)
  PROVE  Whole'
<1>0. Mine.call \in Calls /\ wf[Mine.call] = "live"
  BY DEF IInv, Owns, Procs, Started, Place, Mine, Whole, JobLedger
<1>1. Place' = "idle" /\ Mine' = NoJob
  BY MovesOn DEF Started
<1>2. Aim' /\ JobLedger' /\ Progress'
  BY <1>1, LiveCaptureConstants DEF Aim, JobLedger, Progress, NoJob, Ending, Converting
<1>3. ASSUME NEW d \in Calls PROVE CallLedger(d)'
  BY <1>0, <1>3 DEF IInv, Shape, Procs, Whole, CallLedger, Started, Mine
<1> QED
  BY <1>2, <1>3, Untouched DEF Whole, Started

LEMMA StartedLostWhole ==
  ASSUME Alone, IInv, Whole, StartedLost(Server)
  PROVE  Whole'
<1>1. Place' = "idle" /\ Mine' = NoJob
  BY MovesOn DEF StartedLost
<1>2. Aim' /\ JobLedger'
  BY <1>1, LiveCaptureConstants DEF Aim, JobLedger, NoJob, Ending, Converting
<1>3. \A d \in Calls : CallLedger(d)'
  BY DEF Whole, CallLedger, StartedLost
<1> QED
  BY <1>2, <1>3, Untouched DEF Whole, StartedLost

(* A frame is written to the file of its channel.                          *)
LEMMA RecordWhole ==
  ASSUME Alone, IInv, Whole, NEW c \in Calls, NEW n \in Names, NEW len \in 0..MaxLen, Record(c, n, len)
  PROVE  Whole'
<1>0. Place' = Place /\ Mine' = Mine /\ len \in Lengths
  BY LiveCaptureConstants DEF Record, Place, Mine, Lengths
<1>1. Files'
  BY <1>0 DEF Whole, Files, Record
<1>2. Aim' /\ JobLedger' /\ \A d \in Calls : CallLedger(d)'
  BY <1>0 DEF Whole, Aim, JobLedger, CallLedger, Record
<1>3. ASSUME ~stray PROVE Progress' /\ \A d \in Calls : Kept(d)'
  <2>1. /\ wf[c] = "live" /\ ended[c] = "no" /\ capt[c] # NoProc
        /\ ~(Place \in Ending \cup {"starting"} /\ Mine.call = c)
    BY <1>3, Recorded DEF Record
  <2>2. /\ pcm' = [pcm EXCEPT ![c][n] = len] /\ written' = [written EXCEPT ![c][n] = len]
        /\ written[c][n] \in Nat /\ len > written[c][n]
        /\ open' = [open EXCEPT ![c] = @ \cup {n}]
    BY <1>3, <2>1 DEF Whole, Files, Kept, Record
  <2>3. ASSUME NEW d \in Calls, d # c PROVE Kept(d)' /\ pcm'[d] = pcm[d]
    BY <1>3, <2>2, <2>3 DEF Whole, Files, Kept, Top, LengthOf, Record
  <2>4. Kept(c)'
    <3>1. flac[c] = Nothing /\ UNCHANGED <<flac, ended, wf, capt>>
      BY <1>3, <2>1 DEF Whole, Kept, Record
    <3>2. pcm'[c] = [pcm[c] EXCEPT ![n] = len] /\ written'[c] = [written[c] EXCEPT ![n] = len]
          /\ open'[c] = open[c] \cup {n}
      BY <2>2 DEF Whole, Files
    <3> QED
      BY <1>3, <2>1, <2>2, <3>1, <3>2 DEF Whole, Files, Kept, Nothing
  <2>5. Progress'
    BY <1>0, <1>3, <2>1, <2>3 DEF IInv, Owns, Procs, Whole, Progress, Place, Mine, Record, Ending,
       Converting, Top, LengthOf
  <2> QED
    BY <2>3, <2>4, <2>5
<1> QED
  BY <1>1, <1>2, <1>3 DEF Whole, Record

(* Ending a call: the beginning, the exception, the end of the conversion. *)
LEMMA BeginWhole ==
  ASSUME IInv, Whole, NEW c \in Calls, wf[c] # "none", BeginEnd(Server, c),
         UNCHANGED <<wf, ended, files, written, open, capt, session, stray>>,
         orphans'[Server] \subseteq orphans[Server]
  PROVE  Whole'
<1>1. PICK own \in BOOLEAN : /\ own <=> session[Server] = c
                             /\ Mine' = [NoJob EXCEPT !.call = c, !.own = own]
  BY MovesOn DEF BeginEnd
<1>2. Place' = IF own THEN "stopping" ELSE "reading"
  BY <1>1, MovesOn DEF BeginEnd
<1>3. Mine'.call = c /\ Mine'.own = own /\ Mine'.target = 0
  BY <1>1 DEF NoJob
<1>4. own => wf[c] = "live"
  BY <1>1 DEF Whole, CallLedger
<1>5. Aim' /\ JobLedger'
  BY <1>1, <1>2, <1>3, <1>4, LiveCaptureConstants DEF Aim, JobLedger, Ending, Converting
<1>6. Progress'
  BY <1>2, <1>3 DEF Progress, Converting
<1>7. \A d \in Calls : CallLedger(d)'
  BY DEF Whole, CallLedger
<1> QED
  BY <1>5, <1>6, <1>7, Untouched DEF Whole

LEMMA RaisedWhole ==
  ASSUME IInv, Whole, Raised(Server), UNCHANGED <<wf, ended, files, written, open, capt, stray>>
  PROVE  Whole'
<1>1. Place' = "idle" /\ Mine' = NoJob
  BY MovesOn DEF Raised
<1>2. Aim' /\ JobLedger' /\ Progress'
  BY <1>1, LiveCaptureConstants DEF Aim, JobLedger, Progress, NoJob, Ending, Converting
<1>3. \A d \in Calls : CallLedger(d)'
  BY LiveCaptureConstants DEF IInv, Shape, Procs, Whole, CallLedger, Raised
<1> QED
  BY <1>2, <1>3, Untouched DEF Whole

LEMMA FinalizedWhole ==
  ASSUME IInv, Whole, Place \in Converting, Finalized(Server), job' = job,
         UNCHANGED <<wf, ended, flac, written, open, capt, orphans, stray>>,
         pcm' \in [Calls -> [Names -> Lengths]],
         ~stray => pcm' = pcm /\ \A n \in Names : pcm[Mine.call][n] = None
  PROVE  Whole'
<1>1. Mine' = Mine /\ Place' = IF Mine.own THEN "reading" ELSE "writing"
  BY MovesOn DEF Finalized, Mine
<1>2. session'[Server] = IF Mine.own THEN NoCall ELSE session[Server]
  BY DEF Finalized, Mine, IInv, Shape, Procs
<1>3. Aim' /\ JobLedger'
  BY <1>1, <1>2 DEF Whole, Aim, JobLedger, Ending, Converting
<1>4. ~stray => Progress'
  BY <1>1 DEF Progress, Converting
<1>5. \A d \in Calls : CallLedger(d)'
  BY <1>2, LiveCaptureConstants DEF Whole, CallLedger
<1>6. Files'
  BY DEF Whole, Files
<1>7. ~stray => \A d \in Calls : Kept(d)'
  BY Untouched DEF files
<1> QED
  BY <1>3, <1>4, <1>5, <1>6, <1>7 DEF Whole

LEMMA StopWhole == ASSUME IInv, Whole, NEW c \in Calls, Stop(Server, c) PROVE Whole'
BY BeginWhole DEF Stop

LEMMA Next1Whole == ASSUME IInv, Whole, Next1(Server) PROVE Whole'
<1>1. CASE orphans[Server] = {}
  <2>1. Goto(Server, "idle") /\ JobOf(Server, NoJob)
        /\ UNCHANGED <<wf, ended, files, written, open, capt, session, orphans, stray>>
    BY <1>1 DEF Next1
  <2>2. Place' = "idle" /\ Mine' = NoJob
    BY <2>1, MovesOn
  <2>3. Aim' /\ JobLedger' /\ Progress'
    BY <2>2, LiveCaptureConstants DEF Aim, JobLedger, Progress, NoJob, Ending, Converting
  <2>4. \A d \in Calls : CallLedger(d)'
    BY <2>1 DEF Whole, CallLedger
  <2> QED
    BY <2>1, <2>3, <2>4, Untouched DEF Whole
<1>2. CASE orphans[Server] # {}
  <2>1. PICK c \in orphans[Server] : /\ orphans' = [orphans EXCEPT ![Server] = @ \ {c}]
                                     /\ BeginEnd(Server, c)
    BY <1>2 DEF Next1
  <2>2. c \in Calls /\ wf[c] # "none" /\ orphans'[Server] \subseteq orphans[Server]
    BY <2>1 DEF IInv, Shape, Procs, Whole, CallLedger
  <2> QED
    BY <2>1, <2>2, BeginWhole DEF Next1
<1> QED
  BY <1>1, <1>2

LEMMA TroubleWhole == ASSUME IInv, Whole, Trouble(Server) PROVE Whole'
BY RaisedWhole DEF Trouble

LEMMA FinishArchiveWhole == ASSUME IInv, Whole, FinishArchive(Server) PROVE Whole'
<1>1. Place = "convert" /\ Mine.i = 3
  BY DEF FinishArchive, Whole, Aim, Place, Mine, Order
<1>2. ASSUME ~stray PROVE \A n \in Names : pcm[Mine.call][n] = None
  BY <1>1, <1>2 DEF Whole, Progress, Order, Names
<1> QED
  BY <1>1, <1>2, FinalizedWhole DEF FinishArchive, Converting, files, Whole, Files

LEMMA StopCaptureWhole ==
  ASSUME Alone, IInv, Whole, StopCapture(Server)
  PROVE  Whole'
<1>0. Mine.call \in Calls /\ wf[Mine.call] = "live" /\ Mine' = Mine /\ Mine.own
  BY DEF IInv, Owns, Procs, StopCapture, Place, Mine, Whole, JobLedger
<1>1. Place' = "measure"
  BY MovesOn DEF StopCapture
<1>2. Files' /\ Aim' /\ JobLedger'
  BY <1>0, <1>1 DEF Whole, Files, Aim, JobLedger, StopCapture, files, Ending, Converting
<1>3. \A d \in Calls : CallLedger(d)'
  BY DEF Whole, CallLedger, StopCapture
<1>4. ASSUME ~stray PROVE Progress' /\ \A d \in Calls : Kept(d)'
  <2>1. ended[Mine.call] = "no"
    BY <1>0 DEF Whole, Files, CallLedger
  <2>2. Progress'
    BY <1>0, <1>1, <2>1 DEF Progress, StopCapture
  <2>3. ASSUME NEW d \in Calls PROVE Kept(d)'
    BY <1>0, <1>4, <2>3 DEF Whole, Files, IInv, Shape, Kept, Top, LengthOf, StopCapture, files, Mine
  <2> QED
    BY <2>2, <2>3
<1> QED
  BY <1>2, <1>3, <1>4 DEF Whole, StopCapture

LEMMA ReadCallWhole == ASSUME IInv, Whole, ReadCall(Server) PROVE Whole'
<1> DEFINE c == Mine.call
<1>0. /\ Place = "reading" /\ c \in Calls /\ wf[c] # "none" /\ wf[c] \in States
      /\ Mine.own => wf[c] = "live" /\ session[Server] = NoCall
      /\ ~Mine.own => session[Server] # c
  BY DEF IInv, Owns, Procs, ReadCall, Place, Mine, Whole, Files, JobLedger, Ending
<1>1. /\ Mine'.call = c /\ Mine'.own = Mine.own /\ Mine'.target = Mine.target /\ Mine'.saw = wf[c]
  <2>1. Mine' = [Mine EXCEPT !.saw = wf[c]]
    BY MovesOn DEF ReadCall, Mine
  <2> QED
    BY <2>1 DEF IInv, Shape, JobShape, Procs, Mine
<1>2. /\ Place' \in {"next", "measure", "writing"}
      /\ wf[c] = "capture_failed" => Place' = "next"
      /\ Place' = "measure" => ~Mine.own /\ Leftover(c)
      /\ Place' = "writing" => Mine.own \/ ~Leftover(c)
  BY MovesOn DEF ReadCall, Mine
<1> HIDE DEF c
<1>3. wf[c] \in {"live", "captured", "processed"} \/ Place' = "next"
  BY <1>0, <1>2 DEF States
<1>4. Aim'
  BY <1>1, <1>2 DEF Whole, Aim
<1>5. JobLedger'
  BY <1>0, <1>1, <1>2, <1>3 DEF JobLedger, ReadCall, Ending, Converting
<1>6. ASSUME ~stray PROVE Progress'
  <2>1. /\ Leftover(c) => ended[c] = "no"
        /\ Mine.own \/ ~Leftover(c) => \A n \in Names : pcm[c][n] = None
    BY <1>0, <1>6 DEF Whole, Kept, Progress, Leftover, c
  <2> QED
    BY <1>1, <1>2, <2>1 DEF Progress, ReadCall, files, Converting
<1>7. \A d \in Calls : CallLedger(d)'
  BY DEF Whole, CallLedger, ReadCall
<1> QED
  BY <1>4, <1>5, <1>6, <1>7, Untouched DEF Whole, ReadCall

LEMMA WriteEndWhole ==
  ASSUME Alone, IInv, Whole, WriteEnd(Server)
  PROVE  Whole'
<1> DEFINE c == Mine.call
<1>0. /\ Place = "writing" /\ c \in Calls /\ session[Server] # c
      /\ (Mine.saw = "live") <=> (wf[c] = "live")
      /\ wf[c] \in {"live", "captured", "processed"}
  BY LiveCaptureConstants DEF IInv, Owns, Procs, WriteEnd, Place, Mine, Whole, JobLedger, Ending
<1>1. Mine' = Mine /\ Place' = "next"
  BY MovesOn DEF WriteEnd, Mine
<1>2. /\ wf' = [wf EXCEPT ![c] = IF wf[c] = "live" THEN "captured" ELSE wf[c]]
      /\ ended' = [ended EXCEPT ![c] = IF ended[c] = "no" THEN "queued" ELSE ended[c]]
  BY <1>0 DEF WriteEnd, NewState, PublishEnded, Mine, Whole, Files
<1> HIDE DEF c
<1>3. Files'
  BY <1>0, <1>2, ZenonT(40) DEF Whole, Files, WriteEnd, States, files
<1>4. Aim' /\ JobLedger'
  BY <1>1 DEF Whole, Aim, JobLedger, Ending, Converting
<1>5. ASSUME NEW d \in Calls PROVE CallLedger(d)'
  BY <1>0, <1>2, <1>5 DEF Whole, Files, CallLedger, WriteEnd
<1>6. ASSUME ~stray PROVE Progress' /\ \A d \in Calls : Kept(d)'
  <2>1. Progress'
    BY <1>1 DEF Progress, Converting
  <2>2. \A n \in Names : pcm[c][n] = None
    BY <1>0, <1>6 DEF Whole, Progress, c
  <2>3. ASSUME NEW d \in Calls PROVE Kept(d)'
    BY <1>0, <1>2, <1>6, <2>2, <2>3 DEF Whole, Files, Kept, Top, LengthOf, WriteEnd, files
  <2> QED
    BY <2>1, <2>3
<1> QED
  BY <1>3, <1>4, <1>5, <1>6 DEF Whole, WriteEnd

(* The conversion.                                                         *)
LEMMA MeasureWhole ==
  ASSUME Alone, IInv, Whole, Measure(Server)
  PROVE  Whole'
<1> DEFINE c == Mine.call
<1>0. Place = "measure" /\ c \in Calls /\ Target(c) \in 0..MaxLen /\ Top(c, Target(c))
  BY TargetIsTop DEF IInv, Owns, Procs, Measure, Place, Mine, Whole, Ending
<1>1. CASE Target(c) = 0
  <2>1. /\ Finalized(Server) /\ job' = job /\ pcm' = [pcm EXCEPT ![c] = Nothing]
        /\ UNCHANGED <<wf, ended, flac, written, open, capt, orphans, stray>>
    BY <1>1 DEF Measure, Mine
  <2>2. Nothing \in [Names -> Lengths]
    BY LiveCaptureConstants DEF Nothing, Lengths
  <2>3. ASSUME ~stray PROVE pcm' = pcm /\ \A n \in Names : pcm[c][n] = None
    <3>1. \A n \in Names : pcm[c][n] = None
      BY <1>0, <1>1, <2>3 DEF Whole, Files, Kept, Top, LengthOf, Lengths
    <3>2. pcm[c] = Nothing
      BY <1>0, <3>1 DEF Whole, Files, Nothing
    <3> QED
      BY <1>0, <2>1, <3>1, <3>2 DEF Whole, Files
  <2> QED
    BY <1>0, <2>1, <2>2, <2>3, FinalizedWhole DEF Whole, Files, Converting
<1>2. CASE Target(c) # 0
  <2>1. Place' = "convert" /\ Mine' = [[Mine EXCEPT !.i = 1] EXCEPT !.target = Target(c)]
    BY <1>2, MovesOn DEF Measure, Mine
  <2>2. /\ Mine'.call = c /\ Mine'.i = 1 /\ Mine'.target = Target(c)
        /\ Mine'.own = Mine.own /\ Mine'.saw = Mine.saw
    BY <2>1 DEF IInv, Shape, JobShape, Procs, Mine
  <2>3. UNCHANGED <<wf, ended, files, written, open, capt, session, orphans, stray>>
    BY <1>2 DEF Measure, Mine, files
  <2>4. Aim' /\ JobLedger'
    BY <1>0, <2>1, <2>2, <2>3 DEF Whole, Aim, JobLedger, Ending, Converting
  <2>5. ASSUME ~stray PROVE Progress'
    BY <1>0, <2>1, <2>2, <2>3, <2>5 DEF Whole, Progress, Top, LengthOf, files, Converting
  <2>6. \A d \in Calls : CallLedger(d)'
    BY <2>3 DEF Whole, CallLedger
  <2> QED
    BY <2>3, <2>4, <2>5, <2>6, Untouched DEF Whole
<1> QED
  BY <1>1, <1>2

(* What a step of the conversion needs of the channel n it is at.          *)
LEMMA AtChannel ==
  ASSUME Alone, IInv, Whole, Place = "unlink" \/ (Place = "convert" /\ Mine.i <= Len(Order))
  PROVE  /\ Mine.call \in Calls /\ Mine.i \in {1, 2} /\ Order[Mine.i] \in Names
         /\ \A m \in Names \ {Order[Mine.i]} : m = Order[3 - Mine.i]
         /\ ~stray => capt[Mine.call] = NoProc /\ ended[Mine.call] = "no"
                      /\ Top(Mine.call, Mine.target)
<1>1. Mine.call \in Calls /\ Mine.i \in {1, 2}
  BY DEF IInv, Owns, Procs, Place, Mine, Whole, Aim, Ending, Order
<1>2. ~stray => capt[Mine.call] = NoProc
  BY <1>1, Recorded DEF Ending
<1> QED
  BY <1>1, <1>2 DEF Whole, Progress, Converting, Order, Names

(* On to the next channel, when the one before has its final file.         *)
LEMMA ChannelDone ==
  ASSUME Alone, IInv, Whole, NextName(Server), Files', Place \in {"convert", "unlink"},
         Mine.i \in {1, 2}, Mine.call \in Calls,
         UNCHANGED <<wf, ended, written, open, capt, session, orphans, stray>>,
         ~stray => /\ \A c \in Calls : Kept(c)'
                   /\ \A t \in Int : Top(Mine.call, t) => Top(Mine.call, t)'
                   /\ \A k \in 1..Mine.i : pcm'[Mine.call][Order[k]] = None
  PROVE  Whole'
<1>1. Place' = "convert" /\ Mine' = [Mine EXCEPT !.i = @ + 1]
  BY MovesOn DEF NextName, Mine
<1>2. /\ Mine'.call = Mine.call /\ Mine'.i = Mine.i + 1 /\ Mine'.target = Mine.target
      /\ Mine'.own = Mine.own /\ Mine'.saw = Mine.saw
  BY <1>1 DEF IInv, Shape, JobShape, Procs, Mine
<1>3. Aim' /\ JobLedger'
  BY <1>1, <1>2 DEF Whole, Aim, JobLedger, Ending, Converting
<1>4. ASSUME ~stray PROVE Progress'
  <2>1. Top(Mine.call, Mine.target)'
    <3>1. Mine.target \in Int /\ Top(Mine.call, Mine.target)
      BY <1>4, LiveCaptureConstants DEF Whole, Aim, Progress
    <3>2. \A t \in Int : Top(Mine.call, t) => Top(Mine.call, t)'
      BY <1>4
    <3> QED
      BY <1>2, <3>1, <3>2 DEF Top, LengthOf
  <2>2. ended'[Mine'.call] = "no"
    BY <1>2, <1>4 DEF Whole, Progress, Converting
  <2>3. \A k \in 1..2 : k < Mine'.i => pcm'[Mine'.call][Order[k]] = None
    BY <1>2, <1>4
  <2> QED
    BY <1>1, <2>1, <2>2, <2>3 DEF Progress, Converting
<1>5. \A c \in Calls : CallLedger(c)'
  BY DEF Whole, CallLedger
<1> QED
  BY <1>3, <1>4, <1>5 DEF Whole

(* The FLAC of a channel, written as long as the call is.                  *)
LEMMA FlacWritten ==
  ASSUME Alone, IInv, Whole, ~stray, Place = "convert", NEW n \in Names, NEW c \in Calls, c = Mine.call,
         NEW t \in Int, t = Mine.target,
         capt[c] = NoProc, Top(c, t), pcm[c][n] # None \/ flac[c][n] = None,
         flac' = [flac EXCEPT ![c][n] = t], UNCHANGED <<wf, ended, pcm, written, open, capt>>
  PROVE  /\ \A d \in Calls : Kept(d)'
         /\ \A u \in Int : Top(c, u) => Top(c, u)'
<1>1. /\ flac'[c] = [flac[c] EXCEPT ![n] = t] /\ flac'[c][n] = t
      /\ \A m \in Names \ {n} : flac'[c][m] = flac[c][m] /\ LengthOf(c, m)' = LengthOf(c, m)
      /\ \A d \in Calls \ {c} : flac'[d] = flac[d]
  BY DEF Whole, Files, LengthOf
<1>2. \A m \in Names : {LengthOf(c, m), pcm[c][m], flac[c][m], written[c][m]} \subseteq Int
  BY LiveCaptureConstants DEF Whole, Files, LengthOf, Lengths
<1>3. ASSUME NEW u \in Int, Top(c, u) PROVE Top(c, u)'
  <2>1. CASE pcm[c][n] # None
    <3>1. \A m \in Names : LengthOf(c, m)' = LengthOf(c, m)
      BY <1>1, <2>1 DEF LengthOf
    <3> QED
      BY <1>3, <3>1 DEF Top
  <2>2. CASE pcm[c][n] = None
    <3>1. LengthOf(c, n) = -1 /\ LengthOf(c, n)' = t
      BY <1>1, <2>2 DEF LengthOf
    <3>2. t = u
      BY <1>2, <1>3, <3>1 DEF Top, Names
    <3> QED
      BY <1>1, <1>2, <1>3, <3>1, <3>2 DEF Top
  <2> QED
    BY <2>1, <2>2
<1>4. Kept(c)'
  <2>1. Kept(c) /\ wf[c] # "none"
    BY DEF IInv, Whole, JobLedger, Ending, Converting
  <2>2. ASSUME NEW m \in Names
        PROVE  /\ pcm'[c][m] # None => 1 <= pcm'[c][m] /\ written'[c][m] <= pcm'[c][m]
               /\ pcm'[c][m] = None => written'[c][m] <= flac'[c][m] \/ written'[c][m] = 0
               /\ pcm'[c][m] = None /\ flac'[c][m] # None => Top(c, flac[c][m])'
    <3>1. CASE m = n
      <4>1. Top(c, t)'
        BY <1>3
      <4>2. flac'[c][m] = t
        BY <1>1, <3>1
      <4>3. Top(c, flac[c][m])'
        BY <4>1, <4>2 DEF Top
      <4>4. pcm[c][m] = None => written[c][m] = 0 \/ written[c][m] <= -1
        BY <2>1, <3>1 DEF Kept
      <4>5. written[c][m] \in 0..MaxLen
        BY DEF Whole, Files
      <4>6. pcm[c][m] = None => written[c][m] = 0
        BY <4>4, <4>5, LiveCaptureConstants
      <4> QED
        BY <2>1, <4>3, <4>6 DEF Kept
    <3>2. CASE m # n
      <4>1. flac'[c][m] = flac[c][m]
        BY <1>1, <3>2
      <4>2. Top(c, flac[c][m]) => Top(c, flac[c][m])'
        BY <1>2, <1>3, <4>1 DEF Top
      <4> QED
        BY <2>1, <4>1, <4>2 DEF Kept
    <3> QED
      BY <3>1, <3>2
  <2> QED
    BY <2>1, <2>2 DEF Kept
<1>5. ASSUME NEW d \in Calls \ {c} PROVE Kept(d)'
  BY <1>1 DEF Whole, Kept, Top, LengthOf
<1> QED
  BY <1>3, <1>4, <1>5

LEMMA ConvertWhole ==
  ASSUME Alone, IInv, Whole, Convert(Server)
  PROVE  Whole'
<1>1. PICK c \in Calls, n \in Names, t \in 0..MaxLen : c = Mine.call /\ n = Order[Mine.i] /\ t = Mine.target
  BY AtChannel DEF Convert, Place, Mine, Whole, Aim
<1>2. /\ Place = "convert" /\ Mine.i \in {1, 2}
      /\ UNCHANGED <<wf, ended, pcm, written, open, capt, session, orphans, stray>>
      /\ ~stray => capt[c] = NoProc /\ Top(c, t)
      /\ t \in Int
  BY <1>1, AtChannel, LiveCaptureConstants DEF Convert, Place, Mine
<1>3. CASE pcm[c][n] # None
  <2>1. /\ flac' = [flac EXCEPT ![c][n] = Max({t, pcm[c][n]})]
        /\ Place' = "unlink" /\ Mine' = Mine
    BY <1>1, <1>3, MovesOn DEF Convert, Mine
  <2>2. pcm[c][n] \in Lengths /\ pcm[c][n] \in Int
    BY LiveCaptureConstants DEF Whole, Files, Lengths
  <2>3. Max({t, pcm[c][n]}) = IF t >= pcm[c][n] THEN t ELSE pcm[c][n]
    BY <1>2, <2>2, MaxOfTwo
  <2>4. Files'
    BY <1>2, <2>1, <2>2, <2>3, LiveCaptureConstants DEF Whole, Files, Lengths
  <2>5. Aim' /\ JobLedger' /\ \A d \in Calls : CallLedger(d)'
    BY <1>2, <2>1 DEF Whole, Aim, JobLedger, CallLedger, Ending, Converting
  <2>6. ASSUME ~stray PROVE Progress' /\ \A d \in Calls : Kept(d)'
    <3>1. pcm[c][n] <= t
      BY <1>2, <1>3, <2>6 DEF Top, LengthOf
    <3>2. flac' = [flac EXCEPT ![c][n] = t]
      BY <1>2, <2>1, <2>2, <2>3, <3>1
    <3>3. /\ \A d \in Calls : Kept(d)'
          /\ Top(c, t)'
      BY <1>1, <1>2, <1>3, <2>6, <3>2, FlacWritten
    <3>4. flac'[c][n] = t
      BY <3>2 DEF Whole, Files
    <3>5. Top(Mine.call, Mine.target)'
      BY <1>1, <2>1, <3>3 DEF Top, LengthOf
    <3>6. Progress'
      BY <1>1, <1>2, <2>1, <2>6, <3>4, <3>5 DEF Whole, Progress, Converting
    <3> QED
      BY <3>3, <3>6
  <2> QED
    BY <1>2, <2>4, <2>5, <2>6 DEF Whole
<1>4. CASE pcm[c][n] = None
  <2>1. /\ flac' = [flac EXCEPT ![c][n] = IF flac[c][n] = None THEN t ELSE flac[c][n]]
        /\ NextName(Server)
    BY <1>1, <1>4 DEF Convert, Mine, Whole, Files
  <2>2. Files'
    BY <1>2, <2>1, LiveCaptureConstants DEF Whole, Files, Lengths
  <2>3. Mine'.call = c
    BY <1>1, <2>1, MovesOn DEF NextName, Mine, IInv, Shape, JobShape, Procs
  <2>4. ASSUME ~stray
        PROVE  (\A d \in Calls : Kept(d)') /\ (\A u \in Int : Top(c, u) => Top(c, u)')
    <3>1. CASE flac[c][n] # None
      <4>1. flac' = flac
        BY <2>1, <3>1 DEF Whole, Files
      <4> QED
        BY <1>2, <2>4, <4>1 DEF Whole, Kept, Top, LengthOf
    <3>2. CASE flac[c][n] = None
      BY <1>1, <1>2, <2>1, <2>4, <3>2, FlacWritten
    <3> QED
      BY <3>1, <3>2
  <2>5. ASSUME ~stray PROVE \A k \in 1..Mine.i : pcm'[Mine.call][Order[k]] = None
    BY <1>1, <1>2, <1>4, <2>5 DEF Whole, Progress
  <2>6. ASSUME ~stray PROVE \A u \in Int : Top(Mine.call, u) => Top(Mine.call, u)'
    BY <1>1, <2>3, <2>4, <2>6 DEF Top, LengthOf
  <2> QED
    BY <1>1, <1>2, <2>1, <2>2, <2>4, <2>5, <2>6, ChannelDone
<1> QED
  BY <1>3, <1>4

LEMMA UnlinkWhole ==
  ASSUME Alone, IInv, Whole, Unlink(Server)
  PROVE  Whole'
<1>1. PICK c \in Calls, n \in Names, t \in 0..MaxLen : c = Mine.call /\ n = Order[Mine.i] /\ t = Mine.target
  BY AtChannel DEF Unlink, Place, Mine, Whole, Aim
<1>2. /\ Place = "unlink" /\ Mine.i \in {1, 2}
      /\ UNCHANGED <<wf, ended, flac, written, open, capt, stray>>
      /\ ~stray => capt[c] = NoProc /\ ended[c] = "no" /\ Top(c, t) /\ flac[c][n] = t
      /\ t \in Int
  BY <1>1, AtChannel, LiveCaptureConstants DEF Unlink, Place, Mine, Whole, Progress
<1>3. CASE pcm[c][n] = None
  BY <1>1, <1>2, <1>3, RaisedWhole DEF Unlink, files, Mine
<1>4. CASE pcm[c][n] # None
  <2>1. /\ pcm' = [pcm EXCEPT ![c][n] = None] /\ NextName(Server) /\ UNCHANGED <<session, orphans>>
    BY <1>1, <1>4 DEF Unlink, Mine
  <2>2. Files'
    BY <1>2, <2>1, LiveCaptureConstants DEF Whole, Files, Lengths
  <2>3. /\ pcm'[c] = [pcm[c] EXCEPT ![n] = None] /\ pcm'[c][n] = None
        /\ \A m \in Names \ {n} : pcm'[c][m] = pcm[c][m] /\ LengthOf(c, m)' = LengthOf(c, m)
        /\ \A d \in Calls \ {c} : pcm'[d] = pcm[d]
    BY <1>2, <2>1 DEF Whole, Files, LengthOf
  <2>4. \A m \in Names : {LengthOf(c, m), pcm[c][m], flac[c][m], written[c][m]} \subseteq Int
    BY LiveCaptureConstants DEF Whole, Files, LengthOf, Lengths
  <2>5. ASSUME ~stray, NEW u \in Int, Top(c, u) PROVE Top(c, u)'
    <3>1. LengthOf(c, n) = pcm[c][n] /\ LengthOf(c, n)' = t
      BY <1>2, <1>4, <2>3, <2>5 DEF LengthOf
    <3>2. t = u
      BY <1>2, <2>4, <2>5 DEF Top, Names
    <3> QED
      BY <1>2, <2>3, <2>4, <2>5, <3>1, <3>2 DEF Top
  <2>6. ASSUME ~stray PROVE Kept(c)'
    <3>1. Kept(c) /\ wf[c] # "none" /\ UNCHANGED <<capt, open, wf, ended>>
      BY <1>1, <1>2, <2>6 DEF Whole, JobLedger, Ending, Converting
    <3>2. ASSUME NEW m \in Names
          PROVE  /\ pcm'[c][m] # None => 1 <= pcm'[c][m] /\ written'[c][m] <= pcm'[c][m]
                 /\ pcm'[c][m] = None => written'[c][m] <= flac'[c][m] \/ written'[c][m] = 0
                 /\ pcm'[c][m] = None /\ flac'[c][m] # None => Top(c, flac[c][m])'
      <4>1. CASE m = n
        <5>1. Top(c, flac[c][m])'
          BY <1>2, <2>5, <2>6, <4>1 DEF Top
        <5>2. written[c][m] <= flac[c][m]
          BY <1>2, <1>4, <2>4, <2>6, <3>1, <4>1 DEF Kept, Top, LengthOf
        <5> QED
          BY <1>2, <2>3, <4>1, <5>1, <5>2
      <4>2. CASE m # n
        <5>1. pcm'[c][m] = pcm[c][m]
          BY <2>3, <4>2
        <5>2. Top(c, flac[c][m]) => Top(c, flac[c][m])'
          BY <1>2, <2>4, <2>5, <2>6 DEF Top
        <5> QED
          BY <1>2, <3>1, <5>1, <5>2 DEF Kept
      <4> QED
        BY <4>1, <4>2
    <3> QED
      BY <1>2, <2>6, <3>1, <3>2 DEF Kept
  <2>7. ASSUME ~stray, NEW d \in Calls \ {c} PROVE Kept(d)'
    BY <1>2, <2>3, <2>7 DEF Whole, Kept, Top, LengthOf
  <2>8. ASSUME ~stray
        PROVE  /\ \A d \in Calls : Kept(d)'
               /\ \A u \in Int : Top(Mine.call, u) => Top(Mine.call, u)'
               /\ \A k \in 1..Mine.i : pcm'[Mine.call][Order[k]] = None
    <3>1. Mine'.call = c
      BY <1>1, <2>1, MovesOn DEF NextName, Mine, IInv, Shape, JobShape, Procs
    <3>2. \A u \in Int : Top(Mine.call, u) => Top(Mine.call, u)'
      BY <1>1, <2>5, <2>8, <3>1 DEF Top, LengthOf
    <3>3. ASSUME NEW k \in 1..Mine.i PROVE pcm'[c][Order[k]] = None
      <4>1. CASE k = Mine.i
        BY <1>1, <2>3, <4>1
      <4>2. CASE k # Mine.i
        <5>1. k \in 1..2 /\ k < Mine.i
          BY <1>2, <4>2
        <5>2. pcm[c][Order[k]] = None /\ Order[k] \in Names
          BY <1>1, <1>2, <2>8, <5>1 DEF Whole, Progress, Order, Names
        <5> QED
          BY <2>3, <5>2
      <4> QED
        BY <4>1, <4>2
    <3> QED
      BY <1>1, <2>6, <2>7, <2>8, <3>2, <3>3
  <2> QED
    BY <1>1, <1>2, <2>1, <2>2, <2>8, ChannelDone
<1> QED
  BY <1>3, <1>4

(* The process starts and dies; the worker.                                *)
LEMMA BootWhole == ASSUME IInv, Whole, Boot(Server) PROVE Whole'
<1>1. Place' = "next" /\ Mine' = Mine
  BY MovesOn DEF Boot, Mine
<1>2. Aim' /\ JobLedger' /\ Progress'
  BY <1>1 DEF Whole, Aim, JobLedger, Progress, Ending, Converting
<1>3. orphans'[Server] = {c \in Calls : wf[c] = "live"}
  BY DEF Boot, IInv, Shape, Procs
<1>4. \A c \in Calls : CallLedger(c)'
  BY <1>3 DEF Whole, CallLedger, Boot
<1> QED
  BY <1>2, <1>4, Untouched DEF Whole, Boot

LEMMA CrashWhole ==
  ASSUME Alone, IInv, Whole, Crash(Server)
  PROVE  Whole'
<1>1. Place' = "down" /\ Mine' = NoJob
  BY MovesOn DEF Crash
<1>2. Aim' /\ JobLedger' /\ Progress'
  BY <1>1, LiveCaptureConstants DEF Aim, JobLedger, Progress, NoJob, Ending, Converting
<1>3. /\ \A c \in Calls : capt'[c] = NoProc /\ open'[c] = IF capt[c] = Server THEN {} ELSE open[c]
      /\ open' \in [Calls -> SUBSET Names]
  BY DEF Alone, Procs, IInv, Shape, Crash, Whole, Files
<1>4. session'[Server] = NoCall /\ orphans'[Server] = {}
  BY DEF IInv, Shape, Procs, Crash
<1>5. \A c \in Calls : CallLedger(c)'
  BY <1>4, LiveCaptureConstants DEF Whole, CallLedger, Crash
<1>6. Files'
  BY <1>3 DEF Whole, Files, Crash, files
<1>7. ASSUME ~stray, NEW c \in Calls PROVE Kept(c)'
  <2>1. capt[c] \in {Server, NoProc}
    BY DEF Alone, Procs, IInv, Shape
  <2> QED
    BY <1>3, <1>7, <2>1 DEF Whole, Kept, Top, LengthOf, Crash, files
<1> QED
  BY <1>2, <1>5, <1>6, <1>7 DEF Whole, Crash

LEMMA ProcessWhole ==
  ASSUME Alone, IInv, Whole, NEW c \in Calls, Process(c)
  PROVE  Whole'
<1>1. Place' = Place /\ Mine' = Mine
  BY DEF Process, Place, Mine
<1>2. Place \in {"starting", "started", "stopping"} \cup Ending => Mine.call \in Calls
  BY DEF IInv, Owns, Procs, Place, Mine
<1>3. Files'
  BY DEF Whole, Files, Process, States, files
<1>4. Aim' /\ JobLedger'
  BY <1>1, <1>2 DEF Whole, Files, Aim, JobLedger, Process, Ending, Converting
<1>5. ASSUME NEW d \in Calls PROVE CallLedger(d)'
  BY <1>5 DEF Whole, Files, CallLedger, Process
<1>6. ASSUME ~stray PROVE Progress' /\ \A d \in Calls : Kept(d)'
  <2>1. Progress'
    BY <1>1, <1>2, <1>6 DEF Whole, Files, Progress, Top, LengthOf, Process, Ending, Converting, files
  <2>2. ASSUME NEW d \in Calls PROVE Kept(d)'
    BY <1>6, <2>2 DEF Whole, Files, Kept, Top, LengthOf, Process, files
  <2> QED
    BY <2>1, <2>2
<1> QED
  BY <1>3, <1>4, <1>5, <1>6 DEF Whole, Process

----------------------------------------------------------------------------
LEMMA StepWhole == Alone /\ IInv /\ Whole /\ [Next]_vars => Whole'
<1> SUFFICES ASSUME Alone, IInv, Whole, [Next]_vars PROVE Whole'
  OBVIOUS
<1>1. CASE UNCHANGED vars
  <2>1. Place' = Place /\ Mine' = Mine
    BY <1>1 DEF vars, Place, Mine
  <2>2. Aim' /\ JobLedger' /\ (\A c \in Calls : CallLedger(c)') /\ (Progress => Progress')
    BY <1>1, <2>1 DEF vars, files, Whole, Aim, JobLedger, CallLedger, Progress, Top, LengthOf
  <2>3. Files' /\ (~stray' => \A c \in Calls : Kept(c)')
    BY <1>1, Untouched DEF vars, files
  <2> QED
    BY <1>1, <2>2, <2>3 DEF vars, Whole
<1>2. ASSUME NEW c \in Calls, NEW n \in Names, NEW len \in 0..MaxLen, Record(c, n, len)
      PROVE  Whole'
  BY <1>2, RecordWhole
<1>3. ASSUME NEW c \in Calls, Process(c) PROVE Whole'
  BY <1>3, ProcessWhole
<1>4. ASSUME NEW p \in Procs, Step(p) PROVE Whole'
  <2>1. p = Server
    BY DEF Alone, Procs
  <2> QED
    BY <1>4, <2>1, StartCaptureWhole, StartedWhole, StopCaptureWhole, ReadCallWhole, MeasureWhole,
       ConvertWhole, UnlinkWhole, FinishArchiveWhole, WriteEndWhole, Next1Whole, BootWhole DEF Step
<1>5. ASSUME NEW p \in Procs,
             StartFails(p) \/ StartedLost(p) \/ Trouble(p) \/ Crash(p)
      PROVE  Whole'
  <2>1. p = Server
    BY DEF Alone, Procs
  <2> QED
    BY <1>5, <2>1, StartFailsWhole, StartedLostWhole, TroubleWhole, CrashWhole
<1>6. ASSUME NEW p \in Procs, NEW c \in Calls, Start(p, c) \/ Stop(p, c) PROVE Whole'
  <2>1. p = Server
    BY DEF Alone, Procs
  <2> QED
    BY <1>6, <2>1, StartWhole, StopWhole
<1> QED
  BY <1>1, <1>2, <1>3, <1>4, <1>5, <1>6 DEF Next

LEMMA MaxCovers ==
  ASSUME NEW a \in Int, NEW b \in Int
  PROVE  /\ Max({a, b, 0}) \in Int /\ Max({a, b, 0}) >= a /\ Max({a, b, 0}) >= b /\ Max({a, b, 0}) >= 0
         /\ Max({a, b}) = IF a >= b THEN a ELSE b
<1>1. PICK m \in {a, b, 0} : \A x \in {a, b, 0} : m >= x
  OBVIOUS
<1>2. Max({a, b, 0}) = m
  BY <1>1, MaxIs
<1> QED
  BY <1>1, <1>2, MaxOfTwo

LEMMA WholeAudio == Alone /\ IInv /\ Whole => AudioIsWhole
<1> SUFFICES ASSUME Alone, IInv, Whole PROVE AudioIsWhole
  OBVIOUS
<1>0. \A c \in Calls, n \in Names : {pcm[c][n], flac[c][n]} \subseteq Int /\ written[c][n] \in Nat
                                    /\ {pcm[c][n], flac[c][n]} \subseteq Lengths
  BY LiveCaptureConstants DEF Whole, Files, Lengths
<1>1. ASSUME ~stray, NEW c \in Calls, NEW n \in Names
      PROVE  written[c][n] <= Max({pcm[c][n], flac[c][n], 0})
  <2>1. \/ written[c][n] <= pcm[c][n] \/ written[c][n] <= flac[c][n] \/ written[c][n] <= 0
    BY <1>0, <1>1 DEF Whole, Kept
  <2>2. PICK a \in Int, b \in Int : a = pcm[c][n] /\ b = flac[c][n]
    BY <1>0
  <2>3. Max({a, b, 0}) \in Int /\ Max({a, b, 0}) >= a /\ Max({a, b, 0}) >= b /\ Max({a, b, 0}) >= 0
    BY MaxCovers
  <2> QED
    BY <1>0, <2>1, <2>2, <2>3
<1>2. ASSUME ~stray, NEW c \in Calls, ended[c] # "no" PROVE Final(c)
  <2>1. capt[c] = NoProc
    BY <1>2, Recorded
  <2>2. /\ \A n \in Names : pcm[c][n] = None
        /\ \A n \in Names : written[c][n] <= flac[c][n] \/ written[c][n] = 0
        /\ \A n \in Names : flac[c][n] # None => Top(c, flac[c][n])
    BY <1>2 DEF Whole, Kept
  <2>3. \A n \in Names : LengthOf(c, n) = flac[c][n]
    BY <2>2 DEF LengthOf
  <2>4. ASSUME NEW n \in Names PROVE written[c][n] <= Max({flac[c][n], 0})
    <3>1. PICK a \in Int : a = flac[c][n]
      BY <1>0
    <3>2. Max({a, 0}) = IF a >= 0 THEN a ELSE 0
      BY MaxCovers
    <3> QED
      BY <1>0, <2>2, <3>1, <3>2
  <2>5. ASSUME NEW n \in Names, flac[c][n] # None
        PROVE  flac[c][n] = Max({flac[c][m] : m \in Names})
    <3>1. {flac[c][m] : m \in Names} \subseteq Int /\ flac[c][n] \in {flac[c][m] : m \in Names}
      BY <1>0
    <3>2. \A m \in Names : flac[c][n] >= flac[c][m]
      BY <2>2, <2>3, <2>5 DEF Top
    <3> QED
      BY <3>1, <3>2, MaxIs
  <2> QED
    BY <2>1, <2>2, <2>4, <2>5 DEF Final
<1>3. CapturedIsQueued
  BY DEF CapturedIsQueued, Whole, CallLedger
<1> QED
  BY <1>1, <1>2, <1>3 DEF AudioIsWhole, NothingLostUnlessStray, NothingLost, EndedIsFinal

(* Of a server that runs alone: whatever crashes, raises or is pressed,    *)
(* and wherever a conversion is broken off and by whom it is taken up      *)
(* again, the audio of a call is whole (live/archive.py, finalize_dir;     *)
(* live/manager.py, stop_call and recover_orphans).                        *)
THEOREM AudioStaysWhole == Recorders = {} /\ Spec => []AudioIsWhole
<1> SUFFICES ASSUME Alone PROVE Spec => []AudioIsWhole
  BY DEF Alone
<1>1. IInv /\ Whole /\ [Next]_vars => (IInv /\ Whole)'
  BY StepIInv, StepWhole
<1>2. IInv /\ Whole => AudioIsWhole
  BY WholeAudio
<1>3. Init => IInv /\ Whole
  BY InitIInv, InitWhole
<1> QED
  BY <1>1, <1>2, <1>3, PTL DEF Spec

----------------------------------------------------------------------------
(* The calendar, whose recorder duty starts calls: Calendar models it on   *)
(* its own, and the theorems about it are below, for any meetings, copies, *)
(* starts and scheduling rules.                                            *)
Row   == [stored : BOOLEAN, start : 0..MaxTime, record : BOOLEAN, call : Nat, error : BOOLEAN]
Copy  == [at : {"idle", "read"}, from : Nat, events : [Meetings -> Starts \cup {NoMeeting}]]
Stage == [at : {"idle", "due", "starting", "linking"}, todo : SUBSET Meetings,
          meeting : Meetings \cup {NoMeeting}]
RowsTyped ==
    /\ rows \in [Meetings -> Row]
    /\ agenda \in [Meetings -> Starts \cup {NoMeeting}]
    /\ sync \in [Syncers -> Copy]
    /\ start \in [Cal!Starters -> Stage]
    /\ calls \in Seq(Meetings \cup {NoMeeting})
    /\ now \in Nat /\ taint \subseteq Cal!Races /\ wanted \subseteq Meetings

(* What a starter is doing, and for which meeting; a call that is linked   *)
(* has begun.                                                              *)
Turning == {w \in Cal!Starters : start[w].at \in {"starting", "linking"}}
Turns(w) ==
    /\ start[w].at = "due" => start[w].todo # {}
    /\ start[w].meeting \in Meetings <=> w \in Turning
    /\ start[w].at = "linking" => \E c \in DOMAIN calls : calls[c] = start[w].meeting

(* What a copy has not found is known to have vanished.                    *)
Unfound ==
    \A s \in Syncers, m \in Meetings :
        sync[s].at = "read" /\ sync[s].events[m] = NoMeeting => m \in vanished

(* Without a race, what was recorded says so in its row, or is just being  *)
(* linked, and a starter has its meeting for itself, in a row that waits.  *)
Linked(m) ==
    \/ rows[m].stored /\ rows[m].call # 0
    \/ \E w \in Cal!Starters : start[w].at = "linking" /\ start[w].meeting = m
Told == \A c \in DOMAIN calls : calls[c] # NoMeeting => Linked(calls[c])
Uncrossed ==
    /\ Told
    /\ \A w \in Turning : /\ rows[start[w].meeting].stored
                          /\ start[w].at = "starting" => rows[start[w].meeting].call = 0
    /\ \A w, v \in Turning : start[w].meeting = start[v].meeting => w = v
Single == \A c, d \in DOMAIN calls : calls[c] = calls[d] /\ calls[c] # NoMeeting => c = d

Armed ==
    /\ RowsTyped /\ Unfound /\ Cal!ArmedIsKept
    /\ \A w \in Cal!Starters : Turns(w)
    /\ taint = {} => Uncrossed /\ Single

LEMMA CalendarFacts ==
  ASSUME Cal!CalendarConstants
  PROVE  /\ NoMeeting \notin Meetings /\ Recorder # Click /\ Starts \subseteq 0..MaxTime
         /\ MaxTime \in Nat /\ 0 \in 0..MaxTime
         /\ Cal!Starters = {Recorder, Click} /\ Cal!Races = {"started twice", "unlinked"}
<1>1. MaxTime \in Nat
  BY DEF Cal!CalendarConstants
<1> QED
  BY <1>1 DEF Cal!CalendarConstants, Cal!Starters, Cal!Races

LEMMA InitRecorded == ASSUME Cal!CalendarConstants, Cal!Init PROVE Armed
<1>1. RowsTyped
  <2>1. rows = [m \in Meetings |-> Cal!NoRow] /\ agenda \in [Meetings -> Starts]
        /\ calls = <<>> /\ now = 0 /\ wanted = {} /\ taint = {}
    BY DEF Cal!Init
  <2>2. rows \in [Meetings -> Row]
    BY <2>1, CalendarFacts DEF Cal!NoRow, Row
  <2>3. sync \in [Syncers -> Copy]
    BY DEF Cal!Init, Cal!NoRead, Copy
  <2>4. start \in [Cal!Starters -> Stage]
    BY DEF Cal!Init, Cal!Resting, Stage
  <2> QED
    BY <2>1, <2>2, <2>3, <2>4 DEF RowsTyped
<1>2. Unfound /\ Cal!ArmedIsKept
  BY DEF Cal!Init, Unfound, Cal!ArmedIsKept, Cal!NoRead
<1>3. \A w \in Cal!Starters : Turns(w) /\ w \notin Turning
  BY CalendarFacts DEF Cal!Init, Turns, Turning, Cal!Resting
<1>4. Uncrossed /\ Single
  BY <1>3 DEF Cal!Init, Uncrossed, Told, Single, Turning
<1> QED
  BY <1>1, <1>2, <1>3, <1>4 DEF Armed

(* What leaves the recordings alone keeps it.                              *)
LEMMA Elsewhere ==
  ASSUME Armed, UNCHANGED <<rows, sync, start, calls, wanted, vanished, taint>>,
         now' \in Nat, agenda' \in [Meetings -> Starts \cup {NoMeeting}]
  PROVE  Armed'
<1>1. RowsTyped'
  BY DEF Armed, RowsTyped
<1>2. Unfound' /\ Cal!ArmedIsKept'
  BY DEF Armed, Unfound, Cal!ArmedIsKept
<1>3. Turning' = Turning /\ \A w \in Cal!Starters : Turns(w)'
  BY DEF Armed, Turns, Turning
<1>4. taint' = {} => Uncrossed' /\ Single'
  BY <1>3 DEF Armed, Uncrossed, Told, Single, Linked
<1> QED
  BY <1>1, <1>2, <1>3, <1>4 DEF Armed

LEMMA SyncReadsKeeps ==
  ASSUME Cal!CalendarConstants, Armed, NEW s \in Syncers, Cal!SyncReads(s) PROVE Armed'
<1> DEFINE events == [m \in Meetings |->
               IF agenda[m] # NoMeeting /\ Cal!InWindow(agenda[m], now) THEN agenda[m] ELSE NoMeeting]
<1>1. /\ sync' = [sync EXCEPT ![s] = [at |-> "read", from |-> now, events |-> events]]
      /\ vanished' = vanished \cup {m \in Meetings : events[m] = NoMeeting}
      /\ UNCHANGED <<now, agenda, rows, start, calls, wanted, taint>>
  BY DEF Cal!SyncReads
<1>2. events \in [Meetings -> Starts \cup {NoMeeting}]
  BY DEF Armed, RowsTyped
<1> HIDE DEF events
<1>3. RowsTyped'
  BY <1>1, <1>2 DEF Armed, RowsTyped, Copy
<1>4. Unfound'
  BY <1>1, <1>2 DEF Armed, RowsTyped, Unfound
<1>5. Cal!ArmedIsKept'
  BY <1>1 DEF Armed, Cal!ArmedIsKept
<1>6. Turning' = Turning /\ \A w \in Cal!Starters : Turns(w)'
  BY <1>1 DEF Armed, Turns, Turning
<1>7. taint' = {} => Uncrossed' /\ Single'
  BY <1>1, <1>6 DEF Armed, Uncrossed, Told, Single, Linked
<1> QED
  BY <1>3, <1>4, <1>5, <1>6, <1>7 DEF Armed

LEMMA SyncFailsKeeps ==
  ASSUME Cal!CalendarConstants, Armed, NEW s \in Syncers, Cal!SyncFails(s) PROVE Armed'
<1>1. /\ sync' = [sync EXCEPT ![s] = Cal!NoRead]
      /\ UNCHANGED <<now, agenda, rows, start, calls, wanted, vanished, taint>>
  BY DEF Cal!SyncFails
<1>2. RowsTyped' /\ Unfound'
  BY <1>1 DEF Armed, RowsTyped, Unfound, Cal!NoRead, Copy
<1>3. Cal!ArmedIsKept'
  BY <1>1 DEF Armed, Cal!ArmedIsKept
<1>4. Turning' = Turning /\ \A w \in Cal!Starters : Turns(w)'
  BY <1>1 DEF Armed, Turns, Turning
<1>5. taint' = {} => Uncrossed' /\ Single'
  BY <1>1, <1>4 DEF Armed, Uncrossed, Told, Single, Linked
<1> QED
  BY <1>2, <1>3, <1>4, <1>5 DEF Armed

LEMMA SyncWritesKeeps ==
  ASSUME Cal!CalendarConstants, Armed, NEW s \in Syncers, Cal!SyncWrites(s) PROVE Armed'
<1> DEFINE found == {m \in Meetings : sync[s].events[m] # NoMeeting}
           gone  == {m \in Meetings \ found : Cal!Drops(m, s)}
<1>1. /\ sync[s].at = "read" /\ sync' = [sync EXCEPT ![s] = Cal!NoRead]
      /\ rows' = [m \in Meetings |->
             IF m \in found THEN Cal!Upserted(rows[m], sync[s].events[m])
             ELSE IF m \in gone THEN Cal!NoRow ELSE rows[m]]
      /\ taint' = taint \cup Cal!If(\E w \in Cal!Starters : start[w].meeting \in gone, "unlinked")
      /\ UNCHANGED <<now, agenda, start, calls, wanted, vanished>>
  BY DEF Cal!SyncWrites, Cal!Taint
<1>2. ASSUME NEW m \in Meetings
      PROVE  /\ rows'[m] \in Row
             /\ m \in found => /\ rows'[m].stored /\ rows'[m].record = rows[m].record
                               /\ rows'[m].call = rows[m].call /\ rows'[m].error = rows[m].error
             /\ m \in gone => rows[m].stored /\ rows[m].call = 0 /\ rows'[m].call = 0
             /\ m \notin found \cup gone => rows'[m] = rows[m]
  <2>1. /\ rows[m] \in Row
        /\ sync[s].events[m] \in Starts \cup {NoMeeting}
    BY DEF Armed, RowsTyped, Copy
  <2>2. CASE m \in found
    <3>1. sync[s].events[m] \in 0..MaxTime /\ m \notin gone
      BY <2>1, <2>2, CalendarFacts
    <3>2. rows'[m] = [rows[m] EXCEPT !.stored = TRUE, !.start = sync[s].events[m]]
      BY <1>1, <2>2 DEF Cal!Upserted
    <3> HIDE DEF found, gone
    <3> QED
      BY <2>1, <2>2, <3>1, <3>2 DEF Row
  <2>3. CASE m \in gone
    <3>1. rows'[m] = Cal!NoRow /\ m \notin found /\ rows[m].stored /\ rows[m].call = 0
      BY <1>1, <2>3 DEF Cal!Drops
    <3>2. Cal!NoRow \in Row
      BY CalendarFacts DEF Cal!NoRow, Row
    <3> HIDE DEF found, gone
    <3> QED
      BY <2>3, <3>1, <3>2 DEF Cal!NoRow
  <2>4. CASE m \notin found \cup gone
    <3>1. rows'[m] = rows[m]
      BY <1>1, <2>4
    <3> HIDE DEF found, gone
    <3> QED
      BY <2>1, <2>4, <3>1
  <2> HIDE DEF found, gone
  <2> QED
    BY <2>2, <2>3, <2>4
<1>3. \A m \in gone : m \in vanished
  BY <1>1 DEF Armed, Unfound
<1>4. taint' = {} => taint = {} /\ \A w \in Cal!Starters : start[w].meeting \notin gone
  BY <1>1 DEF Cal!If
<1>5. rows' = [m \in Meetings |-> rows'[m]]
  BY <1>1
<1> HIDE DEF found, gone
<1>6. RowsTyped'
  <2>1. rows' \in [Meetings -> Row]
    BY <1>2, <1>5
  <2>2. sync' \in [Syncers -> Copy]
    BY <1>1 DEF Armed, RowsTyped, Cal!NoRead, Copy
  <2>3. taint' \subseteq Cal!Races
    BY <1>1, CalendarFacts DEF Armed, RowsTyped, Cal!If
  <2> QED
    BY <1>1, <2>1, <2>2, <2>3 DEF Armed, RowsTyped
<1>7. Unfound'
  BY <1>1 DEF Armed, RowsTyped, Unfound, Cal!NoRead
<1>8. Cal!ArmedIsKept'
  <2> SUFFICES ASSUME NEW m \in Meetings, m \in wanted \ vanished
               PROVE  rows'[m].stored /\ (rows'[m].record \/ rows'[m].call # 0 \/ rows'[m].error)
    BY <1>1 DEF Armed, RowsTyped, Cal!ArmedIsKept
  <2> QED
    BY <1>2, <1>3 DEF Armed, Cal!ArmedIsKept
<1>9. Turning' = Turning /\ \A w \in Cal!Starters : Turns(w)'
  BY <1>1 DEF Armed, Turns, Turning
<1>10. ASSUME taint' = {} PROVE Uncrossed' /\ Single'
  <2>1. Uncrossed /\ Single
    BY <1>4, <1>10 DEF Armed
  <2>2. ASSUME NEW m \in Meetings, Linked(m) PROVE Linked(m)'
    BY <1>1, <1>2, <2>2 DEF Linked
  <2>3. \A c \in DOMAIN calls : calls[c] # NoMeeting => calls[c] \in Meetings
    BY DEF Armed, RowsTyped
  <2>4. \A w \in Turning : start[w].meeting \in Meetings /\ start[w].meeting \notin gone
    BY <1>4, <1>10 DEF Armed, Turning, Turns
  <2>5. \A w \in Turning : /\ rows'[start[w].meeting].stored
                           /\ rows'[start[w].meeting].call = rows[start[w].meeting].call
    BY <1>2, <2>1, <2>4 DEF Uncrossed
  <2>6. Uncrossed'
    BY <1>1, <1>9, <2>1, <2>2, <2>3, <2>5 DEF Uncrossed, Told
  <2> QED
    BY <1>1, <2>1, <2>6 DEF Single
<1> QED
  BY <1>6, <1>7, <1>8, <1>9, <1>10 DEF Armed

(* Rows that only say more of a failure: what Failed and Tick do to them.  *)
Marks(m) ==
    /\ rows'[m].stored = rows[m].stored /\ rows'[m].call = rows[m].call
    /\ rows[m].stored /\ rows[m].record => rows'[m].record \/ rows'[m].error
    /\ rows[m].error => rows'[m].error

LEMMA FailedMarks ==
  ASSUME Armed, NEW who, NEW k \in Meetings, rows' = Cal!Failed(who, k)
  PROVE  rows' \in [Meetings -> Row] /\ \A m \in Meetings : Marks(m)
<1>1. rows \in [Meetings -> Row]
  BY DEF Armed, RowsTyped, Row
<1>2. CASE rows[k].stored
  <2> DEFINE new == [rows[k] EXCEPT !.error = TRUE, !.record = @ /\ who # Recorder]
  <2>1. rows' = [rows EXCEPT ![k] = new]
    BY <1>1, <1>2 DEF Cal!Failed
  <2>2. rows[k] \in Row
    BY <1>1
  <2>3. new \in Row /\ new.error /\ new.stored = rows[k].stored /\ new.call = rows[k].call
    BY <2>2 DEF Row
  <2> HIDE DEF new
  <2>4. rows' \in [Meetings -> Row] /\ rows'[k] = new /\ \A m \in Meetings : m # k => rows'[m] = rows[m]
    BY <1>1, <2>1, <2>3
  <2> QED
    BY <2>3, <2>4 DEF Marks
<1>3. CASE ~rows[k].stored
  BY <1>1, <1>3 DEF Cal!Failed, Marks
<1> QED
  BY <1>2, <1>3

LEMMA MarkedKept ==
  ASSUME Armed, \A m \in Meetings : Marks(m), UNCHANGED <<wanted, vanished>>
  PROVE  Cal!ArmedIsKept'
<1> SUFFICES ASSUME NEW m \in Meetings, m \in wanted \ vanished
             PROVE  rows'[m].stored /\ (rows'[m].record \/ rows'[m].call # 0 \/ rows'[m].error)
  BY DEF Armed, RowsTyped, Cal!ArmedIsKept
<1>1. rows[m].stored /\ (rows[m].record \/ rows[m].call # 0 \/ rows[m].error)
  BY DEF Armed, Cal!ArmedIsKept
<1>2. Marks(m)
  OBVIOUS
<1> QED
  BY <1>1, <1>2 DEF Marks

Rest(new) ==
    /\ new \in [at : {"idle", "due"}, todo : SUBSET Meetings, meeting : {NoMeeting}]
    /\ new.at = "due" => new.todo # {}

LEMMA AfterFailureRests ==
  ASSUME NEW todo \in SUBSET Meetings PROVE Rest(Cal!AfterFailure(todo)) /\ Rest(Cal!Resting)
BY DEF Cal!AfterFailure, Cal!Resting, Rest

(* A starter that was not linking comes to rest.                           *)
LEMMA RestsKeeps ==
  ASSUME Cal!CalendarConstants, Armed, NEW who \in Cal!Starters, start[who].at # "linking", NEW new, Rest(new),
         start' = [start EXCEPT ![who] = new],
         rows' \in [Meetings -> Row], \A m \in Meetings : Marks(m),
         UNCHANGED <<now, agenda, sync, calls, wanted, vanished, taint>>
  PROVE  Armed'
<1>1. /\ start' \in [Cal!Starters -> Stage]
      /\ start'[who] = new /\ \A w \in Cal!Starters : w # who => start'[w] = start[w]
  <2>1. new \in Stage
    BY DEF Rest, Stage
  <2> QED
    BY <2>1 DEF Armed, RowsTyped
<1>2. RowsTyped'
  BY <1>1 DEF Armed, RowsTyped, Row
<1>3. Unfound' /\ Cal!ArmedIsKept'
  BY MarkedKept DEF Armed, Unfound
<1>4. new.at \notin {"starting", "linking"} /\ new.meeting \notin Meetings /\ (new.at = "due" => new.todo # {})
  BY CalendarFacts DEF Rest
<1>5. Turning' = Turning \ {who} /\ \A w \in Cal!Starters : Turns(w)'
  <2>1. Turning' = Turning \ {who}
    BY <1>1, <1>4 DEF Turning
  <2>2. \A w \in Cal!Starters : Turns(w)
    BY DEF Armed
  <2> QED
    BY <1>1, <1>4, <2>1, <2>2 DEF Turns
<1>6. ASSUME taint' = {} PROVE Uncrossed' /\ Single'
  <2>1. Uncrossed /\ Single
    BY <1>6 DEF Armed
  <2>2. ASSUME NEW m \in Meetings, Linked(m) PROVE Linked(m)'
    BY <1>1, <2>2 DEF Linked, Marks
  <2>3. \A c \in DOMAIN calls : calls[c] # NoMeeting => calls[c] \in Meetings
    BY DEF Armed, RowsTyped
  <2>4. ASSUME NEW w \in Turning' PROVE w \in Turning /\ start'[w] = start[w] /\ Marks(start[w].meeting)
    BY <1>1, <1>5, <2>4 DEF Armed, Turning, Turns
  <2>5. \A w \in Turning' : /\ rows'[start'[w].meeting].stored
                            /\ start'[w].at = "starting" => rows'[start'[w].meeting].call = 0
    BY <2>1, <2>4 DEF Uncrossed, Marks
  <2>6. \A w, v \in Turning' : start'[w].meeting = start'[v].meeting => w = v
    BY <2>1, <2>4 DEF Uncrossed
  <2>7. Uncrossed'
    BY <2>1, <2>2, <2>3, <2>5, <2>6 DEF Uncrossed, Told
  <2> QED
    BY <2>1, <2>7 DEF Single
<1> QED
  BY <1>2, <1>3, <1>5, <1>6 DEF Armed


LEMMA SameCalls ==
  ASSUME Armed, UNCHANGED <<start, calls, taint>>, Turning' = Turning,
         \A m \in Meetings : rows'[m].stored = rows[m].stored /\ rows'[m].call = rows[m].call
  PROVE  taint' = {} => Uncrossed' /\ Single'
<1> SUFFICES ASSUME taint' = {} PROVE Uncrossed' /\ Single'
  OBVIOUS
<1>1. Uncrossed /\ Single
  BY DEF Armed
<1>2. \A m \in Meetings : Linked(m) => Linked(m)'
  BY DEF Linked
<1>3. \A c \in DOMAIN calls : calls[c] # NoMeeting => calls[c] \in Meetings
  BY DEF Armed, RowsTyped
<1>4. \A w \in Turning : start[w].meeting \in Meetings
  BY DEF Armed, Turning, Turns
<1>5. Uncrossed'
  BY <1>1, <1>2, <1>3, <1>4 DEF Uncrossed, Told
<1> QED
  BY <1>1, <1>5 DEF Single

LEMMA SetRecordKeeps ==
  ASSUME Cal!CalendarConstants, Armed, NEW m \in Meetings, NEW on \in BOOLEAN, Cal!SetRecord(m, on)
  PROVE  Armed'
<1> DEFINE new == [rows[m] EXCEPT !.record = on, !.error = FALSE]
<1>1. /\ rows[m].stored /\ rows' = [rows EXCEPT ![m] = new]
      /\ wanted' = IF on THEN wanted \cup {m} ELSE wanted \ {m}
      /\ vanished' = IF \E s \in Syncers : sync[s].at = "read" /\ sync[s].events[m] = NoMeeting
                     THEN vanished ELSE vanished \ {m}
      /\ UNCHANGED <<now, agenda, sync, start, calls, taint>>
  BY DEF Cal!SetRecord, Armed, RowsTyped
<1>2. rows \in [Meetings -> Row] /\ rows[m] \in Row
  BY DEF Armed, RowsTyped, Row
<1>3. /\ new \in Row /\ new.stored = rows[m].stored /\ new.call = rows[m].call /\ new.record = on
  BY <1>2 DEF Row
<1> HIDE DEF new
<1>4. rows' \in [Meetings -> Row] /\ rows'[m] = new /\ \A k \in Meetings : k # m => rows'[k] = rows[k]
  BY <1>1, <1>2, <1>3
<1>5. RowsTyped'
  BY <1>1, <1>4 DEF Armed, RowsTyped, Row
<1>6. Unfound'
  BY <1>1 DEF Armed, Unfound
<1>7. Cal!ArmedIsKept'
  <2> SUFFICES ASSUME NEW k \in Meetings, k \in wanted' \ vanished'
               PROVE  rows'[k].stored /\ (rows'[k].record \/ rows'[k].call # 0 \/ rows'[k].error)
    BY <1>5 DEF RowsTyped, Cal!ArmedIsKept
  <2>1. CASE k = m
    BY <1>1, <1>3, <1>4, <2>1
  <2>2. CASE k # m
    <3>1. k \in wanted \ vanished /\ rows'[k] = rows[k]
      BY <1>1, <1>4, <2>2
    <3> QED
      BY <3>1 DEF Armed, Cal!ArmedIsKept
  <2> QED
    BY <2>1, <2>2
<1>8. Turning' = Turning /\ \A w \in Cal!Starters : Turns(w)'
  BY <1>1 DEF Armed, Turns, Turning
<1>9. \A k \in Meetings : rows'[k].stored = rows[k].stored /\ rows'[k].call = rows[k].call
  BY <1>3, <1>4
<1>10. taint' = {} => Uncrossed' /\ Single'
  BY <1>1, <1>8, <1>9, SameCalls
<1> QED
  BY <1>5, <1>6, <1>7, <1>8, <1>10 DEF Armed

(* A row is stored and without a call: its starter begins, or it comes to  *)
(* rest.                                                                   *)
LEMMA BeginsKeeps ==
  ASSUME Cal!CalendarConstants, Armed, NEW who \in Cal!Starters, start[who].at \in {"idle", "due"},
         NEW m \in Meetings, Cal!Begins(who, m),
         UNCHANGED <<now, agenda, sync, calls, wanted, vanished>>
  PROVE  Armed'
<1>1. rows \in [Meetings -> Row]
  BY DEF Armed, RowsTyped, Row
<1>2. /\ start \in [Cal!Starters -> Stage]
      /\ start[who].todo \in SUBSET Meetings
  BY DEF Armed, RowsTyped, Stage
<1>3. CASE ~Cal!Recordable(m)
  <2>1. /\ start' = [start EXCEPT ![who] = Cal!AfterFailure(start[who].todo \ {m})]
        /\ rows' = IF who = Recorder THEN Cal!Failed(who, m) ELSE rows
        /\ UNCHANGED taint
    BY <1>2, <1>3 DEF Cal!Begins
  <2>2. Rest(Cal!AfterFailure(start[who].todo \ {m}))
    BY <1>2, AfterFailureRests
  <2>3. rows' \in [Meetings -> Row] /\ \A k \in Meetings : Marks(k)
    <3>1. CASE who = Recorder
      BY <2>1, <3>1, FailedMarks
    <3>2. CASE who # Recorder
      BY <1>1, <2>1, <3>2 DEF Marks
    <3> QED
      BY <3>1, <3>2
  <2> QED
    BY <2>1, <2>2, <2>3, RestsKeeps
<1>4. CASE Cal!Recordable(m)
  <2> DEFINE new == [at |-> "starting", meeting |-> m, todo |-> start[who].todo \ {m}]
  <2>1. /\ start' = [start EXCEPT ![who] = new] /\ rows' = rows
        /\ taint' = taint \cup Cal!If(\E w \in Cal!Starters : start[w].meeting = m, "started twice")
    <3>1. start' = [start EXCEPT ![who] = new]
      BY <1>4 DEF Cal!Begins
    <3>2. UNCHANGED rows /\ Cal!Taint(Cal!If(\E w \in Cal!Starters : start[w].meeting = m, "started twice"))
      BY <1>4 DEF Cal!Begins
    <3> QED
      BY <3>1, <3>2 DEF Cal!Taint
  <2>2. /\ new \in Stage
        /\ new.at = "starting" /\ new.meeting = m
    BY <1>2 DEF Stage
  <2> HIDE DEF new
  <2>3. /\ start' \in [Cal!Starters -> Stage]
        /\ start'[who] = new /\ \A w \in Cal!Starters : w # who => start'[w] = start[w]
    BY <1>2, <2>1, <2>2
  <2>4. RowsTyped'
    <3>1. taint' \subseteq Cal!Races
      BY <2>1, CalendarFacts DEF Armed, RowsTyped, Cal!If
    <3> QED
      BY <2>1, <2>3, <3>1 DEF Armed, RowsTyped
  <2>5. Unfound' /\ Cal!ArmedIsKept'
    BY <2>1 DEF Armed, Unfound, Cal!ArmedIsKept
  <2>6. Turning' = Turning \cup {who} /\ who \notin Turning
    BY <2>2, <2>3 DEF Turning
  <2>7. \A w \in Cal!Starters : Turns(w)'
    <3>1. \A w \in Cal!Starters : Turns(w)
      BY DEF Armed
    <3> QED
      BY <2>2, <2>3, <2>6, <3>1 DEF Turns
  <2>8. ASSUME taint' = {} PROVE Uncrossed' /\ Single'
    <3>1. taint = {} /\ (\A w \in Cal!Starters : start[w].meeting # m) /\ Uncrossed /\ Single
      BY <2>1, <2>8 DEF Armed, Cal!If
    <3>2. ASSUME NEW k, Linked(k) PROVE Linked(k)'
      <4>1. CASE rows[k].stored /\ rows[k].call # 0
        BY <2>1, <4>1 DEF Linked
      <4>2. CASE \E w \in Cal!Starters : start[w].at = "linking" /\ start[w].meeting = k
        <5>1. PICK w \in Cal!Starters : start[w].at = "linking" /\ start[w].meeting = k
          BY <4>2
        <5>2. start'[w] = start[w]
          BY <2>3, <5>1
        <5> QED
          BY <5>1, <5>2 DEF Linked
      <4> QED
        BY <3>2, <4>1, <4>2 DEF Linked
    <3>3. \A w \in Turning' : /\ rows'[start'[w].meeting].stored
                              /\ start'[w].at = "starting" => rows'[start'[w].meeting].call = 0
      <4> SUFFICES ASSUME NEW w \in Turning'
                   PROVE  /\ rows[start'[w].meeting].stored
                          /\ start'[w].at = "starting" => rows[start'[w].meeting].call = 0
        BY <2>1
      <4>1. CASE w = who
        BY <1>4, <2>2, <2>3, <4>1 DEF Cal!Recordable
      <4>2. CASE w # who
        <5>1. w \in Turning /\ start'[w] = start[w]
          BY <2>3, <2>6, <4>2 DEF Turning
        <5> QED
          BY <3>1, <5>1 DEF Uncrossed
      <4> QED
        BY <4>1, <4>2
    <3>4. ASSUME NEW w \in Turning', NEW v \in Turning', start'[w].meeting = start'[v].meeting PROVE w = v
      <4>1. w \in Cal!Starters /\ v \in Cal!Starters
        BY DEF Turning
      <4>2. (w = who \/ w \in Turning) /\ (v = who \/ v \in Turning)
        BY <2>6
      <4> QED
        BY <2>2, <2>3, <3>1, <3>4, <4>1, <4>2 DEF Uncrossed
    <3>5. Uncrossed'
      BY <3>1, <3>2, <3>3, <3>4 DEF Uncrossed, Told
    <3> QED
      BY <3>1, <3>5 DEF Single
  <2> QED
    BY <2>4, <2>5, <2>7, <2>8 DEF Armed
<1> QED
  BY <1>3, <1>4

LEMMA Smallest ==
  ASSUME NEW T \in SUBSET Nat, T # {}
  PROVE  \E x \in T : \A y \in T : x <= y
<1>1. IsWellFoundedOn(OpToRel(<, Nat), Nat)
  BY NatLessThanWellFounded
<1>2. \E x \in T : \A y \in T : ~(<<y, x>> \in OpToRel(<, Nat))
  BY <1>1, WFMin
<1>3. PICK x \in T : \A y \in T : ~(<<y, x>> \in OpToRel(<, Nat))
  BY <1>2
<1>4. ASSUME NEW y \in T PROVE x <= y
  <2>1. <<y, x>> \in Nat \X Nat /\ x \in Nat /\ y \in Nat
    OBVIOUS
  <2>2. ~(<<y, x>> \in {ss \in Nat \X Nat : ss[1] < ss[2]})
    BY <1>3 DEF OpToRel
  <2>3. ~(y < x)
    BY <2>1, <2>2
  <2> QED
    BY <2>1, <2>3
<1> QED
  BY <1>4

LEMMA EarliestIs ==
  ASSUME Cal!CalendarConstants, Armed, NEW ms \in SUBSET Meetings, ms # {}
  PROVE  Cal!Earliest(ms) \in ms
<1> DEFINE T == {rows[m].start : m \in ms}
<1>1. T \in SUBSET Nat /\ T # {}
  <2>1. \A m \in ms : rows[m] \in Row
    BY DEF Armed, RowsTyped, Row
  <2>2. 0..MaxTime \subseteq Nat
    <3>1. MaxTime \in Nat
      BY CalendarFacts
    <3> QED
      BY <3>1
  <2>3. \A m \in ms : rows[m].start \in Nat
    BY <2>1, <2>2 DEF Row
  <2> QED
    BY <2>3
<1>2. PICK x \in T : \A y \in T : x <= y
  <2> HIDE DEF T
  <2> QED
    BY <1>1, Smallest
<1>3. \E m \in ms : \A k \in ms : rows[m].start <= rows[k].start
  BY <1>2
<1> QED
  BY <1>3 DEF Cal!Earliest

LEMMA CallOfIs ==
  ASSUME Armed, NEW m, \E c \in DOMAIN calls : calls[c] = m
  PROVE  Cal!CallOf(m) \in Nat \ {0}
<1> DEFINE T == {Len(calls) - c : c \in {k \in DOMAIN calls : calls[k] = m}}
<1>1. DOMAIN calls = 1..Len(calls) /\ Len(calls) \in Nat
  BY DEF Armed, RowsTyped
<1>2. T \in SUBSET Nat /\ T # {}
  BY <1>1
<1>3. PICK x \in T : \A y \in T : x <= y
  <2> HIDE DEF T
  <2> QED
    BY <1>2, Smallest
<1>4. PICK c \in DOMAIN calls : calls[c] = m /\ x = Len(calls) - c
  BY <1>3
<1>5. ASSUME NEW k \in DOMAIN calls, calls[k] = m PROVE k <= c
  <2>1. Len(calls) - k \in T
    BY <1>5
  <2>2. Len(calls) - c <= Len(calls) - k
    BY <1>3, <1>4, <2>1
  <2> QED
    BY <1>1, <2>2
<1>6. Cal!CallOf(m) \in DOMAIN calls
  BY <1>4, <1>5 DEF Cal!CallOf
<1> QED
  BY <1>1, <1>6

LEMMA ClickNowKeeps ==
  ASSUME Cal!CalendarConstants, Armed, NEW m \in Meetings, Cal!ClickNow(m) PROVE Armed'
<1>1. /\ Click \in Cal!Starters /\ start[Click].at = "idle" /\ Cal!Begins(Click, m)
      /\ UNCHANGED <<now, agenda, sync, calls, wanted, vanished>>
  BY CalendarFacts DEF Cal!ClickNow
<1> QED
  BY <1>1, BeginsKeeps

LEMMA DueNowKeeps == ASSUME Cal!CalendarConstants, Armed, Cal!DueNow PROVE Armed'
<1> DEFINE m == Cal!Earliest(start[Recorder].todo)
<1>1. /\ Recorder \in Cal!Starters /\ start[Recorder].at = "due" /\ Cal!Begins(Recorder, m)
      /\ UNCHANGED <<now, agenda, sync, calls, wanted, vanished>>
  BY CalendarFacts DEF Cal!DueNow
<1>2. start[Recorder].todo \in SUBSET Meetings /\ start[Recorder].todo # {}
  BY <1>1 DEF Armed, RowsTyped, Turns, Stage
<1>3. m \in Meetings
  BY <1>2, EarliestIs
<1> HIDE DEF m
<1> QED
  BY <1>1, <1>3, BeginsKeeps

(* A call begins: its meeting had none, for its row waits and it is nobody *)
(* else's.                                                                 *)
LEMMA StartCallKeeps ==
  ASSUME Cal!CalendarConstants, Armed, NEW who \in Cal!Starters, NEW works \in BOOLEAN, Cal!StartCall(who, works)
  PROVE  Armed'
<1> DEFINE m == start[who].meeting
<1>1. start[who].at = "starting" /\ who \in Turning /\ m \in Meetings /\ m # NoMeeting
  BY CalendarFacts DEF Cal!StartCall, Armed, Turning, Turns
<1>2. /\ start \in [Cal!Starters -> Stage]
      /\ start[who].todo \in SUBSET Meetings
      /\ calls \in Seq(Meetings \cup {NoMeeting})
  BY DEF Armed, RowsTyped, Stage
<1>3. UNCHANGED <<now, agenda, sync, wanted, vanished, taint>>
  BY DEF Cal!StartCall
<1>4. CASE ~works
  <2>1. /\ rows' = Cal!Failed(who, m) /\ calls' = calls
        /\ start' = [start EXCEPT ![who] = Cal!AfterFailure(start[who].todo)]
    BY <1>2, <1>4 DEF Cal!StartCall
  <2>2. rows' \in [Meetings -> Row] /\ \A k \in Meetings : Marks(k)
    BY <1>1, <2>1, FailedMarks
  <2>3. Rest(Cal!AfterFailure(start[who].todo))
    BY <1>2, AfterFailureRests
  <2> QED
    BY <1>1, <1>3, <2>1, <2>2, <2>3, RestsKeeps
<1>5. CASE works
  <2>1. /\ calls' = Append(calls, m) /\ rows' = rows
        /\ start' = [start EXCEPT ![who].at = "linking"]
    BY <1>5 DEF Cal!StartCall
  <2>2. /\ start' \in [Cal!Starters -> Stage]
        /\ start'[who].at = "linking" /\ start'[who].meeting = m
        /\ \A w \in Cal!Starters : w # who => start'[w] = start[w]
    BY <1>2, <2>1 DEF Stage
  <2>3. /\ calls' \in Seq(Meetings \cup {NoMeeting})
        /\ DOMAIN calls = 1..Len(calls) /\ Len(calls) \in Nat
        /\ DOMAIN calls' = DOMAIN calls \cup {Len(calls) + 1} /\ calls'[Len(calls) + 1] = m
        /\ \A c \in DOMAIN calls : calls'[c] = calls[c]
    BY <1>1, <1>2, <2>1
  <2>4. RowsTyped'
    BY <1>3, <2>1, <2>2, <2>3 DEF Armed, RowsTyped
  <2>5. Unfound' /\ Cal!ArmedIsKept'
    BY <1>3, <2>1 DEF Armed, Unfound, Cal!ArmedIsKept
  <2>6. Turning' = Turning
    BY <1>1, <2>2 DEF Turning
  <2>7. \A w \in Cal!Starters : Turns(w)'
    <3>1. \A w \in Cal!Starters : Turns(w)
      BY DEF Armed
    <3>2. Turns(who)'
      BY <1>1, <2>2, <2>3, <2>6 DEF Turns
    <3>3. \A w \in Cal!Starters : w # who => Turns(w)'
      BY <2>2, <2>3, <2>6, <3>1 DEF Turns
    <3> QED
      BY <3>2, <3>3
  <2>8. ASSUME taint' = {} PROVE Uncrossed' /\ Single'
    <3>1. Uncrossed /\ Single
      BY <1>3, <2>8 DEF Armed
    <3>2. ASSUME NEW k, Linked(k) PROVE Linked(k)'
      <4>1. CASE rows[k].stored /\ rows[k].call # 0
        BY <2>1, <4>1 DEF Linked
      <4>2. CASE \E w \in Cal!Starters : start[w].at = "linking" /\ start[w].meeting = k
        <5>1. PICK w \in Cal!Starters : start[w].at = "linking" /\ start[w].meeting = k
          BY <4>2
        <5>2. start'[w] = start[w]
          BY <1>1, <2>2, <5>1
        <5> QED
          BY <5>1, <5>2 DEF Linked
      <4> QED
        BY <3>2, <4>1, <4>2 DEF Linked
    <3>3. Linked(m)'
      BY <2>2 DEF Linked
    <3>4. ~Linked(m)
      <4>1. rows[m].stored /\ rows[m].call = 0
        BY <1>1, <3>1 DEF Uncrossed
      <4>2. ASSUME NEW w \in Cal!Starters, start[w].at = "linking", start[w].meeting = m PROVE FALSE
        <5>1. w \in Turning
          BY <4>2 DEF Turning
        <5>2. w = who
          BY <1>1, <3>1, <4>2, <5>1 DEF Uncrossed
        <5> QED
          BY <1>1, <4>2, <5>2
      <4> QED
        BY <4>1, <4>2 DEF Linked
    <3>5. \A c \in DOMAIN calls : calls[c] # m
      BY <1>1, <3>1, <3>4 DEF Uncrossed, Told
    <3>6. Told'
      <4> SUFFICES ASSUME NEW c \in DOMAIN calls', calls'[c] # NoMeeting
                   PROVE  \/ rows'[calls'[c]].stored /\ rows'[calls'[c]].call # 0
                          \/ \E w \in Cal!Starters : start'[w].at = "linking" /\ start'[w].meeting = calls'[c]
        BY DEF Told, Linked
      <4>1. CASE c \in DOMAIN calls
        <5>1. Linked(calls[c])
          BY <2>3, <3>1, <4>1 DEF Uncrossed, Told
        <5> QED
          BY <2>3, <3>2, <4>1, <5>1 DEF Linked
      <4>2. CASE c = Len(calls) + 1
        BY <2>2, <2>3, <4>2
      <4> QED
        BY <2>3, <4>1, <4>2
    <3>7. \A w \in Turning' : /\ rows'[start'[w].meeting].stored
                              /\ start'[w].at = "starting" => rows'[start'[w].meeting].call = 0
      BY <2>1, <2>2, <2>6, <3>1 DEF Uncrossed, Turning
    <3>8. \A w \in Turning : w \in Cal!Starters /\ start'[w].meeting = start[w].meeting
      BY <2>2 DEF Turning
    <3>9. Uncrossed'
      BY <2>6, <3>1, <3>6, <3>7, <3>8 DEF Uncrossed
    <3>10. Single'
      BY <2>3, <3>1, <3>5 DEF Single
    <3> QED
      BY <3>9, <3>10
  <2> QED
    BY <2>4, <2>5, <2>7, <2>8 DEF Armed
<1> QED
  BY <1>4, <1>5

LEMMA LinkCallKeeps ==
  ASSUME Cal!CalendarConstants, Armed, NEW who \in Cal!Starters, Cal!LinkCall(who) PROVE Armed'
<1> DEFINE m == start[who].meeting
           new == [rows[m] EXCEPT !.call = Cal!CallOf(m), !.error = FALSE]
<1>1. start[who].at = "linking" /\ who \in Turning /\ m \in Meetings
  BY CalendarFacts DEF Cal!LinkCall, Armed, Turning, Turns
<1>2. /\ start \in [Cal!Starters -> Stage]
      /\ rows \in [Meetings -> Row] /\ rows[m] \in Row
  BY <1>1 DEF Armed, RowsTyped, Row
<1>3. /\ rows' = IF rows[m].stored THEN [rows EXCEPT ![m] = new] ELSE rows
      /\ start' = [start EXCEPT ![who] = Cal!Resting]
      /\ UNCHANGED <<now, agenda, sync, calls, wanted, vanished, taint>>
  BY <1>1, <1>2 DEF Cal!LinkCall
<1>4. Cal!CallOf(m) \in Nat \ {0}
  BY <1>1, CallOfIs DEF Armed, Turns
<1>5. /\ new \in Row /\ new.stored = rows[m].stored /\ new.call # 0 /\ new.record = rows[m].record
  BY <1>2, <1>4 DEF Row
<1>6. /\ start' \in [Cal!Starters -> Stage]
      /\ start'[who].at = "idle" /\ start'[who].meeting = NoMeeting
      /\ \A w \in Cal!Starters : w # who => start'[w] = start[w]
  <2>1. Cal!Resting \in Stage
        /\ Cal!Resting.at = "idle" /\ Cal!Resting.meeting = NoMeeting
    BY DEF Cal!Resting, Stage
  <2> QED
    BY <1>2, <1>3, <2>1
<1> HIDE DEF new
<1>7. /\ rows' \in [Meetings -> Row] /\ (rows[m].stored => rows'[m] = new) /\ rows'[m].stored = rows[m].stored
      /\ \A k \in Meetings : k # m => rows'[k] = rows[k]
  BY <1>1, <1>2, <1>3, <1>5
<1>8. RowsTyped'
  BY <1>3, <1>6, <1>7 DEF Armed, RowsTyped, Row
<1>9. Unfound'
  BY <1>3 DEF Armed, Unfound
<1>10. Cal!ArmedIsKept'
  <2> SUFFICES ASSUME NEW k \in Meetings, k \in wanted \ vanished
               PROVE  rows'[k].stored /\ (rows'[k].record \/ rows'[k].call # 0 \/ rows'[k].error)
    BY <1>3 DEF Armed, RowsTyped, Cal!ArmedIsKept
  <2>1. rows[k].stored /\ (rows[k].record \/ rows[k].call # 0 \/ rows[k].error)
    BY DEF Armed, Cal!ArmedIsKept
  <2>2. CASE k = m
    BY <1>5, <1>7, <2>1, <2>2
  <2>3. CASE k # m
    BY <1>7, <2>1, <2>3
  <2> QED
    BY <2>2, <2>3
<1>11. Turning' = Turning \ {who} /\ \A w \in Cal!Starters : Turns(w)'
  <2>1. Turning' = Turning \ {who}
    BY <1>6 DEF Turning
  <2>2. \A w \in Cal!Starters : Turns(w)
    BY DEF Armed
  <2> QED
    BY <1>3, <1>6, <2>1, <2>2, CalendarFacts DEF Turns
<1>12. ASSUME taint' = {} PROVE Uncrossed' /\ Single'
  <2>1. Uncrossed /\ Single
    BY <1>3, <1>12 DEF Armed
  <2>2. rows'[m].stored /\ rows'[m].call # 0
    BY <1>1, <1>5, <1>7, <2>1 DEF Uncrossed
  <2>3. ASSUME NEW k \in Meetings, Linked(k) PROVE Linked(k)'
    <3>1. CASE k = m
      BY <2>2, <3>1 DEF Linked
    <3>2. CASE k # m
      BY <1>6, <1>7, <2>3, <3>2 DEF Linked
    <3> QED
      BY <3>1, <3>2
  <2>4. \A c \in DOMAIN calls : calls[c] # NoMeeting => calls[c] \in Meetings
    BY DEF Armed, RowsTyped
  <2>5. ASSUME NEW w \in Turning'
        PROVE  w \in Turning /\ start'[w] = start[w] /\ start[w].meeting \in Meetings /\ start[w].meeting # m
    <3>1. w \in Turning /\ w # who /\ w \in Cal!Starters
      BY <1>11, <2>5 DEF Turning
    <3> QED
      BY <1>1, <1>6, <2>1, <3>1 DEF Armed, Turns, Uncrossed
  <2>6. \A w \in Turning' : /\ rows'[start'[w].meeting].stored
                            /\ start'[w].at = "starting" => rows'[start'[w].meeting].call = 0
    BY <1>7, <2>1, <2>5 DEF Uncrossed
  <2>7. \A w, v \in Turning' : start'[w].meeting = start'[v].meeting => w = v
    BY <2>1, <2>5 DEF Uncrossed
  <2>9. Told'
    BY <1>3, <2>1, <2>3, <2>4 DEF Uncrossed, Told, Linked
  <2>10. Uncrossed'
    BY <2>6, <2>7, <2>9 DEF Uncrossed
  <2> QED
    BY <1>3, <2>1, <2>10 DEF Single
<1> QED
  BY <1>8, <1>9, <1>10, <1>11, <1>12 DEF Armed

LEMMA TickKeeps == ASSUME Cal!CalendarConstants, Armed, Cal!Tick PROVE Armed'
<1> DEFINE missed == {m \in Meetings : Cal!Armed(m) /\ now >= rows[m].start + Duration}
           due    == {m \in Meetings : Cal!Armed(m) /\ now >= rows[m].start - Lead} \ missed
           new    == IF live' = 0 THEN Cal!AfterFailure(due) ELSE Cal!Resting
<1>1. /\ start[Recorder].at = "idle"
      /\ rows' = [m \in Meetings |->
             IF m \in missed THEN [rows[m] EXCEPT !.record = FALSE, !.error = TRUE] ELSE rows[m]]
      /\ start' = [start EXCEPT ![Recorder] = new]
      /\ UNCHANGED <<now, agenda, sync, calls, wanted, vanished, taint>>
  BY DEF Cal!Tick
<1>2. due \in SUBSET Meetings
  OBVIOUS
<1> HIDE DEF missed, due
<1>3. Rest(new)
  BY <1>2, AfterFailureRests
<1>4. \A m \in Meetings : rows[m] \in Row
  BY DEF Armed, RowsTyped, Row
<1>5. \A m \in Meetings : rows'[m] \in Row /\ Marks(m)
  BY <1>1, <1>4 DEF Row, Marks
<1>6. rows' \in [Meetings -> Row]
  BY <1>1, <1>5
<1> HIDE DEF new
<1> QED
  BY <1>1, <1>3, <1>5, <1>6, CalendarFacts, RestsKeeps

LEMMA OtherCallKeeps == ASSUME Cal!CalendarConstants, Armed, Cal!OtherCall PROVE Armed'
<1>1. /\ calls' = Append(calls, NoMeeting)
      /\ UNCHANGED <<now, agenda, rows, sync, start, wanted, vanished, taint>>
  BY DEF Cal!OtherCall
<1>2. /\ calls' \in Seq(Meetings \cup {NoMeeting})
      /\ DOMAIN calls' = DOMAIN calls \cup {Len(calls) + 1} /\ calls'[Len(calls) + 1] = NoMeeting
      /\ \A c \in DOMAIN calls : calls'[c] = calls[c]
  BY <1>1 DEF Armed, RowsTyped
<1>3. RowsTyped'
  BY <1>1, <1>2 DEF Armed, RowsTyped
<1>4. Unfound' /\ Cal!ArmedIsKept'
  BY <1>1 DEF Armed, Unfound, Cal!ArmedIsKept
<1>5. Turning' = Turning /\ \A w \in Cal!Starters : Turns(w)'
  BY <1>1, <1>2 DEF Armed, Turns, Turning
<1>6. ASSUME taint' = {} PROVE Uncrossed' /\ Single'
  <2>1. Uncrossed /\ Single
    BY <1>1, <1>6 DEF Armed
  <2>2. \A k : Linked(k)' = Linked(k)
    BY <1>1 DEF Linked
  <2>3. \A c \in DOMAIN calls' : calls'[c] # NoMeeting => c \in DOMAIN calls /\ calls'[c] = calls[c]
    BY <1>2
  <2>4. Told'
    BY <1>1, <2>1, <2>3 DEF Uncrossed, Told, Linked
  <2>5. Uncrossed'
    BY <1>1, <1>5, <2>1, <2>4 DEF Uncrossed
  <2>6. Single'
    BY <2>1, <2>3 DEF Single
  <2> QED
    BY <2>5, <2>6
<1> QED
  BY <1>3, <1>4, <1>5, <1>6 DEF Armed

LEMMA DiesKeeps == ASSUME Cal!CalendarConstants, Armed, Cal!Dies PROVE Armed'
<1>1. /\ sync' = [s \in Syncers |-> Cal!NoRead] /\ start' = [w \in Cal!Starters |-> Cal!Resting]
      /\ taint' = taint \cup Cal!If(\E w \in Cal!Starters : start[w].at = "linking", "unlinked")
      /\ UNCHANGED <<now, agenda, rows, calls, wanted, vanished>>
  BY DEF Cal!Dies, Cal!Taint
<1>2. RowsTyped'
  <2>1. sync' \in [Syncers -> Copy]
    BY <1>1 DEF Cal!NoRead, Copy
  <2>2. start' \in [Cal!Starters -> Stage]
    BY <1>1 DEF Cal!Resting, Stage
  <2>3. taint' \subseteq Cal!Races
    BY <1>1, CalendarFacts DEF Armed, RowsTyped, Cal!If
  <2> QED
    BY <1>1, <2>1, <2>2, <2>3 DEF Armed, RowsTyped
<1>3. Unfound'
  BY <1>1 DEF Unfound, Cal!NoRead
<1>4. Cal!ArmedIsKept'
  BY <1>1 DEF Armed, Cal!ArmedIsKept
<1>5. Turning' = {} /\ \A w \in Cal!Starters : Turns(w)'
  BY <1>1, CalendarFacts DEF Turns, Turning, Cal!Resting
<1>6. ASSUME taint' = {} PROVE Uncrossed' /\ Single'
  <2>1. Uncrossed /\ Single /\ \A w \in Cal!Starters : start[w].at # "linking"
    BY <1>1, <1>6 DEF Armed, Cal!If
  <2>2. \A c \in DOMAIN calls : calls[c] # NoMeeting => rows[calls[c]].stored /\ rows[calls[c]].call # 0
    BY <2>1 DEF Uncrossed, Told, Linked
  <2>3. Uncrossed'
    BY <1>1, <1>5, <2>2 DEF Uncrossed, Told, Linked
  <2> QED
    BY <1>1, <2>1, <2>3 DEF Single
<1> QED
  BY <1>2, <1>3, <1>4, <1>5, <1>6 DEF Armed

LEMMA CalNextKeeps == ASSUME Cal!CalendarConstants, Armed, [Cal!Next]_(Cal!vars) PROVE Armed'
<1>1. now \in Nat /\ agenda \in [Meetings -> Starts \cup {NoMeeting}]
  BY DEF Armed, RowsTyped
<1>2. CASE Cal!Copying
  BY <1>2, SyncReadsKeeps, SyncWritesKeeps, SyncFailsKeeps DEF Cal!Copying, Cal!Syncing
<1>3. CASE Cal!Recording
  BY <1>3, TickKeeps, DueNowKeeps, StartCallKeeps, LinkCallKeeps DEF Cal!Recording, Cal!Starting
<1>4. CASE Cal!Seller
  <2>1. CASE \E m \in Meetings : Cal!ClickNow(m) \/ \E on \in BOOLEAN : Cal!SetRecord(m, on)
    BY <2>1, ClickNowKeeps, SetRecordKeeps
  <2>2. CASE Cal!OtherCall
    BY <2>2, OtherCallKeeps
  <2>3. CASE Cal!StopCall
    BY <1>1, <2>3, Elsewhere DEF Cal!StopCall
  <2> QED
    BY <1>4, <2>1, <2>2, <2>3 DEF Cal!Seller
<1>5. CASE Cal!World
  <2>1. CASE Cal!Pass
    <3>1. now' \in Nat
      BY <1>1, <2>1 DEF Cal!Pass
    <3> QED
      BY <1>1, <2>1, <3>1, Elsewhere DEF Cal!Pass
  <2>2. CASE Cal!Dies
    BY <2>2, DiesKeeps
  <2>3. ASSUME NEW m \in Meetings, NEW t \in Starts \cup {NoMeeting}, Cal!Reschedule(m, t) PROVE Armed'
    <3>1. agenda' \in [Meetings -> Starts \cup {NoMeeting}]
      BY <1>1, <2>3 DEF Cal!Reschedule
    <3> QED
      BY <1>1, <2>3, <3>1, Elsewhere DEF Cal!Reschedule
  <2> QED
    BY <1>5, <2>1, <2>2, <2>3 DEF Cal!World
<1>6. CASE Cal!Filling
  <2>1. UNCHANGED Cal!recording
    BY <1>6 DEF Cal!Filling, Cal!FillReads, Cal!FillFails, Cal!FillWrites, Cal!EditDraft, Cal!SendDraft
  <2> QED
    BY <1>1, <2>1, Elsewhere DEF Cal!recording
<1>7. CASE UNCHANGED Cal!vars
  BY <1>1, <1>7, Elsewhere DEF Cal!vars, Cal!recording
<1> QED
  BY <1>2, <1>3, <1>4, <1>5, <1>6, <1>7 DEF Cal!Next

(* A meeting armed for recording stays armed, or is recorded, or says why  *)
(* not, whatever copies, clicks and deaths come between; without a race it *)
(* is recorded once (automation/calendar.py, start_recording, sync_events, *)
(* recorder_tick).                                                         *)
THEOREM ArmedIsRecordedHolds == Cal!Spec => []ArmedIsRecorded
<1>1. Cal!Init => Armed
  BY InstanceConstants, InitRecorded
<1>2. Armed /\ [Cal!Next]_(Cal!vars) => Armed'
  BY InstanceConstants, CalNextKeeps
<1>3. Armed => ArmedIsRecorded
  <2> SUFFICES ASSUME Armed PROVE ArmedIsRecorded
    OBVIOUS
  <2>1. Cal!Short({"started twice", "unlinked"}) => taint = {}
    BY InstanceConstants, CalendarFacts DEF Armed, RowsTyped, Cal!Short
  <2> QED
    BY <2>1 DEF Armed, Single, ArmedIsRecorded, Cal!ArmedIsRecorded, Cal!RecordedOnce
<1> QED
  BY <1>1, <1>2, <1>3, PTL DEF Cal!Spec

----------------------------------------------------------------------------
(* The slots.                                                              *)
LEMMA CalCount == \A S : Cal!Cardinality(S) = Cardinality(S)
  BY DEF Cal!Cardinality, Cardinality

LEMMA SchedulingFacts ==
  ASSUME Cal!CalendarConstants
  PROVE  /\ Scheduling.grid \in Nat \ {0} /\ Scheduling.length \in Nat \ {0}
         /\ Scheduling.opens \in Nat /\ Scheduling.closes \in Nat /\ Scheduling.buffer \in Nat
         /\ Scheduling.notBefore \in Nat /\ Scheduling.want \in Nat
         /\ Scheduling.days \in Seq(Nat) /\ Scheduling.anchors \in Seq(Nat) /\ Scheduling.anchors # <<>>
         /\ \A i, j \in DOMAIN Scheduling.days : Scheduling.days[i] = Scheduling.days[j] => i = j
         /\ \A a \in Scheduling.avoid : a.s \in Int /\ a.e \in Int /\ a.s < a.e
         /\ \A events \in Answers : \A e \in events : e.s \in Int /\ e.e \in Int /\ e.s < e.e
BY DEF Cal!CalendarConstants, Cal!SchedulingConstants

LEMMA DaysAndAnchors ==
  ASSUME Cal!CalendarConstants
  PROVE  /\ DOMAIN Scheduling.days = 1..Len(Scheduling.days) /\ Len(Scheduling.days) \in Nat
         /\ Len(Scheduling.anchors) \in Nat \ {0}
         /\ \A k \in 1..Len(Scheduling.anchors) : Scheduling.anchors[k] \in Nat
<1> DEFINE days == Scheduling.days
           anchors == Scheduling.anchors
<1>1. days \in Seq(Nat) /\ anchors \in Seq(Nat) /\ anchors # <<>>
  BY SchedulingFacts
<1> HIDE DEF days, anchors
<1>2. DOMAIN days = 1..Len(days) /\ Len(days) \in Nat
  BY <1>1
<1>3. Len(anchors) \in Nat \ {0} /\ \A k \in 1..Len(anchors) : anchors[k] \in Nat
  BY <1>1
<1> QED
  BY <1>2, <1>3 DEF days, anchors

(* Two intervals overlap where a quarter of an hour is in both.            *)
LEMMA InBoth ==
  ASSUME NEW low \in Int, NEW high \in Int, low <= high, NEW s \in Int, NEW e \in Int, s < e
  PROVE  (\E q \in low..high : s <= q /\ q < e) <=> low < e /\ s <= high
<1>1. ASSUME low < e, s <= high PROVE \E q \in low..high : s <= q /\ q < e
  <2>1. CASE s <= low
    BY <1>1, <2>1
  <2>2. CASE low < s
    BY <1>1, <2>2
  <2> QED
    BY <2>1, <2>2
<1>2. ASSUME NEW q \in low..high, s <= q, q < e PROVE low < e /\ s <= high
  BY <1>2
<1> QED
  BY <1>1, <1>2

LEMMA FreeFits ==
  ASSUME Cal!CalendarConstants, NEW events \in Answers, NEW day, NEW t \in Nat
  PROVE  t \in Cal!Free(events, day) <=> t \in 0..Scheduling.closes /\ Cal!Fits(events, day, t)
<1> DEFINE L == Scheduling.length
           B == Scheduling.buffer
           blocking == {e \in events : e.day = day /\ Cal!Blocks(e)}
<1>1. L \in Nat \ {0} /\ B \in Nat /\ t \in Int /\ t <= t + L - 1 /\ t - B <= t + L + B - 1
  <2>1. L \in Nat \ {0} /\ B \in Nat
    BY SchedulingFacts
  <2> HIDE DEF L, B
  <2> QED
    BY <2>1
<1>2. ASSUME NEW a \in Scheduling.avoid
      PROVE  ~Cal!Overlaps(Cal!Span(t), a) <=> \A q \in t..(t + L - 1) : ~(a.s <= q /\ q < a.e)
  <2>1. a.s \in Int /\ a.e \in Int /\ a.s < a.e
    BY SchedulingFacts
  <2>2. (\E q \in t..(t + L - 1) : a.s <= q /\ q < a.e) <=> t < a.e /\ a.s <= t + L - 1
    <3>1. t + L - 1 \in Int
      BY <1>1
    <3> HIDE DEF L
    <3> QED
      BY <1>1, <2>1, <3>1, InBoth
  <2>3. Cal!Overlaps(Cal!Span(t), a) <=> t < a.e /\ a.s < t + L
    BY DEF Cal!Overlaps, Cal!Span
  <2> HIDE DEF L
  <2> QED
    BY <1>1, <2>1, <2>2, <2>3
<1>3. ASSUME NEW e \in blocking
      PROVE  ~Cal!Overlaps(Cal!Span(t), [s |-> e.s - B, e |-> e.e + B])
             <=> \A q \in (t - B)..(t + L + B - 1) : ~(e.s <= q /\ q < e.e)
  <2>1. e.s \in Int /\ e.e \in Int /\ e.s < e.e
    BY SchedulingFacts
  <2>2. (\E q \in (t - B)..(t + L + B - 1) : e.s <= q /\ q < e.e)
        <=> t - B < e.e /\ e.s <= t + L + B - 1
    <3>1. t - B \in Int /\ t + L + B - 1 \in Int
      BY <1>1
    <3> HIDE DEF L, B
    <3> QED
      BY <1>1, <2>1, <3>1, InBoth
  <2>3. Cal!Overlaps(Cal!Span(t), [s |-> e.s - B, e |-> e.e + B]) <=> t < e.e + B /\ e.s - B < t + L
    BY DEF Cal!Overlaps, Cal!Span
  <2> HIDE DEF L, B
  <2> QED
    BY <1>1, <2>1, <2>2, <2>3
<1>4. (\A b \in Cal!Busy(events, day) : ~Cal!Overlaps(Cal!Span(t), b))
      <=> \A e \in blocking : ~Cal!Overlaps(Cal!Span(t), [s |-> e.s - B, e |-> e.e + B])
  <2>1. Cal!Busy(events, day) = {[s |-> e.s - B, e |-> e.e + B] : e \in blocking}
    BY DEF Cal!Busy
  <2> HIDE DEF B, blocking
  <2> QED
    BY <2>1
<1>5. (\A q \in (t - B)..(t + L + B - 1) : ~Cal!Taken(events, day, q))
      <=> \A e \in blocking : \A q \in (t - B)..(t + L + B - 1) : ~(e.s <= q /\ q < e.e)
  <2>1. \A q : Cal!Taken(events, day, q) <=> \E e \in blocking : e.s <= q /\ q < e.e
    BY DEF Cal!Taken
  <2> HIDE DEF blocking, L, B
  <2> QED
    BY <2>1
<1>6. (\A b \in Cal!Busy(events, day) : ~Cal!Overlaps(Cal!Span(t), b))
      <=> \A q \in (t - B)..(t + L + B - 1) : ~Cal!Taken(events, day, q)
  <2> HIDE DEF blocking, L, B
  <2> QED
    BY <1>3, <1>4, <1>5
<1>7. (\A a \in Scheduling.avoid : ~Cal!Overlaps(Cal!Span(t), a))
      <=> \A q \in t..(t + L - 1), a \in Scheduling.avoid : ~(a.s <= q /\ q < a.e)
  <2> HIDE DEF L
  <2> QED
    BY <1>2
<1>8. Cal!OnGrid(t) <=> /\ t % Scheduling.grid = 0 /\ Scheduling.opens <= t
                        /\ t + Scheduling.length <= Scheduling.closes
  BY SchedulingFacts DEF Cal!OnGrid
<1> QED
  BY <1>6, <1>7, <1>8 DEF Cal!Free, Cal!Fits

LEMMA NearestIs ==
  ASSUME NEW ts \in SUBSET Nat, ts # {}, NEW anchor \in Nat
  PROVE  Cal!Nearest(ts, anchor) \in ts
<1> DEFINE D(t) == Cal!Distance(t, anchor)
<1>1. \A t \in ts : D(t) \in Nat
  BY DEF Cal!Distance
<1>2. PICK d \in {D(t) : t \in ts} : \A y \in {D(t) : t \in ts} : d <= y
  <2>1. {D(t) : t \in ts} \in SUBSET Nat /\ {D(t) : t \in ts} # {}
    BY <1>1
  <2> HIDE DEF D
  <2> QED
    BY <2>1, Smallest
<1>3. PICK x \in {t \in ts : D(t) = d} : \A y \in {t \in ts : D(t) = d} : x <= y
  <2>1. {t \in ts : D(t) = d} \in SUBSET Nat /\ {t \in ts : D(t) = d} # {}
    BY <1>2
  <2> HIDE DEF D
  <2> QED
    BY <2>1, Smallest
<1>4. ASSUME NEW u \in ts PROVE D(x) < D(u) \/ (D(x) = D(u) /\ x <= u)
  <2>1. d <= D(u) /\ D(x) = d /\ d \in Nat /\ D(u) \in Nat
    BY <1>1, <1>2, <1>3
  <2>2. CASE D(u) = d
    <3>1. u \in {t \in ts : D(t) = d}
      BY <2>2
    <3> QED
      BY <1>3, <2>1, <2>2, <3>1
  <2>3. CASE D(u) # d
    <3> HIDE DEF D
    <3> QED
      BY <2>1, <2>3
  <2> QED
    BY <2>2, <2>3
<1>5. x \in ts /\ \A u \in ts : D(x) < D(u) \/ (D(x) = D(u) /\ x <= u)
  BY <1>3, <1>4
<1> QED
  BY <1>5 DEF Cal!Nearest

(* Counting from the smallest: as many as asked for have a rank up to it.  *)
LEMMA Ranks ==
  ASSUME NEW n \in Nat, NEW S \in SUBSET (1..n), NEW w \in Nat
  PROVE  LET W == {k \in S : Cal!Turn(S, k) <= w}
         IN  /\ IsFiniteSet(S) /\ IsFiniteSet(W)
             /\ Cardinality(W) = IF Cardinality(S) < w THEN Cardinality(S) ELSE w
<1> DEFINE Below(k) == {j \in S : j <= k}
           W == {k \in S : Cal!Turn(S, k) <= w}
<1>1. IsFiniteSet(S) /\ Cardinality(S) \in Nat /\ S \subseteq Nat
  <2>1. IsFiniteSet(1..n)
    BY FS_Interval
  <2>2. IsFiniteSet(S)
    BY <2>1, FS_Subset
  <2> QED
    BY <2>2, FS_CardinalityType
<1>2. \A T \in SUBSET S : IsFiniteSet(T) /\ Cardinality(T) \in Nat /\ Cardinality(T) <= Cardinality(S)
                          /\ (Cardinality(S) = Cardinality(T) => S = T)
  BY <1>1, FS_Subset, FS_CardinalityType
<1>3. \A k : Cal!Turn(S, k) = Cardinality(Below(k))
  BY CalCount DEF Cal!Turn
<1>4. W = {k \in S : Cardinality(Below(k)) <= w}
  BY <1>3
<1>5. ASSUME NEW j \in S, NEW k \in S, j <= k PROVE Cardinality(Below(j)) <= Cardinality(Below(k))
  <2>1. Below(j) \in SUBSET Below(k) /\ Below(k) \in SUBSET S
    <3>1. \A i \in S : i \in Nat
      BY <1>1
    <3>2. \A i \in S : i <= j => i <= k
      BY <1>5, <3>1
    <3> QED
      BY <3>2
  <2>2. IsFiniteSet(Below(k))
    BY <1>2, <2>1
  <2> HIDE DEF Below
  <2> QED
    BY <2>1, <2>2, FS_Subset
<1>6. \A k \in S : Below(k) \in SUBSET S /\ Cardinality(Below(k)) \in Nat /\ Cardinality(Below(k)) <= Cardinality(S)
  BY <1>2
<1>7. W \in SUBSET S /\ IsFiniteSet(W) /\ Cardinality(W) \in Nat
  BY <1>2
<1>8. ASSUME NEW j \in S, NEW k \in W, j <= k PROVE j \in W
  <2>1. k \in S /\ Cardinality(Below(k)) <= w
    BY <1>4
  <2>2. Cardinality(Below(j)) <= Cardinality(Below(k))
    BY <1>5, <1>8, <2>1
  <2>3. Cardinality(Below(j)) \in Nat /\ Cardinality(Below(k)) \in Nat
    BY <1>6, <2>1
  <2>4. Cardinality(Below(j)) <= w
    BY <2>1, <2>2, <2>3
  <2> QED
    BY <1>4, <2>4
<1>9. ASSUME Cardinality(S) <= w PROVE Cardinality(W) = Cardinality(S)
  <2>1. \A k \in S : Cardinality(Below(k)) <= w
    <3>1. \A k \in S : Cardinality(Below(k)) \in Nat /\ Cardinality(Below(k)) <= Cardinality(S)
      BY <1>6
    <3> HIDE DEF Below
    <3> QED
      BY <1>1, <1>9, <3>1
  <2>2. W = S
    BY <1>4, <2>1
  <2> HIDE DEF W
  <2> QED
    BY <2>2
<1>10. ASSUME w < Cardinality(S) PROVE Cardinality(W) = w
  <2>1. Cardinality(W) <= w
    <3>1. CASE W = {}
      <4>1. Cardinality(W) = 0
        BY <3>1, FS_EmptySet
      <4> QED
        BY <4>1
    <3>2. CASE W # {}
      <4> DEFINE T == {n - k : k \in W}
      <4>1. T \in SUBSET Nat /\ T # {}
        <5>1. \A k \in W : n - k \in Nat
          BY <1>7
        <5> HIDE DEF W
        <5> QED
          BY <3>2, <5>1
      <4>2. PICK d \in T : \A y \in T : d <= y
        <5> HIDE DEF T
        <5> QED
          BY <4>1, Smallest
      <4> HIDE DEF W
      <4>3. PICK x \in W : d = n - x
        BY <4>2
      <4>4. ASSUME NEW k \in W PROVE k <= x
        <5>1. n - x <= n - k /\ x \in 1..n /\ k \in 1..n
          BY <1>7, <4>2, <4>3
        <5> QED
          BY <5>1
      <4>5. W = Below(x)
        <5>1. \A k \in W : k \in Below(x)
          BY <1>7, <4>4
        <5>2. \A k \in Below(x) : k \in W
          BY <1>8
        <5> QED
          BY <5>1, <5>2
      <4>6. Cardinality(Below(x)) <= w
        BY <1>4
      <4> QED
        BY <4>5, <4>6
    <3> QED
      BY <3>1, <3>2
  <2>2. S \ W # {} /\ S \ W \in SUBSET Nat
    <3>1. W # S
      BY <1>1, <1>7, <1>10, <2>1
    <3> QED
      BY <1>1, <1>7, <3>1
  <2>3. PICK y \in S \ W : \A k \in S \ W : y <= k
    <3> HIDE DEF W
    <3> QED
      BY <2>2, Smallest
  <2> HIDE DEF W
  <2>4. Below(y) = W \cup {y}
    <3>1. ASSUME NEW k \in Below(y) PROVE k \in W \cup {y}
      <4>1. k \in S /\ k <= y /\ k \in Nat /\ y \in Nat
        BY <1>1, <2>3
      <4>2. CASE k \in W
        BY <4>2
      <4>3. CASE k \notin W
        <5>1. y <= k
          BY <2>3, <4>1, <4>3
        <5> QED
          BY <4>1, <5>1
      <4> QED
        BY <4>2, <4>3
    <3>2. ASSUME NEW k \in W PROVE k \in Below(y)
      <4>1. k \in S /\ k \in Nat /\ y \in S /\ y \in Nat
        BY <1>1, <1>7, <2>3
      <4>2. ~(y <= k)
        BY <1>8, <2>3, <3>2, <4>1
      <4> QED
        BY <4>1, <4>2
    <3>3. y \in Below(y)
      BY <1>1, <2>3
    <3> HIDE DEF Below
    <3> QED
      BY <3>1, <3>2, <3>3
  <2>5. Cardinality(Below(y)) = Cardinality(W) + 1
    <3> HIDE DEF Below
    <3> QED
      BY <1>7, <2>3, <2>4, FS_AddElement
  <2>6. ~(Cardinality(Below(y)) <= w)
    BY <1>4, <2>3
  <2> QED
    BY <1>7, <2>1, <2>5, <2>6
<1> HIDE DEF W
<1>11. IsFiniteSet(W) /\ Cardinality(W) = IF Cardinality(S) < w THEN Cardinality(S) ELSE w
  BY <1>1, <1>7, <1>9, <1>10
<1> QED
  BY <1>1, <1>11 DEF W

LEMMA SlotsHold ==
  ASSUME Cal!CalendarConstants, NEW events \in Answers,
         offered = [events |-> events, slots |-> Cal!ComputeSlots(events)]
  PROVE  Cal!SlotsAreFree
<1> DEFINE S == Cal!Open(events)
           W == {k \in S : Cal!Turn(S, k) <= Scheduling.want}
           day(i) == Scheduling.days[i]
           free == {d \in {day(i) : i \in DOMAIN Scheduling.days} :
                       \E t \in 0..Scheduling.closes : Cal!Fits(events, d, t)}
           slots == {Cal!Slot(events, i) : i \in W}
<1>1. /\ DOMAIN Scheduling.days = 1..Len(Scheduling.days) /\ Len(Scheduling.days) \in Nat
      /\ S \in SUBSET (1..Len(Scheduling.days))
      /\ \A i \in S : Cal!Free(events, day(i)) # {}
  BY DaysAndAnchors DEF Cal!Open
<1>2. \A i, j \in S : day(i) = day(j) => i = j
  BY <1>1, SchedulingFacts
<1>3. \A d : Cal!Free(events, d) = {t \in 0..Scheduling.closes : Cal!Fits(events, d, t)}
  <2>1. \A d : Cal!Free(events, d) \in SUBSET (0..Scheduling.closes)
    BY DEF Cal!Free
  <2>2. 0..Scheduling.closes \subseteq Nat
    <3>1. Scheduling.closes \in Nat
      BY SchedulingFacts
    <3> QED
      BY <3>1
  <2> QED
    BY <2>1, <2>2, FreeFits
<1> HIDE DEF S
<1>4. /\ IsFiniteSet(S) /\ IsFiniteSet(W)
      /\ Cardinality(W) = IF Cardinality(S) < Scheduling.want THEN Cardinality(S) ELSE Scheduling.want
  <2>1. Scheduling.want \in Nat
    BY SchedulingFacts
  <2> QED
    BY <1>1, <2>1, Ranks
<1>5. W \in SUBSET S
  OBVIOUS
<1>6. ASSUME NEW i \in S
      PROVE  /\ Cal!Slot(events, i).day = day(i)
             /\ Cal!Slot(events, i).at \in Cal!Free(events, day(i))
  <2> DEFINE n == Cal!Turn(S, i)
             m == ((n - 1) % Len(Scheduling.anchors)) + 1
  <2>1. n \in Nat
    <3>1. n = Cardinality({k \in S : k <= i})
      BY CalCount DEF Cal!Turn
    <3>2. IsFiniteSet({k \in S : k <= i})
      BY <1>4, FS_Subset
    <3>3. Cardinality({k \in S : k <= i}) \in Nat
      BY <3>2, FS_CardinalityType
    <3> QED
      BY <3>1, <3>3
  <2>2. /\ Len(Scheduling.anchors) \in Nat \ {0}
        /\ \A k \in 1..Len(Scheduling.anchors) : Scheduling.anchors[k] \in Nat
    BY DaysAndAnchors
  <2>3. Cal!Anchor(n) \in Nat
    <3> HIDE DEF n
    <3>1. m \in 1..Len(Scheduling.anchors)
      BY <2>1, <2>2
    <3> QED
      BY <2>2, <3>1 DEF Cal!Anchor
  <2>4. Cal!Free(events, day(i)) \in SUBSET Nat /\ Cal!Free(events, day(i)) # {}
    <3>1. 0..Scheduling.closes \subseteq Nat
      <4>1. Scheduling.closes \in Nat
        BY SchedulingFacts
      <4> QED
        BY <4>1
    <3> HIDE DEF day
    <3> QED
      BY <1>1, <1>3, <3>1
  <2> HIDE DEF n
  <2>5. Cal!Slot(events, i) = [day |-> day(i), at |-> Cal!Nearest(Cal!Free(events, day(i)), Cal!Anchor(n))]
    BY DEF Cal!Slot, n, S
  <2> HIDE DEF day
  <2> QED
    BY <2>3, <2>4, <2>5, NearestIs
<1>7. Cal!ComputeSlots(events) = slots
  BY DEF Cal!ComputeSlots, S
<1> HIDE DEF W
<1>8. Cardinality(slots) = Cardinality(W)
  <2> DEFINE f == [i \in W |-> Cal!Slot(events, i)]
  <2>1. f \in Bijection(W, slots)
    <3>1. \A i, j \in W : Cal!Slot(events, i) = Cal!Slot(events, j) => i = j
      BY <1>2, <1>5, <1>6
    <3> QED
      BY <3>1 DEF Bijection, Injection, Surjection, IsInjective
  <2> QED
    BY <1>4, <2>1, FS_Bijection DEF ExistsBijection
<1>9. IsFiniteSet(free) /\ Cardinality(free) = Cardinality(S)
  <2> DEFINE f == [i \in S |-> day(i)]
  <2>1. free = {day(i) : i \in S}
    <3>1. \A i \in DOMAIN Scheduling.days :
             i \in S <=> \E t \in 0..Scheduling.closes : Cal!Fits(events, day(i), t)
      BY <1>3 DEF S, Cal!Open
    <3> HIDE DEF day
    <3> QED
      BY <1>1, <3>1
  <2>2. f \in Bijection(S, free)
    <3> HIDE DEF free, day
    <3> QED
      BY <1>2, <2>1 DEF Bijection, Injection, Surjection, IsInjective
  <2> HIDE DEF free
  <2> QED
    BY <1>4, <2>2, FS_Bijection DEF ExistsBijection
<1>10. ASSUME NEW s \in slots PROVE Cal!Fits(events, s.day, s.at)
  <2>1. PICK i \in W : s = Cal!Slot(events, i)
    OBVIOUS
  <2> QED
    BY <1>3, <1>5, <1>6, <2>1
<1>11. ASSUME NEW s \in slots, NEW u \in slots, s.day = u.day PROVE s = u
  <2>1. PICK i \in W : s = Cal!Slot(events, i)
    OBVIOUS
  <2>2. PICK j \in W : u = Cal!Slot(events, j)
    OBVIOUS
  <2> QED
    BY <1>2, <1>5, <1>6, <1>11, <2>1, <2>2
<1>12. offered.events = events /\ offered.slots = slots
  BY <1>7
<1>13. Cardinality(slots) = IF Cardinality(free) < Scheduling.want THEN Cardinality(free) ELSE Scheduling.want
  <2> HIDE DEF slots, free
  <2> QED
    BY <1>4, <1>8, <1>9
<1> HIDE DEF slots
<1> QED
  BY <1>10, <1>11, <1>12, <1>13, CalCount DEF Cal!SlotsAreFree

(* What was offered last was computed from an answer.                      *)
Unasked == [events |-> {}, slots |-> {}]
Offers ==
    \/ offered = Unasked
    \/ \E events \in Answers : offered = [events |-> events, slots |-> Cal!ComputeSlots(events)]

(* The times a draft offers are free, quarter by quarter, one a day, and   *)
(* as many as are wanted and there are days for (automation/calendar.py,   *)
(* compute_slots, _nearest_free_slot, busy_intervals).                     *)
THEOREM SlotsAreFreeHolds == Cal!Spec => []SlotsAreFree
<1>1. Cal!Init => Offers
  BY DEF Cal!Init, Offers, Unasked
<1>2. Offers /\ [Cal!Next]_(Cal!vars) => Offers'
  <2> SUFFICES ASSUME Offers, [Cal!Next]_(Cal!vars) PROVE Offers'
    OBVIOUS
  <2>1. CASE UNCHANGED offered
    BY <2>1 DEF Offers
  <2>2. ASSUME NEW events \in Answers, Cal!FillWrites(events) PROVE Offers'
    BY <2>2 DEF Cal!FillWrites, Offers
  <2> QED
    BY <2>1, <2>2 DEF Cal!Next, Cal!vars, Cal!drafting, Cal!Filling, Cal!FillReads, Cal!FillFails,
                      Cal!EditDraft, Cal!SendDraft
<1>3. Offers => SlotsAreFree
  <2>1. ASSUME offered = Unasked PROVE Cal!SlotsAreFree
    BY <2>1 DEF Unasked, Cal!SlotsAreFree
  <2> QED
    BY <2>1, InstanceConstants, SlotsHold DEF Offers, SlotsAreFree
<1> QED
  BY <1>1, <1>2, <1>3, PTL DEF Cal!Spec

=============================================================================
