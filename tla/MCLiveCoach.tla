----------------------------- MODULE MCLiveCoach -----------------------------
(* An instance of LiveCoach for TLC, and of what comes before it: the      *)
(* segments of a channel's sound (Vad) and the words made of them while    *)
(* the call runs (LiveSpeech).  The three share no state: a behaviour has  *)
(* one of them, `part', do something.                                      *)
EXTENDS LiveCoach, TLC

Staleness == [t \in Triggers |-> IF t \in Asking THEN 2 ELSE 0]

CONSTANTS Block, Onset, Preroll, MinSegment, MaxSegment, Silence, ShortFlush, KeepTail,
          MinSpeech, SplitSearch, MaxFeed, MaxGap, End,
          Channels, MaxQueue, Stop, Threshold, MaxSegs, MaxTrouble

VARIABLES part, vad, out, speaks, owed, over,
    helper, reader, stop, queue, worker, busy, disabled, abort, stats, nextIdx, turns, shown,
    silent, alerted, monitor, died, alarms, alone, late, trouble

V == INSTANCE Vad WITH talk <- speaks
S == INSTANCE LiveSpeech WITH left <- trouble
ASSUME PartsConstants == V!VadConstants /\ S!LiveSpeechConstants /\ Budget!BudgetConstants

vvars == <<vad, out, speaks, owed, over>>
svars == <<helper, reader, stop, queue, worker, busy, disabled, abort, stats, nextIdx, turns,
           shown, silent, alerted, monitor, died, alarms, alone, late, trouble>>

AllInit == /\ part \in {"coach", "vad", "speech"}
           /\ Init /\ V!Init /\ S!Init /\ (part # "speech" => worker = "none")
AllNext == \/ part = "coach" /\ UNCHANGED <<part, vvars, svars>> /\ Next
           \/ part = "vad" /\ UNCHANGED <<part, vars, svars>> /\ V!Next
           \/ part = "speech" /\ UNCHANGED <<part, vars, vvars>> /\ S!Next
AllSpec == AllInit /\ [][AllNext]_<<part, vars, vvars, svars>>

(* A behaviour has a slow pass, a click or a fault, not two of them.       *)
OneTrouble == (IF slow.n > 0 THEN 1 ELSE 0) + (MaxFaults - left.faults) + (MaxClicks - left.clicks) <= 1

----------------------------------------------------------------------------
(* The segments of a channel are as long as they may be, follow each other *)
(* with the times they have in the archive, and hold whoever talks.        *)
SegmentsTrue == part = "vad" => V!TypeOK /\ V!TimesAreTrue /\ V!Heard /\ V!NoLonger

(* Live words come in order and are all accounted for, silence is reported *)
(* once, and the end of a call waits for nothing that does not come.       *)
WordsTrue == part = "speech" => S!TypeOK /\ S!Accounted /\ S!InOrder /\ S!OneAlarm /\ S!NeverStuck
=============================================================================
