--------------------------- MODULE MCCallAnalysis ---------------------------
(* The steps of a call's pipeline for TLC, and what they rely on and share *)
(* no state with: the bus when its Retry is pressed on a stale page and a  *)
(* second process drains it (EventBus), the attempts of an agent's run     *)
(* (Agents) and the provider they go to (Settings).  A behaviour has one   *)
(* of them, `part', do something.                                          *)
EXTENDS CallAnalysis, TLC

MCGrades == [x \in {"first", "second"} |->
                [t \in Turns |-> IF x = "first" /\ t = 2 THEN "partial" ELSE "ok"]]
MCReports == {[t \in Turns |-> IF t = bad THEN "garbled" ELSE "ok"] : bad \in {0, 2}}
MCRerunFrom == {"final_transcribed", "quality_done", "analyzed", "actions_extracted"}

CONSTANTS Runs, Providers, Default, NeedsKey, Editable, Preset, Hosts, MaxEdits,
          NumEvents, OfCall, CallEnded, Worker, Drainers, RetryFrom, MaxAttempts,
          MaxRetries, MaxDefers, MaxLive, MaxErrors

VARIABLES part,
    style, refuses, tooLong, optedIn, local, learned, aRun, rows, limited, trouble, raced,
    file, kept, keys, keyHost, cli, testing, test, dismissed, sClicks, edits, hand, tested, good,
    status, attempts, cooling, pc, job, read, live, handled, resolved, retries, defers, calls, errors

A == INSTANCE Agents WITH run <- aRun
S == INSTANCE Settings WITH clicks <- sClicks
B == INSTANCE EventBus WITH Pipeline <- OfCall
ASSUME PartsConstants == S!SettingsConstants /\ B!BusConstants

avars == <<style, refuses, tooLong, optedIn, local, learned, aRun, rows, limited, trouble, raced>>
svars == <<file, kept, keys, keyHost, cli, testing, test, dismissed, sClicks, edits, hand, tested, good>>
bvars == <<status, attempts, cooling, pc, job, read, live, handled, resolved, retries, defers, calls, errors>>

Symmetry == Permutations(Runs)

Off == "off"
AllInit ==
    /\ part \in {"analysis", "agents", "settings", "bus"} /\ Init
    /\ IF part = "agents" THEN A!Init ELSE
          /\ style = Off /\ refuses = Off /\ tooLong = Off /\ optedIn = Off /\ local = Off
          /\ learned = Off /\ aRun = Off /\ rows = Off /\ limited = Off /\ trouble = Off
          /\ raced = Off
    /\ IF part = "bus" THEN B!Init ELSE
          /\ status = Off /\ attempts = Off /\ cooling = Off /\ pc = Off /\ job = Off
          /\ read = Off /\ live = Off /\ handled = Off /\ resolved = Off /\ retries = Off
          /\ defers = Off /\ calls = Off /\ errors = Off
    /\ S!Init /\ (part # "settings" => ~cli)
AllNext == \/ part = "analysis" /\ UNCHANGED <<part, avars, svars, bvars>> /\ Next
           \/ part = "agents" /\ UNCHANGED <<part, vars, svars, bvars>> /\ A!Next
           \/ part = "settings" /\ UNCHANGED <<part, vars, avars, bvars>> /\ S!Next
           \/ part = "bus" /\ UNCHANGED <<part, vars, avars, svars>> /\ B!Next
AllSpec == AllInit /\ [][AllNext]_<<part, vars, avars, svars, bvars>>

(* The bus by itself, with what the code's scheduling promises of it.      *)
BusInit == AllInit /\ part = "bus"
BusSpec == BusInit /\ [][AllNext]_<<part, vars, avars, svars, bvars>> /\ B!Fairness

----------------------------------------------------------------------------
(* The rows of a run tell what it did; it asks nobody after it was told to *)
(* wait; and it is remembered of an endpoint only what it refuses.         *)
AttemptsTell == part = "agents" => A!TypeOK /\ A!AttemptsTell

(* A save keeps what the seller wrote by hand, and what it accepts can be  *)
(* used.                                                                   *)
SettingsHold ==
    [](S!TypeOK /\ S!HandEditsKept) /\ [][part = "settings" => S!SavedIsUsable]_svars

(* No event is stranded, abandoned or parked early by the server's worker, *)
(* with nobody beside it and Retry where the page offers it.               *)
NothingStranded == part = "bus" => B!NothingStranded

(* What the bus owes whoever published an event, of the rows it has.       *)
Says == IF part # "bus" THEN Off ELSE
        [e \in B!Events |-> CASE status[e] = "absent" -> "none"
                              [] status[e] \in {"pending", "running"} -> "owed"
                              [] status[e] = "failed" -> "parked"
                              [] OTHER -> status[e]]

Ledger == INSTANCE WorkLedger WITH Jobs <- B!Events, says <- Says, tried <- attempts, worked <- handled

(* The rows keep the ledger: accepted work stays owed over every death,    *)
(* failure, refusal and Retry, until it was done to the end or all its     *)
(* attempts are spent; done stays done.  And no row strands on the way.    *)
KeepsLedger ==
    []NothingStranded /\ (part = "bus" => Ledger!Init)
    /\ [][part = "bus" => Ledger!Next]_(Ledger!vars)

(* Whatever fails, every event is done, parked or stopped in the end.      *)
Settles == part = "bus" => B!Settles

(* What the bus calls done was handled or retired, whatever is retried.    *)
DoneIsTrue == part = "bus" => B!TypeOK /\ B!DoneIsTrue
=============================================================================
