---------------------------- MODULE MCEmailSend ----------------------------
(* Instances of EmailSend for TLC: threads and Gmail calls are             *)
(* interchangeable, contents are not (FirstBody is one of them).  The      *)
(* behaviours of a run with `part' = "outreach" are those of Outreach:     *)
(* which email is written and sent, where EmailSend says how one is.       *)
EXTENDS EmailSend, TLC

Symmetry == Permutations(Threads) \cup Permutations(Requests)

VARIABLES part, today, loops, closing, nudges, decided, written, stored, fresh, mail,
          eval, auto, logged, autoSent, clicks, races

CONSTANTS Loops, Scheduler, Worker, Limit, Gap, CheckAfter, Cap, Facts, MaxDay, MaxNudges,
          MaxReplies, MaxClicks

O == INSTANCE Outreach WITH taint <- races

ovars == <<today, loops, closing, nudges, decided, written, stored, fresh, mail,
           eval, auto, logged, autoSent, clicks, races>>

ASSUME PartConstants == O!OutreachConstants

Off == "off"
BothInit ==
    /\ part \in {"email", "outreach"} /\ Init
    /\ IF part = "outreach" THEN O!Init ELSE
          /\ today = Off /\ loops = Off /\ closing = Off /\ nudges = Off /\ decided = Off
          /\ written = Off /\ stored = Off /\ fresh = Off /\ mail = Off /\ eval = Off
          /\ auto = Off /\ logged = Off /\ autoSent = 0 /\ clicks = Off /\ races = Off
BothNext == \/ part = "email" /\ UNCHANGED <<part, ovars>> /\ Next
            \/ part = "outreach" /\ UNCHANGED <<part, vars>> /\ O!Next
BothSpec == BothInit /\ [][BothNext]_<<part, vars, ovars>>

(* At most one kind of race in a behaviour of Outreach: what follows a     *)
(* second one says nothing new about properties that each excuse some.     *)
OneRace == part = "outreach" => Cardinality(races) <= 1

(* A loop has one nudge waiting, every follow-up the buyer got is counted  *)
(* once, and neither the loop's limit nor the day's cap is passed.         *)
KeepsLimits ==
    part = "outreach" => O!OnePending /\ O!CountedOnce /\ O!LimitHolds /\ O!CapHolds

(* What goes out without a click was held, and is what was checked.        *)
AutoSendsHeld == O!AutoSendsHeld
=============================================================================
