------------------------------- MODULE MCIntake -------------------------------
(* Instances of Intake, Folder and Store for TLC.  What they are about     *)
(* touches no state of the others: a behaviour has one of them, `part',    *)
(* do something.                                                           *)
EXTENDS Intake, TLC

CONSTANTS Names, Spare, Files, Bad, Readers, NoFile, Openers, Calls, Granola, Columns, NoOne,
          MaxTrouble, MaxDeaths

VARIABLES part,
    drop, work, old, processed, moved, skipped, calls, fAt, fJob, trouble, saved, cut, clash,
    db, copy, writer, sAt, saw, rows, words, deaths

F == INSTANCE Folder WITH Pollers <- Readers, None <- NoFile,
                          at <- fAt, job <- fJob
S == INSTANCE Store WITH work <- copy, at <- sAt
ASSUME PartsConstants == F!FolderConstants /\ S!StoreConstants

fvars == <<drop, work, old, processed, moved, skipped, calls, fAt, fJob, trouble, saved, cut, clash>>
svars == <<db, copy, writer, sAt, saw, rows, words, deaths>>

Symmetry == Permutations(Pollers) \cup Permutations(Threads) \cup Permutations(Readers)

Off == "off"
AllInit ==
    /\ part \in {"intake", "folder", "store"} /\ Init
    /\ IF part = "folder" THEN F!Init ELSE
          /\ drop = Off /\ work = Off /\ old = Off /\ processed = Off /\ moved = Off
          /\ skipped = Off /\ calls = Off /\ fAt = Off /\ fJob = Off /\ trouble = Off
          /\ saved = Off /\ cut = Off /\ clash = Off
    /\ IF part = "store" THEN S!Init ELSE
          /\ db = Off /\ copy = Off /\ writer = Off /\ sAt = Off /\ saw = Off
          /\ rows = Off /\ words = Off /\ deaths = Off
AllNext == \/ part = "intake" /\ UNCHANGED <<part, fvars, svars>> /\ Next
           \/ part = "folder" /\ UNCHANGED <<part, vars, svars>> /\ F!Next
           \/ part = "store" /\ UNCHANGED <<part, vars, fvars>> /\ S!Next
AllSpec == AllInit /\ [][AllNext]_<<part, vars, fvars, svars>>

----------------------------------------------------------------------------
(* What the seller saves in the folder is kept, and set aside only if it   *)
(* cannot be read.                                                         *)
FolderKept == part = "folder" => F!TypeOK /\ F!Kept /\ F!SetAside

(* Opening an older store loses nothing, and whoever has opened it is on   *)
(* today's tables.                                                         *)
StoreKept == part = "store" => S!TypeOK /\ S!NothingLost /\ S!OpenIsCurrent
=============================================================================
