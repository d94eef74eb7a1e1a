-------------------------------- MODULE Folder --------------------------------
(***************************************************************************)
(* The watched folder (sources/adapters/folder.py) as sources.poll_one     *)
(* uses it: a file is given the suffix .processing, read, imported and     *)
(* moved to processed/; one that is no transcript keeps its name and is    *)
(* remembered by content.  The scheduler and `salescoach sources poll` may *)
(* poll at once, a poll may die anywhere, and the seller saves files while *)
(* they run.  Each renaming and each commit is a step.                     *)
(***************************************************************************)
EXTENDS Integers, FiniteSets

CONSTANTS
    Names, Spare,   \* file names, and names with a time in them
    Files, Bad,     \* what the seller saves, and what of it is no transcript
    Pollers,
    None,
    MaxTrouble      \* bound: deaths and passing failures

FolderConstants ==
    /\ Names \cap Spare = {} /\ Bad \subseteq Files /\ None \notin Files \cup Names \cup Spare
    /\ MaxTrouble \in Nat

VARIABLES
    drop,       \* the folder: the file under each name
    work,       \* and under each name with .processing
    old,        \* those of them older than STALE_PROCESSING_S
    processed,  \* processed/: the file under each name, ...
    moved,      \* ... and those under a name with a time in it
    skipped,    \* state sources:folder:skipped
    calls,      \* files that are calls: import_normalized knows their content
    at, job,    \* what each poll is doing
    trouble,
    saved,      \* history: files the seller saved, ...
    cut,        \* ... those a poll died over, ...
    clash       \* ... and those met by two polls, or by another of their name

vars == <<drop, work, old, processed, moved, skipped, calls, at, job, trouble, saved, cut, clash>>
files == <<drop, work, old, processed, moved>>

Idle == [todo |-> {}, n |-> None, c |-> None, cache |-> {}, noted |-> FALSE, kind |-> None]
All == Names \cup Spare

Init ==
    /\ drop = [n \in All |-> None] /\ work = [n \in All |-> None] /\ old = {}
    /\ processed = [n \in All |-> None] /\ moved = {}
    /\ skipped = {} /\ calls = {} /\ trouble = 0 /\ saved = {} /\ cut = {} /\ clash = {}
    /\ at = [p \in Pollers |-> "idle"] /\ job = [p \in Pollers |-> Idle]

----------------------------------------------------------------------------
Goto(p, place, new) == at' = [at EXCEPT ![p] = place] /\ job' = [job EXCEPT ![p] = new]
Held == {job[p].n : p \in Pollers} \ {None}
In(dir, n) == {dir[n]} \ {None}

(* The seller saves a file, under a name that is free in the folder.       *)
Save(n, c) ==
    /\ c \notin saved /\ saved' = saved \cup {c} /\ drop[n] = None
    /\ drop' = [drop EXCEPT ![n] = c]
    /\ clash' = IF work[n] # None \/ n \in Held THEN clash \cup {c} \cup In(work, n) ELSE clash
    /\ UNCHANGED <<work, old, processed, moved, skipped, calls, at, job, trouble, cut>>

(* Two minutes pass over a file nobody is at any more, or somebody slow.   *)
Ages(n) ==
    /\ work[n] # None /\ old' = old \cup {n}
    /\ clash' = IF n \in Held THEN clash \cup {work[n]} ELSE clash
    /\ UNCHANGED <<drop, work, processed, moved, skipped, calls, at, job, trouble, saved, cut>>

----------------------------------------------------------------------------
(* list_recent: the state afresh, the leftovers of dead runs set aside,    *)
(* then what is there and not remembered; poll_one commits.                *)
StartPoll(p) ==
    /\ at[p] = "idle"
    /\ Goto(p, "recover", [Idle EXCEPT !.cache = skipped])
    /\ UNCHANGED <<files, skipped, calls, trouble, saved, cut, clash>>

Free(n) == IF drop[n] = None THEN {n} ELSE {s \in Spare : drop[s] = None}

Recover(p, n, as) ==
    /\ at[p] = "recover" /\ n \in old /\ work[n] # None /\ as \in Free(n)
    /\ drop' = [drop EXCEPT ![as] = work[n]] /\ work' = [work EXCEPT ![n] = None] /\ old' = old \ {n}
    /\ Goto(p, "recover", [job[p] EXCEPT !.cache = @ \cup {work[n]}, !.noted = TRUE])
    /\ UNCHANGED <<processed, moved, skipped, calls, trouble, saved, cut, clash>>

List(p) ==
    /\ at[p] = "recover" /\ \A n \in old : Free(n) = {}
    /\ Goto(p, "next", [job[p] EXCEPT !.noted = FALSE,
                            !.todo = {n \in All : drop[n] # None /\ drop[n] \notin job[p].cache}])
    /\ skipped' = IF job[p].noted THEN job[p].cache ELSE skipped
    /\ UNCHANGED <<files, calls, trouble, saved, cut, clash>>

(* fetch: the file, or whatever has its name by now, is renamed ...        *)
Take(p, n) ==
    /\ at[p] = "next" /\ n \in job[p].todo
    /\ clash' = IF n \in Held THEN clash \cup In(drop, n) \cup In(work, n) ELSE clash
    /\ IF drop[n] # None
       THEN /\ work' = [work EXCEPT ![n] = drop[n]] /\ drop' = [drop EXCEPT ![n] = None] /\ old' = old \ {n}
            /\ Goto(p, "read", [job[p] EXCEPT !.n = n])
       ELSE /\ Goto(p, "failed", [job[p] EXCEPT !.n = n, !.kind = "SourceError"])
            /\ UNCHANGED <<drop, work, old>>
    /\ UNCHANGED <<processed, moved, skipped, calls, trouble, saved, cut>>

(* ... and its bytes are read.                                             *)
Read(p) ==
    /\ at[p] = "read"
    /\ IF work[job[p].n] # None
       THEN Goto(p, "import", [job[p] EXCEPT !.c = work[job[p].n]])
       ELSE Goto(p, "failed", [job[p] EXCEPT !.kind = "OSError"])
    /\ UNCHANGED <<files, skipped, calls, trouble, saved, cut, clash>>

(* parse_any and import_normalized: a content is a call once.              *)
Import(p) ==
    /\ at[p] = "import"
    /\ IF job[p].c \in Bad
       THEN Goto(p, "failed", [job[p] EXCEPT !.kind = "ValueError"]) /\ UNCHANGED calls
       ELSE Goto(p, "imported", job[p]) /\ calls' = calls \cup {job[p].c}
    /\ UNCHANGED <<files, skipped, trouble, saved, cut, clash>>

(* A locked store, a profile that is not set up yet.                       *)
Busy(p) ==
    /\ at[p] = "import" /\ trouble < MaxTrouble /\ trouble' = trouble + 1
    /\ Goto(p, "failed", [job[p] EXCEPT !.kind = "OperationalError"])
    /\ UNCHANGED <<files, skipped, calls, saved, cut, clash>>

Done(p) == [job[p] EXCEPT !.todo = @ \ {job[p].n}, !.n = None, !.c = None, !.kind = None]

(* after_import: _current is the .processing file, else the one without.   *)
StampedSlip(n) == FALSE
Stamped(n) == processed[n] # None

AfterImport(p) ==
    LET n == job[p].n
        src == IF work[n] # None THEN work[n] ELSE drop[n]
    IN  /\ at[p] = "imported"
        /\ IF src = None THEN UNCHANGED files
           ELSE /\ work' = [work EXCEPT ![n] = None] /\ old' = old \ {n}
                /\ drop' = IF work[n] # None THEN drop ELSE [drop EXCEPT ![n] = None]
                /\ IF Stamped(n) THEN moved' = moved \cup {src} /\ UNCHANGED processed
                                 ELSE processed' = [processed EXCEPT ![n] = src] /\ UNCHANGED moved
        /\ Goto(p, "next", Done(p))
        /\ UNCHANGED <<skipped, calls, trouble, saved, cut, clash>>

(* after_failure: the name back, and only what can never be read is        *)
(* remembered; the whole of what this poll knows is written.               *)
RemembersSlip(kind) == TRUE
Remembers(kind) == kind \in {"ValueError", "SourceError"}

AfterFailure(p) ==
    LET n == job[p].n
        back == work[n] # None /\ drop[n] = None
        path == IF back THEN work[n] ELSE drop[n]
        cache == IF path # None /\ Remembers(job[p].kind) THEN job[p].cache \cup {path} ELSE job[p].cache
    IN  /\ at[p] = "failed"
        /\ drop' = [drop EXCEPT ![n] = path]
        /\ work' = IF back THEN [work EXCEPT ![n] = None] ELSE work
        /\ old' = IF back THEN old \ {n} ELSE old
        /\ skipped' = IF path # None /\ Remembers(job[p].kind) THEN cache ELSE skipped
        /\ Goto(p, "next", [Done(p) EXCEPT !.cache = cache])
        /\ UNCHANGED <<processed, moved, calls, trouble, saved, cut, clash>>

Finish(p) ==
    /\ at[p] = "next" /\ job[p].todo = {}
    /\ Goto(p, "idle", Idle)
    /\ UNCHANGED <<files, skipped, calls, trouble, saved, cut, clash>>

Dies(p) ==
    /\ at[p] # "idle" /\ trouble < MaxTrouble /\ trouble' = trouble + 1
    /\ cut' = IF job[p].n = None THEN cut ELSE cut \cup In(work, job[p].n)
    /\ Goto(p, "idle", Idle)
    /\ UNCHANGED <<files, skipped, calls, saved, clash>>

Next ==
    \/ \E n \in Names, c \in Files : Save(n, c)
    \/ \E n \in All : Ages(n)
    \/ \E p \in Pollers :
          \/ StartPoll(p) \/ List(p) \/ Read(p) \/ Import(p) \/ Busy(p) \/ AfterImport(p) \/ AfterFailure(p)
          \/ Finish(p) \/ Dies(p)
          \/ \E n \in All : Take(p, n) \/ \E as \in All : Recover(p, n, as)

Spec == Init /\ [][Next]_vars

----------------------------------------------------------------------------
TypeOK ==
    /\ {drop, work, processed} \subseteq [All -> Files \cup {None}] /\ old \subseteq All
    /\ skipped \cup moved \cup calls \cup saved \cup cut \cup clash \subseteq Files

(* "It is somebody's file": what the seller saved stays in the folder, or  *)
(* is in processed/ and a call, under whatever names files of his come.    *)
Kept == \A c \in saved \ clash :
            \/ \E n \in All : c \in {drop[n], work[n]}
            \/ c \in calls /\ (c \in moved \/ \E n \in All : processed[n] = c)

(* Only "a file the coach could NOT read" is set aside, or one whose poll  *)
(* died; "anything else is simply tried again".                            *)
SetAside == \A c \in skipped \ clash : c \in Bad \cup cut

----------------------------------------------------------------------------
(* Statements of the code that do not hold.                                *)
SetAsideAtAll == skipped \subseteq Bad \cup cut
KeptAtAll == \A c \in saved : c \in moved \/ \E n \in All : c \in {drop[n], work[n], processed[n]}
ReadIfProcessed == \A n \in All : processed[n] # None => processed[n] \in calls
=============================================================================
