-------------------------------- MODULE Store --------------------------------
(***************************************************************************)
(* Opening sales.db (store/stores.py, sales): the first handle creates the *)
(* schema, an older database is brought up to date (store/migrate.py), and *)
(* the plugins' tables are created and given the columns they lack.  The   *)
(* server, its worker, the scheduler's threads and the command line all    *)
(* open it, at the same time when they start together.                     *)
(*                                                                         *)
(* SQLite has one writer: a transaction works on its own copy until it     *)
(* commits, readers go by what is committed, a statement outside of one    *)
(* commits by itself.  Whoever dies leaves what was committed.  Tables are *)
(* what the migrations tell apart of them.                                 *)
(***************************************************************************)
EXTENDS Integers, Sequences, FiniteSets

CONSTANTS
    Openers,        \* handles being opened, each in a thread or process of its own
    Calls, Granola, \* rows of calls; those whose source is granola
    Columns,        \* columns the plugins' SQL has and an older install lacks
    NoOne,
    MaxDeaths       \* bound: openers that die

StoreConstants == Granola \subseteq Calls /\ NoOne \notin Openers /\ MaxDeaths \in Nat

VARIABLES
    db,         \* what is committed
    work,       \* the copy of the transaction that is open, if any
    writer,     \* whose transaction that is
    at,         \* what each opener is doing: a step's name, then how far
    saw,        \* what run() and reconcile_columns() read: the version, the columns
    rows, words,    \* history: what the database held at first, as the code of today reads it
    deaths

vars == <<db, work, writer, at, saw, rows, words, deaths>>

Version == 5                                    \* SCHEMA_VERSION
Core == <<"calls", "loops", "emails">>          \* tables schema-sales.sql creates, in its order

(* What the scripts of steps 2 and 3 add to loops and emails.              *)
Script == [n \in {2, 3} |-> IF n = 2 THEN <<"world_link", "rfc822_message_id", "user_added_addrs">>
                                     ELSE <<"attempt_mode">>]
Added(v) == UNION {{Script[n][i] : i \in DOMAIN Script[n]} : n \in {2, 3} \cap (0..v)}
Today == Added(Version)

Empty == [tables |-> {}, version |-> 0, cols |-> {}, calls |-> {}, history |-> {},
          shape |-> "new", words |-> "absent", plugin |-> {}]

(* A store of an older build, or none.  Its follow-up tables may be there, *)
(* in the words of then, and its plugin tables lack some columns.          *)
Old(v) == [tables |-> {"calls", "loops", "emails"}, version |-> v, cols |-> Added(v), calls |-> Calls,
           history |-> IF v >= 4 THEN Granola ELSE {}, shape |-> IF v >= 4 THEN "new" ELSE "old",
           words |-> "old", plugin |-> {}]

Init ==
    /\ db \in {Empty} \cup {[Old(v) EXCEPT !.words = w] :
                             v \in 1..4, w \in {"absent", "old"}} \cup {[Old(5) EXCEPT !.words = "new"]}
    /\ work = db /\ writer = NoOne
    /\ at = [o \in Openers |-> <<"looks", 0>>]
    /\ saw = [o \in Openers |-> [version |-> 0, columns |-> {}]]
    /\ rows = db.calls /\ words = (db.words # "absent")
    /\ deaths = 0

Goto(o, step, i) == at' = [at EXCEPT ![o] = <<step, i>>]
Is(o, step) == at[o][1] = step
Free == writer = NoOne

(* A statement on its own: committed when it is done, or refused.          *)
Statement(new) == Free /\ db' = new /\ work' = new /\ UNCHANGED writer

----------------------------------------------------------------------------
(* sales(): a database without calls is a new one.  The schema's script    *)
(* creates what does not exist; the version is set after it.               *)
Looks(o) ==
    /\ Is(o, "looks")
    /\ IF "calls" \in db.tables THEN Goto(o, "reads", 0) ELSE Goto(o, "creates", 1)
    /\ UNCHANGED <<db, work, writer, saw>>

Creates(o) ==
    /\ Is(o, "creates")
    /\ LET i == at[o][2] IN
       IF i > Len(Core) THEN Statement([db EXCEPT !.version = Version]) /\ Goto(o, "reads", 0)
       ELSE Statement([db EXCEPT !.tables = @ \cup {Core[i]},
                                 !.cols = IF Core[i] = "calls" THEN @ ELSE Today]) /\ Goto(o, "creates", i + 1)
    /\ UNCHANGED saw

(* run(): the version is read once, and the steps above it follow.         *)
AfterSlip(o, step) == Goto(o, "plugins", 0)
After(o, step) == IF step < Version THEN Goto(o, "step", step + 1) ELSE Goto(o, "plugins", 0)

Reads(o) ==
    /\ Is(o, "reads") /\ saw' = [saw EXCEPT ![o].version = db.version]
    /\ IF db.version < Version THEN Goto(o, "step", IF db.version < 2 THEN 2 ELSE db.version + 1)
       ELSE Goto(o, "plugins", 0)
    /\ UNCHANGED <<db, work, writer>>

(* A script, statement by statement: a column that is there already, or a  *)
(* table that is not there yet, is an error, and sales() raises it.        *)
Run(n) == IF n = 2 THEN "script2" ELSE "script3"
Table(col) == IF col = "world_link" THEN "loops" ELSE "emails"
StartScript(o) ==
    /\ Is(o, "step") /\ at[o][2] \in DOMAIN Script
    /\ Goto(o, Run(at[o][2]), 1)
    /\ UNCHANGED <<db, work, writer, saw>>
Scripts(o, n) ==
    /\ Is(o, Run(n))
    /\ LET i == at[o][2] IN
       IF i > Len(Script[n]) THEN Statement([db EXCEPT !.version = n]) /\ After(o, n)
       ELSE LET col == Script[n][i] IN
            IF col \in db.cols \/ Table(col) \notin db.tables
            THEN Free /\ Goto(o, "failed", 0) /\ UNCHANGED <<db, work, writer>>
            ELSE Statement([db EXCEPT !.cols = @ \cup {col}]) /\ Goto(o, at[o][1], i + 1)
    /\ UNCHANGED saw

(* _rebuild_calls, _neutral_words: one transaction each, which looks at    *)
(* the version again once it has the write lock.                           *)
AgainSlip(n) == FALSE
Again(n) == db.version >= n

Begins(o) ==
    /\ Is(o, "step") /\ at[o][2] \in {4, 5} /\ Free
    /\ IF Again(at[o][2]) THEN After(o, at[o][2]) /\ UNCHANGED writer
       ELSE writer' = o /\ Goto(o, "copies", at[o][2])
    /\ UNCHANGED <<db, work, saw>>

(* What a transaction has done so far is its own until it commits.         *)
LandsSlip(new) == work' = new /\ db' = new
Lands(new) == work' = new /\ UNCHANGED db

Drops(o) ==
    /\ Is(o, "copies") /\ writer = o
    /\ Lands(IF at[o][2] = 4 THEN [work EXCEPT !.tables = @ \ {"calls"}, !.calls = {}]
             ELSE IF work.words = "old" THEN [work EXCEPT !.words = "dropped"] ELSE work)
    /\ Goto(o, "renames", at[o][2])
    /\ UNCHANGED <<writer, saw>>

(* The new table takes the old one's place with the rows it copied: a      *)
(* granola call is history, unless the column was there already.           *)
HistoryOf(d) == IF d.shape = "new" THEN d.history ELSE d.calls \cap Granola
Renames(o) ==
    /\ Is(o, "renames") /\ writer = o
    /\ Lands(IF at[o][2] = 4
             THEN [work EXCEPT !.tables = @ \cup {"calls"}, !.calls = db.calls, !.shape = "new",
                               !.history = HistoryOf(db)]
             ELSE [work EXCEPT !.words = IF @ = "dropped" THEN "new" ELSE @])
    /\ Goto(o, "commits", at[o][2])
    /\ UNCHANGED <<writer, saw>>

(* Rows missing, or a reference of calls broken: rolled back, and raised.  *)
Commits(o) ==
    /\ Is(o, "commits") /\ writer = o /\ writer' = NoOne
    /\ \/ db' = [work EXCEPT !.version = at[o][2]] /\ work' = db' /\ After(o, at[o][2])
       \/ at[o][2] = 4 /\ UNCHANGED db /\ work' = db /\ Goto(o, "failed", 0)
    /\ UNCHANGED saw

(* The plugins' SQL, then reconcile_columns: what is missing of each table *)
(* is read, then added column by column; an error ends it, and is logged.  *)
Plugins(o) ==
    /\ Is(o, "plugins")
    /\ Statement([db EXCEPT !.words = IF @ = "absent" THEN "new" ELSE @])
    /\ Goto(o, "compares", 0) /\ UNCHANGED saw
Compares(o) ==
    /\ Is(o, "compares") /\ saw' = [saw EXCEPT ![o].columns = Columns \ db.plugin]
    /\ Goto(o, "adds", 0)
    /\ UNCHANGED <<db, work, writer>>
Adds(o) ==
    /\ Is(o, "adds")
    /\ IF saw[o].columns = {} THEN Goto(o, "open", 0) /\ UNCHANGED <<db, work, writer, saw>>
       ELSE \E c \in saw[o].columns :
            IF c \in db.plugin THEN Free /\ Goto(o, "open", 0) /\ UNCHANGED <<db, work, writer, saw>>
            ELSE Statement([db EXCEPT !.plugin = @ \cup {c}]) /\ UNCHANGED at
                 /\ saw' = [saw EXCEPT ![o].columns = @ \ {c}]

(* Killed, and started again.                                              *)
Dies(o) ==
    /\ deaths < MaxDeaths /\ deaths' = deaths + 1
    /\ ~Is(o, "failed") /\ Goto(o, "looks", 0)
    /\ IF writer = o THEN writer' = NoOne /\ work' = db ELSE UNCHANGED <<writer, work>>
    /\ UNCHANGED <<db, saw, rows, words>>

Opens(o) ==
    \/ Looks(o) \/ Creates(o) \/ Reads(o) \/ StartScript(o) \/ (\E n \in {2, 3} : Scripts(o, n))
    \/ Begins(o) \/ Drops(o) \/ Renames(o) \/ Commits(o) \/ Plugins(o) \/ Compares(o) \/ Adds(o)
Next == \E o \in Openers : (Opens(o) /\ UNCHANGED <<rows, words, deaths>>) \/ Dies(o)

Spec == Init /\ [][Next]_vars

----------------------------------------------------------------------------
TypeOK ==
    /\ db.version \in 0..Version /\ writer \in Openers \cup {NoOne}
    /\ db.plugin \subseteq Columns /\ (Free => work = db)

(* Whatever dies, fails or runs at the same time, every call that was      *)
(* there is there, the granola calls are history once the column exists,   *)
(* and the follow-ups' tables are there if they were.                      *)
NothingLost ==
    /\ db.calls = rows
    /\ rows # {} => db.history = (IF db.shape = "new" THEN Granola ELSE {})
    /\ words => db.words \in {"old", "new"}

(* A handle that sales() returned is on today's tables.                    *)
OpenIsCurrent ==
    \A o \in Openers : Is(o, "open") \/ Is(o, "plugins") =>
        db.cols = Today /\ db.shape = "new" /\ db.words # "old" /\ db.version = Version

(* The version never goes back: no step runs on a database that had it.    *)
NeverBack == [][db'.version >= db.version]_db

(* Two that open an older or a new store together can both.                *)
BothOpen == deaths = 0 => \A o \in Openers : ~Is(o, "failed")

(* A store that somebody died opening can be opened.                       *)
OpensAgain == Cardinality(Openers) = 1 => \A o \in Openers : ~Is(o, "failed")

(* A handle finds the columns of the plugins' SQL.                         *)
ColumnsThere == \A o \in Openers : Is(o, "open") => db.plugin = Columns
=============================================================================
