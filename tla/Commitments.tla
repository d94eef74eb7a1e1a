----------------------------- MODULE Commitments -----------------------------
(***************************************************************************)
(* What calls leave open ("loops"), who may say how they stand, and the    *)
(* other application that tracks the same promises, Jarvis: the memory     *)
(* gate (memory/gate.py), the review (orchestrator/review.py), the agents  *)
(* that create loops and claim their status (workflow.step_reconcile,      *)
(* automation/replies.py) and the bridge (integrations/jarvis_bridge.py).  *)
(*                                                                         *)
(* gate.propose reads a row and then writes by what it read; the bridge    *)
(* reads rows, then Jarvis, and then goes through them one by one, each a  *)
(* program run of up to a minute and a commit.  These are steps of their   *)
(* own.  The handlers that begin with an UPDATE are one step.              *)
(*                                                                         *)
(* An operator named ...Slip is a plausible slip in the code that the      *)
(* operator below it models; the README says which property notices it.    *)
(***************************************************************************)
EXTENDS Naturals, FiniteSets

CONSTANTS
    Loops,          \* loops the behaviour may create
    Own,            \* commitments Jarvis has of its own
    Sellers,        \* web requests
    Agents,         \* the worker: a call's reconcile step, a reply's analysis
    Syncers,        \* the server's sync thread, the worker's after a review, the command line
    Choices,        \* statuses the seller sets by hand
    Strengths,      \* ranks of the agents' claims
    NoOne,
    MaxClicks,      \* bound: what the seller does in Sales Coach
    MaxClaims,      \* bound: what the agents create and claim
    MaxWorld,       \* bound: what happens in Jarvis by itself
    MaxFaults       \* bound: syncs that fail or die

Procs       == Sellers \cup Agents \cup Syncers
Commitments == Own \cup Loops       \* the mirror of a loop goes by its source_id, the loop's own
User        == 4                    \* gate.RANK["user_input"]
High        == 2

ASSUME CommitmentsConstants ==
    /\ Own \cap Loops = {} /\ NoOne \notin Commitments
    /\ Sellers \cap Agents = {} /\ Sellers \cap Syncers = {} /\ Agents \cap Syncers = {}
    /\ Choices \subseteq {"open", "waiting", "done", "cancelled"}
    /\ Strengths \subseteq 0..(User - 1)
    /\ {MaxClicks, MaxClaims, MaxWorld, MaxFaults} \subseteq Nat

VARIABLES
    loop,       \* the loops rows, with the rank and the open conflicts of their status
    world,      \* Jarvis: each commitment's status, and the note of its last closing
    at, job,    \* what each process is doing
    clicks, claims, happenings, faults,     \* what is left of each bound
    said,       \* history: what the seller last said of a loop's status
    heard,      \* history: commitments whose closing the seller has been taken at his word for
    taint       \* history: a look went stale before its write, in the gate or in a sync

bounds  == <<clicks, claims, happenings, faults>>
history == <<said, heard, taint>>
vars    == <<loop, world, at, job, bounds, history>>

Active   == {"open", "waiting"}
Over     == {"done", "cancelled"}           \* "superseded" is treated as "cancelled" everywhere
Statuses == {"none"} \cup Active \cup Over

NoLoop  == [status |-> "none", review |-> "proposed", rank |-> 0, link |-> "none", wc |-> NoOne,
            offers |-> {}]
NoWorld == [w \in Commitments |-> [status |-> "none", note |-> "none"]]
NoJob   == [loop |-> NoOne, value |-> "none", rank |-> 0, by |-> "none", seen |-> NoLoop, todo |-> {},
            rows |-> [l \in Loops |-> NoLoop], states |-> NoWorld]

Init ==
    /\ loop = [l \in Loops |-> NoLoop]
    /\ world = [w \in Commitments |-> [status |-> IF w \in Own THEN "full" ELSE "none", note |-> "none"]]
    /\ at = [p \in Procs |-> "idle"] /\ job = [p \in Procs |-> NoJob]
    /\ clicks = MaxClicks /\ claims = MaxClaims /\ happenings = MaxWorld /\ faults = MaxFaults
    /\ said = [l \in Loops |-> "none"] /\ heard = {} /\ taint = {}

Exists(l) == loop[l].status # "none"

Goto(p, place, new) ==
    /\ at' = [at EXCEPT ![p] = place]
    /\ job' = [job EXCEPT ![p] = new]

Click == clicks > 0 /\ clicks' = clicks - 1 /\ UNCHANGED <<claims, happenings, faults>>
Claim == claims > 0 /\ claims' = claims - 1 /\ UNCHANGED <<clicks, happenings, faults>>

----------------------------------------------------------------------------
(* gate.propose: the look, ...                                             *)

Propose(p, l, value, rank, by) ==
    Goto(p, "gate", [job[p] EXCEPT !.loop = l, !.value = value, !.rank = rank, !.by = by,
                                   !.seen = loop[l]])

(* ... the decision by what it saw, ...                                    *)
WeakerSlip(rank, seen) == FALSE
Weaker(rank, seen) == rank < seen.rank

Gated(row, j) ==
    CASE j.seen.status = j.value ->
            IF j.rank > j.seen.rank THEN [row EXCEPT !.rank = j.rank] ELSE row
      [] j.seen.status # j.value /\ Weaker(j.rank, j.seen) ->
            [row EXCEPT !.offers = @ \cup {j.value}]
      [] OTHER ->
            [row EXCEPT !.status = j.value, !.rank = j.rank,
                        !.offers = IF j.rank = User THEN {} ELSE @]

(* ... and what its caller adds: an edit confirms the loop, and a conflict *)
(* the seller accepted is settled.                                         *)
Settled(row, j) ==
    CASE j.by = "edit"  -> [row EXCEPT !.review = "confirmed"]
      [] j.by = "offer" -> [row EXCEPT !.offers = @ \ {j.value}]
      [] OTHER          -> row

GateWrite(p) ==
    LET j == job[p]  l == j.loop IN
    /\ at[p] = "gate"
    /\ loop' = [loop EXCEPT ![l] = Settled(Gated(@, j), j)]
    /\ said' = IF j.rank = User THEN [said EXCEPT ![l] = j.value] ELSE said
    /\ taint' = IF loop[l].status = j.seen.status /\ loop[l].rank = j.seen.rank
                THEN taint ELSE taint \cup {"gate"}
    /\ IF p \in Syncers THEN Goto(p, "back", [j EXCEPT !.loop = NoOne, !.value = "none", !.rank = 0,
                                                       !.by = "none", !.seen = NoLoop])
                        ELSE Goto(p, "idle", NoJob)
    /\ UNCHANGED <<world, bounds, heard>>

----------------------------------------------------------------------------
(* The seller, in Sales Coach.                                             *)

Edits(l, new) ==
    /\ Click
    /\ loop' = [loop EXCEPT ![l] = new]
    /\ UNCHANGED <<world, at, job, heard, taint>>

Says(l, new) == Edits(l, new) /\ said' = [said EXCEPT ![l] = new.status]

(* A link that is not our mirror goes with the loop.                       *)
ReleasedSlip(row) == IF row.link = "mirror" THEN row ELSE [row EXCEPT !.wc = NoOne]
Released(row) == IF row.link = "mirror" THEN row ELSE [row EXCEPT !.link = "none", !.wc = NoOne]

ByHand == [NoLoop EXCEPT !.status = "open", !.review = "confirmed", !.rank = User]

Add(l) == ~Exists(l) /\ Says(l, ByHand)

(* bootstrap_import of an open commitment that no loop is linked to.       *)
Import(l, w) ==
    /\ ~Exists(l)
    /\ world[w].status = "full" /\ \A k \in Loops : loop[k].wc # w
    /\ Says(l, [ByHand EXCEPT !.link = "imported", !.wc = w])

Confirm(l) == Exists(l) /\ Says(l, [loop[l] EXCEPT !.review = "confirmed", !.rank = User])

(* A rejection leaves no provenance behind: nothing he said is on record.  *)
Reject(l) ==
    /\ Exists(l)
    /\ Edits(l, [Released(loop[l]) EXCEPT !.status = "cancelled", !.review = "rejected"])
    /\ said' = [said EXCEPT ![l] = "none"]

(* An edit of the text alone confirms the loop, not its status.            *)
EditText(l) == Exists(l) /\ Edits(l, [loop[l] EXCEPT !.review = "confirmed"]) /\ UNCHANGED said

EditStatus(p, l, value) ==
    /\ at[p] = "idle" /\ Exists(l)
    /\ Click
    /\ Propose(p, l, value, User, "edit")
    /\ UNCHANGED <<loop, world, history>>

Accept(p, l, value) ==
    /\ at[p] = "idle" /\ value \in loop[l].offers
    /\ Click
    /\ Propose(p, l, value, User, "offer")
    /\ UNCHANGED <<loop, world, history>>

Dismiss(l, value) ==
    /\ value \in loop[l].offers
    /\ Edits(l, [loop[l] EXCEPT !.offers = @ \ {value}])
    /\ UNCHANGED said

----------------------------------------------------------------------------
(* The agents.  They are shown the loops that are open and the commitments *)
(* Jarvis has open, but what they made of them is kept (the actions        *)
(* artifact, a reply's items) and written minutes or, after a failure,     *)
(* days later: by then a loop or a commitment may be in any state.         *)

(* A new loop, which may adopt a commitment of Jarvis's own.               *)
Create(l, rank, w) ==
    /\ ~Exists(l)
    /\ Claim
    /\ loop' = [loop EXCEPT ![l] = [NoLoop EXCEPT !.status = "open", !.rank = rank, !.wc = w,
                                                  !.link = IF w = NoOne THEN "none" ELSE "adopted"]]
    /\ UNCHANGED <<world, at, job, history>>

(* "Only the speaker's exact words may change an existing loop" ...        *)
ClaimStatus(p, l, value, rank) ==
    /\ at[p] = "idle" /\ Exists(l)
    /\ rank >= High
    /\ Claim
    /\ Propose(p, l, value, rank, "claim")
    /\ UNCHANGED <<loop, world, history>>

(* ... "a loose match waits for review" (gate.park).                       *)
Park(l, value) ==
    /\ Exists(l) /\ loop[l].status # value
    /\ Claim
    /\ loop' = [loop EXCEPT ![l].offers = @ \cup {value}]
    /\ UNCHANGED <<world, at, job, history>>

(* A re-run of the call no longer produces the loop.                       *)
RerunLook(p, l) ==
    /\ at[p] = "idle"
    /\ loop[l].review = "proposed" /\ loop[l].status = "open"
    /\ Claim
    /\ Goto(p, "drop", [NoJob EXCEPT !.loop = l, !.seen = loop[l]])
    /\ UNCHANGED <<loop, world, history>>

RerunDrop(p) ==
    LET l == job[p].loop IN
    /\ at[p] = "drop"
    /\ loop' = [loop EXCEPT ![l] = [Released(@) EXCEPT !.status = "cancelled", !.review = "rejected"]]
    /\ taint' = IF loop[l] = job[p].seen THEN taint ELSE taint \cup {"gate"}
    /\ Goto(p, "idle", NoJob)
    /\ UNCHANGED <<world, bounds, said, heard>>

----------------------------------------------------------------------------
(* jarvis_bridge.sync.  First, confirmed loops are mirrored.               *)

Unlinked == {l \in Loops : /\ loop[l].review = "confirmed" /\ loop[l].wc = NoOne
                           /\ loop[l].status \in Active}

StartSync(p) ==
    /\ at[p] = "idle"
    /\ Goto(p, "mirror", [NoJob EXCEPT !.todo = Unlinked])
    /\ UNCHANGED <<loop, world, bounds, history>>

(* "source_id sales:<loop_id>, so a re-land is a no-op".                   *)
Land(p, l) ==
    /\ at[p] = "mirror" /\ l \in job[p].todo
    /\ world' = [world EXCEPT ![l].status = IF @ = "none" THEN "full" ELSE @]
    /\ Goto(p, "landed", [job[p] EXCEPT !.loop = l, !.todo = @ \ {l}])
    /\ UNCHANGED <<loop, bounds, history>>

Link(p) ==
    LET l == job[p].loop IN
    /\ at[p] = "landed"
    /\ loop' = [loop EXCEPT ![l].wc = l, ![l].link = "mirror"]
    /\ Goto(p, "mirror", [job[p] EXCEPT !.loop = NoOne])
    /\ UNCHANGED <<world, bounds, history>>

(* close_mirrors and read_back: the rows of interest, then what Jarvis has *)
(* of them, then one after the other.                                      *)
Rows(p, todo, place) ==
    Goto(p, place, [NoJob EXCEPT !.todo = todo,
                                 !.rows = [l \in Loops |-> IF l \in todo THEN loop[l] ELSE NoLoop]])

States(p, place) ==
    LET ids == {job[p].rows[l].wc : l \in job[p].todo} IN
    Goto(p, place, [job[p] EXCEPT !.states = [w \in Commitments |-> IF w \in ids THEN world[w] ELSE @[w]]])

ToCloseSlip(l) == loop[l].wc # NoOne /\ loop[l].status = "done"
ToClose(l) == loop[l].wc # NoOne /\ loop[l].status \in Over

CloseRows(p) ==
    /\ at[p] = "mirror" /\ job[p].todo = {}
    /\ Rows(p, {l \in Loops : ToClose(l)}, "close_states")
    /\ UNCHANGED <<loop, world, bounds, history>>

CloseStates(p) ==
    /\ at[p] = "close_states"
    /\ States(p, "close")
    /\ UNCHANGED <<loop, world, bounds, history>>

MayDropSlip(row) == row.link \in {"mirror", "imported"}
MayDrop(row) == row.link = "mirror"

(* "Jarvis waits for the seller's confirmation."                           *)
ByHimSlip(l) == TRUE
ByHim(l) == loop[l].rank = User

InJarvis(w, status) ==
    world' = IF world[w].status = "full" THEN [world EXCEPT ![w] = [status |-> status, note |-> "ours"]]
                                         ELSE world

(* What was read of a loop is of no use any more when its turn is over.    *)
Onwards(p, l) == [job[p] EXCEPT !.todo = @ \ {l}, !.rows[l] = NoLoop]

(* The loop's next in the list; what was read of it may be old by now.     *)
Turn(p, l) ==
    /\ l \in job[p].todo
    /\ Goto(p, at[p], Onwards(p, l))
    /\ taint' = IF loop[l] = job[p].rows[l] /\ world[job[p].rows[l].wc] = job[p].states[job[p].rows[l].wc]
                THEN taint ELSE taint \cup {"sync"}

CloseOne(p, l) ==
    LET row == job[p].rows[l]  w == row.wc IN
    /\ at[p] = "close" /\ Turn(p, l)
    /\ CASE job[p].states[w].status # "full" ->
              UNCHANGED <<loop, world>>
         [] job[p].states[w].status = "full" /\ MayDrop(row) ->
              InJarvis(w, IF row.status = "done" THEN "closed" ELSE "deprecated") /\ UNCHANGED loop
         [] job[p].states[w].status = "full" /\ ~MayDrop(row) /\ row.review = "confirmed" /\ row.status = "done" ->
              (IF ByHim(l) THEN InJarvis(w, "closed") ELSE UNCHANGED world) /\ UNCHANGED loop
         [] OTHER ->
              loop' = [loop EXCEPT ![l].link = "none", ![l].wc = NoOne] /\ UNCHANGED world
    /\ UNCHANGED <<bounds, said, heard>>

BackRows(p) ==
    /\ at[p] = "close" /\ job[p].todo = {}
    /\ Rows(p, {l \in Loops : loop[l].wc # NoOne /\ loop[l].review = "confirmed" /\ loop[l].status \in Active},
            "back_states")
    /\ UNCHANGED <<loop, world, bounds, history>>

BackStates(p) ==
    /\ at[p] = "back_states"
    /\ States(p, "back")
    /\ UNCHANGED <<loop, world, bounds, history>>

(* What we closed, and what the sweep dropped, is open again ...           *)
Restored == {"ours", "auto"}

BackOne(p, l) ==
    LET w == job[p].rows[l].wc  s == job[p].states[w] IN
    /\ at[p] = "back" /\ Turn(p, l)
    /\ s.status \in {"none", "full"} \/ s.note \in Restored
    /\ world' = IF s.status \in {"closed", "deprecated"}
                THEN [world EXCEPT ![w].status = "full"] ELSE world
    /\ UNCHANGED <<loop, bounds, said, heard>>

(* ... and what the seller closed or dropped there is so here.             *)
ReadBack(p, l) ==
    LET w == job[p].rows[l].wc  s == job[p].states[w] IN
    /\ at[p] = "back" /\ l \in job[p].todo
    /\ s.status \in {"closed", "deprecated"} /\ s.note \notin Restored
    /\ Goto(p, "gate", [Onwards(p, l) EXCEPT !.loop = l, !.rank = User, !.by = "jarvis", !.seen = loop[l],
                                         !.value = IF s.status = "closed" THEN "done" ELSE "cancelled"])
    /\ heard' = heard \cup {w}
    /\ UNCHANGED <<loop, world, bounds, said, taint>>

EndSync(p) ==
    /\ at[p] = "back" /\ job[p].todo = {}
    /\ Goto(p, "idle", NoJob)
    /\ UNCHANGED <<loop, world, bounds, history>>

(* The program, the database or the process failed: each pair of a program *)
(* run and its commit that is complete stays.                              *)
SyncFails(p) ==
    /\ p \in Syncers /\ at[p] # "idle"
    /\ faults > 0 /\ faults' = faults - 1
    /\ Goto(p, "idle", NoJob)
    /\ UNCHANGED <<loop, world, clicks, claims, happenings, history>>

----------------------------------------------------------------------------
(* Jarvis: the owner closes or drops a commitment, or the sweep drops one  *)
(* that saw no activity for two weeks.                                     *)
Happens(w, status, note) ==
    /\ world[w].status = "full"
    /\ happenings > 0 /\ happenings' = happenings - 1
    /\ world' = [world EXCEPT ![w] = [status |-> status, note |-> note]]
    /\ heard' = heard \ {w}
    /\ UNCHANGED <<loop, at, job, clicks, claims, faults, said, taint>>

Jarvis == \E w \in Commitments : \/ Happens(w, "closed", "owner")
                                 \/ Happens(w, "deprecated", "owner")
                                 \/ Happens(w, "deprecated", "auto")

Seller ==
    \/ \E l \in Loops : Add(l) \/ Confirm(l) \/ Reject(l) \/ EditText(l)
    \/ \E l \in Loops, w \in Own : Import(l, w)
    \/ \E p \in Sellers, l \in Loops, value \in Choices : EditStatus(p, l, value)
    \/ \E p \in Sellers, l \in Loops, value \in Active \cup Over : Accept(p, l, value)
    \/ \E l \in Loops, value \in Active \cup Over : Dismiss(l, value)

Agent ==
    \/ \E l \in Loops, rank \in Strengths, w \in Own \cup {NoOne} : Create(l, rank, w)
    \/ \E p \in Agents, l \in Loops, value \in Over \cup {"waiting"}, rank \in Strengths :
           ClaimStatus(p, l, value, rank)
    \/ \E l \in Loops, value \in Over \cup {"waiting"} : Park(l, value)
    \/ \E p \in Agents, l \in Loops : RerunLook(p, l)
    \/ \E p \in Agents : RerunDrop(p)

SyncStep(p) ==
    \/ StartSync(p) \/ Link(p) \/ CloseRows(p) \/ CloseStates(p) \/ BackRows(p) \/ BackStates(p) \/ EndSync(p)
    \/ \E l \in Loops : Land(p, l) \/ CloseOne(p, l) \/ BackOne(p, l) \/ ReadBack(p, l)

Next ==
    \/ Seller \/ Agent \/ Jarvis
    \/ \E p \in Procs : GateWrite(p)
    \/ \E p \in Syncers : SyncStep(p) \/ SyncFails(p)

Spec == Init /\ [][Next]_vars

(* The bridge syncs again and again.                                       *)
FairSpec == Spec /\ \A p \in Syncers : WF_vars(SyncStep(p) \/ GateWrite(p))

----------------------------------------------------------------------------
LoopRow == [status : Statuses, review : {"proposed", "confirmed", "rejected"}, rank : 0..User,
            link : {"none", "mirror", "adopted", "imported"}, wc : Commitments \cup {NoOne},
            offers : SUBSET (Active \cup Over)]
World   == [Commitments -> [status : {"none", "full", "closed", "deprecated"},
                            note : {"none", "ours", "owner", "auto"}]]
Places  == {"idle", "gate", "drop", "mirror", "landed", "close_states", "close", "back_states", "back"}

Job == [loop : Loops \cup {NoOne}, value : Statuses, rank : 0..User,
        by : {"none", "edit", "offer", "claim", "jarvis"}, seen : LoopRow, todo : SUBSET Loops,
        rows : [Loops -> LoopRow], states : World]

TypeOK ==
    /\ loop \in [Loops -> LoopRow] /\ world \in World
    /\ \A l \in Loops : loop[l].link = "none" <=> loop[l].wc = NoOne
    /\ at \in [Procs -> Places] /\ job \in [Procs -> Job]
    /\ clicks \in 0..MaxClicks /\ claims \in 0..MaxClaims
    /\ happenings \in 0..MaxWorld /\ faults \in 0..MaxFaults
    /\ said \in [Loops -> Statuses] /\ heard \subseteq Commitments /\ taint \subseteq {"gate", "sync"}

(* "The seller's own input always wins": a loop stands as he last said it  *)
(* does, whatever agents, replies, re-runs and syncs wrote since, unless a *)
(* look in the gate went stale before its write.                           *)
SellersWord ==
    "gate" \notin taint => \A l \in Loops : said[l] # "none" => loop[l].status = said[l]

(* "Only a mirror is ever dropped in Jarvis": a commitment of Jarvis's own *)
(* is never dropped by the bridge, however a guess or an import ends.      *)
OnlyMirrorsDropped ==
    \A w \in Own : ~(world[w].status = "deprecated" /\ world[w].note = "ours")

(* Neither his loops nor his commitments are taken from him by a machine.  *)
HisWordStands == SellersWord /\ OnlyMirrorsDropped

(* "An adopted or imported commitment is closed only when the seller       *)
(* confirmed the loop done."                                               *)
OwnClosedOnHisWord ==
    [][\A w \in Own :
          world[w].status = "full" /\ world'[w].status # "full" /\ world'[w].note = "ours" /\ taint' = {} =>
              \E l \in Loops : loop[l].wc = w /\ loop[l].status = "done" /\ said[l] = "done"]_vars

(* The two applications agree: a confirmed open loop is tracked in Jarvis, *)
(* and one that is over is not, if it is a mirror or the seller said done. *)
InStep ==
    \A l \in Loops :
        /\ loop[l].review = "confirmed" /\ loop[l].status \in Active =>
               loop[l].wc # NoOne /\ world[loop[l].wc].status = "full"
        /\ loop[l].status \in Over /\ loop[l].link = "mirror" => world[loop[l].wc].status # "full"
        /\ /\ loop[l].review = "confirmed" /\ loop[l].status = "done"
           /\ loop[l].rank = User /\ loop[l].wc # NoOne
           => world[loop[l].wc].status # "full"

(* ... in the end, whatever crossed, failed or was said in either of them. *)
Agree == <>[]InStep

(* The page's "Rejected. It will not be tracked or mirrored."              *)
RejectedStays == \A l \in Loops : loop[l].review = "rejected" => loop[l].status = "cancelled"

(* gate.py: the seller's input "closes any open conflict on that field".   *)
SettlesConflicts ==
    [][\A p \in Procs : GateWrite(p) /\ job[p].rank = User => loop'[job[p].loop].offers = {}]_vars

(* jarvis_bridge: "if the loop is open again here, the seller reopened     *)
(* it"; his earlier word in Jarvis is not taken for a new one.             *)
HeardOnce ==
    [][\A p \in Procs, l \in Loops : ReadBack(p, l) => job[p].rows[l].wc \notin heard]_vars
=============================================================================
