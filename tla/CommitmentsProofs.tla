-------------------------- MODULE CommitmentsProofs --------------------------
(* Theorems about Commitments, for any loops, commitments, processes,      *)
(* clicks, claims, and failures.                                           *)
EXTENDS Commitments, TLAPS

(* No agent offers to open a loop, and no mirror is one of Jarvis's own.   *)
Sound(row) ==
    /\ row.link = "none" <=> row.wc = NoOne
    /\ row.link = "mirror" => row.wc \notin Own
    /\ "open" \notin row.offers

(* What the seller said stands with his rank, and no re-run may drop it.   *)
Heeds(row, word) ==
    word # "none" =>
        /\ row.status = word /\ row.rank = User
        /\ ~(row.review = "proposed" /\ row.status = "open")

(* A process in the gate has a loop and a value to propose, and an agent's *)
(* claim has less than the seller's rank; one that is about to drop a loop *)
(* saw it proposed and open; what a sync is to go through is linked, and   *)
(* it read no mirror of Jarvis's own.                                      *)
Fit(place, j) ==
    /\ place = "gate" =>
           /\ j.loop \in Loops /\ j.value \in Active \cup Over
           /\ j.by = "claim" => j.rank < User
           /\ j.by # "claim" => j.rank = User
           /\ j.by # "edit" => j.value # "open"
    /\ place = "drop" =>
           j.loop \in Loops /\ j.seen.review = "proposed" /\ j.seen.status = "open"
    /\ place = "landed" => j.loop \in Loops
    /\ place \notin {"mirror", "landed"} => \A l \in j.todo : j.rows[l].wc \in Commitments
    /\ \A l \in Loops : j.rows[l].link = "mirror" => j.rows[l].wc \notin Own

LoopsOK ==
    /\ loop \in [Loops -> LoopRow] /\ said \in [Loops -> Statuses] /\ taint \subseteq {"gate", "sync"}
    /\ \A l \in Loops : Sound(loop[l])
    /\ "gate" \notin taint => \A l \in Loops : Heeds(loop[l], said[l])

JobsOK ==
    /\ at \in [Procs -> Places] /\ job \in [Procs -> Job]
    /\ \A p \in Procs : Fit(at[p], job[p])

WorldOK == world \in World /\ heard \subseteq Commitments /\ OnlyMirrorsDropped

CountsOK ==
    /\ clicks \in 0..MaxClicks /\ claims \in 0..MaxClaims
    /\ happenings \in 0..MaxWorld /\ faults \in 0..MaxFaults

(* The inductive invariant.                                                *)
IInv == LoopsOK /\ JobsOK /\ WorldOK /\ CountsOK

----------------------------------------------------------------------------
(* Updates keep rows and jobs what they are.                               *)
LEMMA NoLoopIsRow == NoLoop \in LoopRow /\ Sound(NoLoop)
  BY DEF NoLoop, LoopRow, Statuses, User, Sound

LEMMA NoJobIsJob == NoJob \in Job
  BY NoLoopIsRow DEF NoJob, Job, NoWorld, World, Statuses, User

LEMMA NoJobFits ==
  ASSUME NEW place \in Places \ {"gate", "drop", "landed"} PROVE Fit(place, NoJob)
  BY DEF Fit, NoJob, NoLoop

LEMMA ReleasedIsSound ==
  ASSUME NEW r \in LoopRow, Sound(r)
  PROVE  Released(r) \in LoopRow /\ Sound(Released(r))
<1>1. CASE r.link = "mirror"
  BY <1>1 DEF Released
<1>2. CASE r.link # "mirror"
  <2> DEFINE s == [r EXCEPT !.link = "none", !.wc = NoOne]
  <2>1. Released(r) = s
    BY <1>2 DEF Released
  <2>2. s \in LoopRow /\ s.link = "none" /\ s.wc = NoOne /\ s.offers = r.offers
    BY DEF LoopRow
  <2> QED
    BY <2>1, <2>2 DEF Sound
<1> QED
  BY <1>1, <1>2

(* What the handlers rewrite of a row.                                     *)
Reviews == {"proposed", "confirmed", "rejected"}
Restate(r, status, review, rank) == [r EXCEPT !.status = status, !.review = review, !.rank = rank]
Relink(r, link, wc)              == [r EXCEPT !.link = link, !.wc = wc]

LEMMA Restated ==
  ASSUME NEW r \in LoopRow, Sound(r),
         NEW status \in Statuses, NEW review \in Reviews, NEW rank \in 0..User
  PROVE  /\ Restate(r, status, review, rank) \in LoopRow
         /\ Sound(Restate(r, status, review, rank))
         /\ Restate(r, status, review, rank).status = status
         /\ Restate(r, status, review, rank).review = review
         /\ Restate(r, status, review, rank).rank = rank
<1> DEFINE row == [r EXCEPT !.status = status, !.review = review, !.rank = rank]
<1>1. row \in LoopRow /\ row.status = status /\ row.review = review /\ row.rank = rank
  BY DEF LoopRow, Reviews
<1>2. row.link = r.link /\ row.wc = r.wc /\ row.offers = r.offers
  BY DEF LoopRow
<1>3. Sound(row)
  BY <1>2 DEF Sound
<1> QED
  BY <1>1, <1>3 DEF Restate

LEMMA Relinked ==
  ASSUME NEW r \in LoopRow, Sound(r),
         NEW link \in {"none", "mirror", "adopted", "imported"}, NEW wc \in Commitments \cup {NoOne},
         link = "none" <=> wc = NoOne,
         link = "mirror" => wc \notin Own
  PROVE  /\ Relink(r, link, wc) \in LoopRow /\ Sound(Relink(r, link, wc))
         /\ Relink(r, link, wc).status = r.status
         /\ Relink(r, link, wc).review = r.review
         /\ Relink(r, link, wc).rank = r.rank
<1> DEFINE row == [r EXCEPT !.link = link, !.wc = wc]
<1>1. row \in LoopRow
  BY DEF LoopRow
<1>2. /\ row.link = link /\ row.wc = wc /\ row.offers = r.offers
      /\ row.status = r.status /\ row.review = r.review /\ row.rank = r.rank
  BY DEF LoopRow
<1>3. Sound(row)
  BY <1>2 DEF Sound
<1> QED
  BY <1>1, <1>2, <1>3 DEF Relink

LEMMA UserIsRank == User \in 0..User
  BY DEF User

LEMMA DroppedIsSound ==
  ASSUME NEW r \in LoopRow, Sound(r)
  PROVE  LET row == [Released(r) EXCEPT !.status = "cancelled", !.review = "rejected"]
         IN  row \in LoopRow /\ Sound(row)
<1> DEFINE s == Released(r)
           row == [s EXCEPT !.status = "cancelled", !.review = "rejected"]
<1>1. s \in LoopRow /\ Sound(s)
  BY ReleasedIsSound
<1> HIDE DEF s
<1>2. row = Restate(s, "cancelled", "rejected", s.rank) /\ s.rank \in 0..User
  BY <1>1 DEF LoopRow, Restate
<1>3. "cancelled" \in Statuses /\ "rejected" \in Reviews
  BY DEF Statuses, Over, Reviews
<1>4. row \in LoopRow /\ Sound(row)
  BY <1>1, <1>2, <1>3, Restated
<1> QED
  BY <1>4 DEF s

(* One row is rewritten: it must be sound and heed what is said of it.     *)
LEMMA RowChange ==
  ASSUME LoopsOK, NEW l \in Loops, NEW row \in LoopRow, NEW word \in Statuses,
         Sound(row),
         loop' = [loop EXCEPT ![l] = row],
         said' = [said EXCEPT ![l] = word],
         taint \subseteq taint', taint' \subseteq {"gate", "sync"},
         "gate" \notin taint' => Heeds(row, word)
  PROVE  LoopsOK'
<1>1. loop' \in [Loops -> LoopRow] /\ said' \in [Loops -> Statuses]
  BY DEF LoopsOK
<1>2. ASSUME NEW k \in Loops PROVE Sound(loop'[k])
  <2>1. CASE k = l
    BY <2>1 DEF LoopsOK
  <2>2. CASE k # l
    BY <2>2 DEF LoopsOK
  <2> QED
    BY <2>1, <2>2
<1>3. ASSUME "gate" \notin taint', NEW k \in Loops PROVE Heeds(loop'[k], said'[k])
  <2>1. CASE k = l
    BY <2>1, <1>3 DEF LoopsOK
  <2>2. CASE k # l
    BY <2>2, <1>3 DEF LoopsOK
  <2> QED
    BY <2>1, <2>2
<1> QED
  BY <1>1, <1>2, <1>3 DEF LoopsOK

LEMMA SameRows ==
  ASSUME LoopsOK, loop' = loop, said' = said, taint \subseteq taint', taint' \subseteq {"gate", "sync"}
  PROVE  LoopsOK'
  BY DEF LoopsOK

(* One process goes elsewhere, with a job that fits the place.             *)
LEMMA JobChange ==
  ASSUME JobsOK, NEW p \in Procs, NEW place \in Places, NEW new \in Job,
         Fit(place, new), Goto(p, place, new)
  PROVE  JobsOK'
<1>1. at' \in [Procs -> Places] /\ job' \in [Procs -> Job]
  BY DEF JobsOK, Goto
<1>2. ASSUME NEW q \in Procs PROVE Fit(at'[q], job'[q])
  <2>1. CASE q = p
    BY <2>1 DEF JobsOK, Goto
  <2>2. CASE q # p
    BY <2>2 DEF JobsOK, Goto
  <2> QED
    BY <2>1, <2>2
<1> QED
  BY <1>1, <1>2 DEF JobsOK

LEMMA SameJobs == JobsOK /\ UNCHANGED <<at, job>> => JobsOK'
  BY DEF JobsOK

LEMMA SameWorld == WorldOK /\ UNCHANGED <<world, heard>> => WorldOK'
  BY DEF WorldOK, OnlyMirrorsDropped

LEMMA Counting == CountsOK /\ (Click \/ Claim \/ UNCHANGED bounds) => CountsOK'
  BY CommitmentsConstants DEF CountsOK, Click, Claim, bounds

LEMMA InitIInv == Init => IInv
<1> SUFFICES ASSUME Init PROVE IInv
  OBVIOUS
<1>1. LoopsOK
  BY NoLoopIsRow DEF Init, LoopsOK, Heeds, Statuses
<1>2. JobsOK
  BY NoJobIsJob, NoJobFits DEF Init, JobsOK, Places
<1>3. WorldOK
  <2>1. ASSUME NEW w \in Commitments PROVE world[w] \in [status : {"none", "full", "closed", "deprecated"},
                                                        note : {"none", "ours", "owner", "auto"}]
    BY DEF Init
  <2>2. OnlyMirrorsDropped /\ heard = {}
    BY DEF Init, OnlyMirrorsDropped, Commitments
  <2> QED
    BY <2>1, <2>2 DEF Init, WorldOK, World
<1>4. CountsOK
  BY CommitmentsConstants DEF Init, CountsOK
<1> QED
  BY <1>1, <1>2, <1>3, <1>4 DEF IInv

----------------------------------------------------------------------------
(* The seller, in Sales Coach.                                             *)

(* Any edit of his that leaves a sound row behind, and his word with it.   *)
LEMMA EditIInv ==
  ASSUME IInv, NEW l \in Loops, NEW row \in LoopRow, NEW word \in Statuses,
         Sound(row), "gate" \notin taint => Heeds(row, word),
         Edits(l, row), said' = [said EXCEPT ![l] = word]
  PROVE  IInv'
<1>1. LoopsOK'
  BY RowChange DEF IInv, Edits, LoopsOK
<1>2. JobsOK' /\ WorldOK' /\ CountsOK'
  BY SameJobs, SameWorld, Counting DEF IInv, Edits
<1> QED
  BY <1>1, <1>2 DEF IInv

LEMMA RowFacts ==
  ASSUME IInv, NEW l \in Loops
  PROVE  /\ loop[l] \in LoopRow /\ Sound(loop[l]) /\ said[l] \in Statuses
         /\ "gate" \notin taint => Heeds(loop[l], said[l])
         /\ said = [said EXCEPT ![l] = said[l]]
  BY DEF IInv, LoopsOK

LEMMA ByHandIsSound ==
  ByHand \in LoopRow /\ Sound(ByHand) /\ ByHand.status = "open" /\ Heeds(ByHand, "open")
<1>1. "open" \in Statuses /\ "confirmed" \in Reviews
  BY DEF Statuses, Active, Reviews
<1>2. /\ ByHand \in LoopRow /\ Sound(ByHand)
      /\ ByHand.status = "open" /\ ByHand.review = "confirmed" /\ ByHand.rank = User
  <2>1. ByHand = Restate(NoLoop, "open", "confirmed", User)
    BY DEF ByHand, Restate
  <2> QED
    BY <1>1, <2>1, NoLoopIsRow, UserIsRank, Restated
<1> QED
  BY <1>2 DEF Heeds

LEMMA AddIInv == ASSUME IInv, NEW l \in Loops, Add(l) PROVE IInv'
<1>1. "open" \in Statuses
  BY DEF Statuses, Active
<1> QED
  BY <1>1, ByHandIsSound, EditIInv DEF Add, Says

LEMMA ImportIInv == ASSUME IInv, NEW l \in Loops, NEW w \in Own, Import(l, w) PROVE IInv'
<1> DEFINE row == [ByHand EXCEPT !.link = "imported", !.wc = w]
<1>1. /\ w \in Commitments \cup {NoOne} /\ w # NoOne /\ "open" \in Statuses
      /\ "imported" \in {"none", "mirror", "adopted", "imported"}
  BY CommitmentsConstants DEF Commitments, Statuses, Active
<1>2. /\ row \in LoopRow /\ Sound(row)
      /\ row.status = ByHand.status /\ row.review = ByHand.review /\ row.rank = ByHand.rank
  <2>1. row = Relink(ByHand, "imported", w)
    BY DEF Relink
  <2> QED
    BY <1>1, <2>1, ByHandIsSound, Relinked
<1>3. row.status = "open" /\ Heeds(row, "open")
  BY <1>2, ByHandIsSound DEF Heeds
<1> QED
  BY <1>1, <1>2, <1>3, EditIInv DEF Import, Says

LEMMA ConfirmIInv == ASSUME IInv, NEW l \in Loops, Confirm(l) PROVE IInv'
<1> DEFINE row == [loop[l] EXCEPT !.review = "confirmed", !.rank = User]
<1>1. /\ loop[l] \in LoopRow /\ Sound(loop[l]) /\ loop[l].status \in Statuses
      /\ "confirmed" \in Reviews
  BY RowFacts DEF LoopRow, Reviews
<1>2. row = Restate(loop[l], loop[l].status, "confirmed", User)
  BY <1>1 DEF LoopRow, Restate
<1>3. /\ row \in LoopRow /\ Sound(row)
      /\ row.status = loop[l].status /\ row.review = "confirmed" /\ row.rank = User
  BY <1>1, <1>2, UserIsRank, Restated
<1>4. Heeds(row, row.status)
  BY <1>3 DEF Heeds
<1> QED
  BY <1>1, <1>3, <1>4, EditIInv DEF Confirm, Says

LEMMA RejectIInv == ASSUME IInv, NEW l \in Loops, Reject(l) PROVE IInv'
<1> DEFINE row == [Released(loop[l]) EXCEPT !.status = "cancelled", !.review = "rejected"]
<1>1. row \in LoopRow /\ Sound(row) /\ Heeds(row, "none")
  BY RowFacts, DroppedIsSound DEF Heeds
<1> QED
  BY <1>1, EditIInv DEF Reject, Statuses

LEMMA EditTextIInv == ASSUME IInv, NEW l \in Loops, EditText(l) PROVE IInv'
<1> DEFINE row == [loop[l] EXCEPT !.review = "confirmed"]
<1>1. row \in LoopRow /\ Sound(row) /\ ("gate" \notin taint => Heeds(row, said[l]))
  BY RowFacts DEF LoopRow, Sound, Heeds
<1> QED
  BY <1>1, RowFacts, EditIInv DEF EditText

LEMMA DismissIInv ==
  ASSUME IInv, NEW l \in Loops, NEW value \in Active \cup Over, Dismiss(l, value) PROVE IInv'
<1> DEFINE row == [loop[l] EXCEPT !.offers = @ \ {value}]
<1>1. row \in LoopRow /\ Sound(row) /\ ("gate" \notin taint => Heeds(row, said[l]))
  BY RowFacts DEF LoopRow, Sound, Heeds
<1> QED
  BY <1>1, RowFacts, EditIInv DEF Dismiss

(* Whoever goes to the gate has fit business there.                        *)
LEMMA ProposeJobs ==
  ASSUME IInv, NEW p \in Procs, NEW l \in Loops, NEW value \in Active \cup Over, NEW rank \in 0..User,
         NEW by \in {"edit", "offer", "claim"}, Propose(p, l, value, rank, by),
         at[p] = "idle", IF by = "claim" THEN rank < User ELSE rank = User,
         by # "edit" => value # "open"
  PROVE  JobsOK'
<1> DEFINE new == [job[p] EXCEPT !.loop = l, !.value = value, !.rank = rank, !.by = by, !.seen = loop[l]]
<1>1. job[p] \in Job /\ Fit(at[p], job[p])
  BY DEF IInv, JobsOK
<1>2. new \in Job /\ new.rows = job[p].rows /\ new.todo = job[p].todo
  BY <1>1, RowFacts DEF Job, Statuses
<1>3. Fit("gate", new)
  BY <1>1, <1>2 DEF Fit, Job
<1> QED
  BY <1>2, <1>3, JobChange DEF Propose, IInv, Places

LEMMA EditStatusIInv ==
  ASSUME IInv, NEW p \in Sellers, NEW l \in Loops, NEW value \in Choices, EditStatus(p, l, value)
  PROVE  IInv'
<1>1. value \in Active \cup Over /\ p \in Procs
  BY CommitmentsConstants DEF Active, Over, Procs
<1>2. JobsOK'
  BY <1>1, ProposeJobs DEF EditStatus, User
<1> QED
  BY <1>2, SameRows, SameWorld, Counting DEF IInv, EditStatus, history, LoopsOK

LEMMA AcceptIInv ==
  ASSUME IInv, NEW p \in Sellers, NEW l \in Loops, NEW value \in Active \cup Over, Accept(p, l, value)
  PROVE  IInv'
<1>1. value # "open" /\ p \in Procs
  BY RowFacts DEF Accept, Sound, Procs
<1>2. JobsOK'
  BY <1>1, ProposeJobs DEF Accept, User
<1> QED
  BY <1>2, SameRows, SameWorld, Counting DEF IInv, Accept, history, LoopsOK

----------------------------------------------------------------------------
(* The agents.                                                             *)

LEMMA CreateIInv ==
  ASSUME IInv, NEW l \in Loops, NEW rank \in Strengths, NEW w \in Own \cup {NoOne}, Create(l, rank, w)
  PROVE  IInv'
<1> DEFINE row == [NoLoop EXCEPT !.status = "open", !.rank = rank, !.wc = w,
                                 !.link = IF w = NoOne THEN "none" ELSE "adopted"]
<1>1. w \in Commitments \cup {NoOne} /\ rank \in 0..User
  BY CommitmentsConstants DEF Commitments, User
<1>2. row \in LoopRow /\ Sound(row)
  BY <1>1 DEF NoLoop, LoopRow, Statuses, Active, Sound
<1>3. "gate" \notin taint => said[l] = "none"
  BY RowFacts DEF Create, Exists, Heeds
<1>4. LoopsOK'
  BY <1>2, <1>3, RowFacts, RowChange DEF IInv, Create, history, LoopsOK, Heeds
<1> QED
  BY <1>4, SameJobs, SameWorld, Counting DEF IInv, Create, history

LEMMA ClaimStatusIInv ==
  ASSUME IInv, NEW p \in Agents, NEW l \in Loops, NEW value \in Over \cup {"waiting"},
         NEW rank \in Strengths, ClaimStatus(p, l, value, rank)
  PROVE  IInv'
<1>1. value \in Active \cup Over /\ value # "open" /\ p \in Procs
  BY DEF Active, Over, Procs
<1>2. rank \in 0..User /\ rank < User
  BY CommitmentsConstants DEF User
<1>3. JobsOK'
  BY <1>1, <1>2, ProposeJobs DEF ClaimStatus
<1> QED
  BY <1>3, SameRows, SameWorld, Counting DEF IInv, ClaimStatus, history, LoopsOK

LEMMA ParkIInv ==
  ASSUME IInv, NEW l \in Loops, NEW value \in Over \cup {"waiting"}, Park(l, value) PROVE IInv'
<1> DEFINE row == [loop[l] EXCEPT !.offers = @ \cup {value}]
<1>1. value \in Active \cup Over /\ value # "open"
  BY DEF Active, Over
<1>2. row \in LoopRow /\ Sound(row) /\ ("gate" \notin taint => Heeds(row, said[l]))
  BY <1>1, RowFacts DEF LoopRow, Sound, Heeds
<1>3. loop' = [loop EXCEPT ![l] = row]
  BY DEF Park
<1>4. LoopsOK'
  BY <1>2, <1>3, RowFacts, RowChange DEF IInv, Park, history, LoopsOK
<1> QED
  BY <1>4, SameJobs, SameWorld, Counting DEF IInv, Park, history

LEMMA RerunLookIInv == ASSUME IInv, NEW p \in Agents, NEW l \in Loops, RerunLook(p, l) PROVE IInv'
<1> DEFINE new == [NoJob EXCEPT !.loop = l, !.seen = loop[l]]
<1>1. new \in Job /\ Fit("drop", new)
  BY NoJobIsJob, RowFacts DEF Job, Fit, RerunLook, NoJob, NoLoop
<1>2. JobsOK'
  BY <1>1, JobChange DEF IInv, RerunLook, Places, Procs
<1> QED
  BY <1>2, SameRows, SameWorld, Counting DEF IInv, RerunLook, history, LoopsOK

LEMMA RerunDropIInv == ASSUME IInv, NEW p \in Agents, RerunDrop(p) PROVE IInv'
<1> DEFINE l == job[p].loop
           row == [Released(loop[l]) EXCEPT !.status = "cancelled", !.review = "rejected"]
<1>1. l \in Loops /\ job[p].seen.review = "proposed" /\ job[p].seen.status = "open" /\ p \in Procs
  BY DEF IInv, JobsOK, RerunDrop, Fit, Procs
<1>2. row \in LoopRow /\ Sound(row)
  BY <1>1, RowFacts, DroppedIsSound
<1>3. taint \subseteq taint' /\ taint' \subseteq {"gate", "sync"}
  BY DEF IInv, LoopsOK, RerunDrop
<1>4. "gate" \notin taint' => Heeds(row, said[l])
  <2> SUFFICES ASSUME "gate" \notin taint' PROVE said[l] = "none"
    BY DEF Heeds
  <2> QED
    BY <1>1, RowFacts DEF RerunDrop, Heeds
<1>5. LoopsOK'
  BY <1>1, <1>2, <1>3, <1>4, RowFacts, RowChange DEF IInv, RerunDrop
<1>6. JobsOK'
  BY <1>1, NoJobIsJob, NoJobFits, JobChange DEF IInv, RerunDrop, Places
<1> QED
  BY <1>5, <1>6, SameWorld, Counting DEF IInv, RerunDrop

----------------------------------------------------------------------------
(* Jarvis and the bridge.                                                  *)

LEMMA HappensIInv ==
  ASSUME IInv, NEW w \in Commitments, NEW status \in {"closed", "deprecated"},
         NEW note \in {"owner", "auto"}, Happens(w, status, note)
  PROVE  IInv'
<1>1. LoopsOK' /\ JobsOK'
  BY SameRows, SameJobs DEF IInv, Happens, LoopsOK
<1>2. world' \in World /\ heard' \subseteq Commitments
  BY DEF IInv, WorldOK, Happens, World
<1>3. OnlyMirrorsDropped'
  <2> SUFFICES ASSUME NEW v \in Own
               PROVE  ~(world'[v].status = "deprecated" /\ world'[v].note = "ours")
    BY DEF OnlyMirrorsDropped
  <2>1. v \in Commitments
    BY DEF Commitments
  <2> QED
    BY <2>1 DEF IInv, WorldOK, OnlyMirrorsDropped, Happens, World
<1>4. CountsOK'
  BY CommitmentsConstants DEF IInv, CountsOK, Happens
<1> QED
  BY <1>1, <1>2, <1>3, <1>4 DEF IInv, WorldOK

LEMMA JobFacts ==
  ASSUME IInv, NEW p \in Procs
  PROVE  job[p] \in Job /\ Fit(at[p], job[p])
  BY DEF IInv, JobsOK

(* A sync's job, changed as its steps change it, fits wherever it goes on. *)
LEMMA SyncJobs ==
  ASSUME IInv, NEW p \in Procs, NEW place \in Places \ {"gate", "drop", "landed"}, NEW new \in Job,
         Goto(p, place, new),
         place # "mirror" => \A l \in new.todo : new.rows[l].wc \in Commitments,
         \A l \in Loops : new.rows[l].link = "mirror" => new.rows[l].wc \notin Own
  PROVE  JobsOK'
<1>1. Fit(place, new)
  BY DEF Fit
<1> QED
  BY <1>1, JobChange DEF IInv

LEMMA NoJobGoes ==
  ASSUME IInv, NEW p \in Procs, NEW place \in Places \ {"gate", "drop", "landed"}, Goto(p, place, NoJob)
  PROVE  JobsOK'
  BY NoJobIsJob, NoJobFits, JobChange DEF IInv

LEMMA StartSyncIInv == ASSUME IInv, NEW p \in Syncers, StartSync(p) PROVE IInv'
<1> DEFINE new == [NoJob EXCEPT !.todo = Unlinked]
<1>1. new \in Job /\ \A l \in Loops : new.rows[l].link # "mirror"
  BY NoJobIsJob DEF Job, Unlinked, NoJob, NoLoop
<1>2. JobsOK'
  BY <1>1, SyncJobs DEF StartSync, Places, Procs
<1> QED
  BY <1>2, SameRows, SameWorld, Counting DEF IInv, StartSync, history, LoopsOK

(* What a mirror's landing changes is no commitment of Jarvis's own.       *)
LEMMA LandIInv == ASSUME IInv, NEW p \in Syncers, NEW l \in Loops, Land(p, l) PROVE IInv'
<1> DEFINE new == [job[p] EXCEPT !.loop = l, !.todo = @ \ {l}]
<1>1. p \in Procs /\ job[p] \in Job /\ Fit(at[p], job[p])
  BY JobFacts DEF Procs
<1>2. new \in Job /\ new.rows = job[p].rows /\ new.loop = l
  BY <1>1 DEF Job
<1>3. Fit("landed", new)
  BY <1>1, <1>2 DEF Fit
<1>4. JobsOK'
  BY <1>1, <1>2, <1>3, JobChange DEF Land, IInv, Places
<1>5. world' \in World
  BY DEF IInv, WorldOK, Land, World
<1>6. OnlyMirrorsDropped'
  <2> SUFFICES ASSUME NEW w \in Own
               PROVE  ~(world'[w].status = "deprecated" /\ world'[w].note = "ours")
    BY DEF OnlyMirrorsDropped
  <2>1. w \in Commitments /\ w # l
    BY CommitmentsConstants DEF Commitments
  <2>2. world'[w] = world[w]
    BY <2>1 DEF IInv, WorldOK, Land, World
  <2> QED
    BY <2>2 DEF IInv, WorldOK, OnlyMirrorsDropped
<1>7. LoopsOK' /\ CountsOK'
  BY SameRows, Counting DEF IInv, Land, history, LoopsOK
<1> QED
  BY <1>4, <1>5, <1>6, <1>7 DEF IInv, WorldOK, Land, history

LEMMA LinkIInv == ASSUME IInv, NEW p \in Syncers, Link(p) PROVE IInv'
<1> DEFINE l == job[p].loop
           new == [job[p] EXCEPT !.loop = NoOne]
           row == [loop[l] EXCEPT !.wc = l, !.link = "mirror"]
<1>1. p \in Procs /\ job[p] \in Job /\ Fit(at[p], job[p])
  BY JobFacts DEF Procs
<1>2. l \in Loops /\ l \in Commitments /\ l # NoOne /\ l \notin Own
  BY <1>1, CommitmentsConstants DEF Link, Fit, Commitments
<1>3. row \in LoopRow /\ Sound(row) /\ ("gate" \notin taint => Heeds(row, said[l]))
  <2>1. row = Relink(loop[l], "mirror", l)
    BY <1>2, RowFacts DEF Relink, LoopRow
  <2>2. "mirror" \in {"none", "mirror", "adopted", "imported"}
    OBVIOUS
  <2> QED
    BY <1>2, <2>1, <2>2, RowFacts, Relinked DEF Heeds
<1>4. loop' = [loop EXCEPT ![l] = row]
  BY DEF Link, IInv, LoopsOK
<1>5. LoopsOK'
  <2>1. said' = [said EXCEPT ![l] = said[l]] /\ taint' = taint /\ said[l] \in Statuses
    BY <1>2, RowFacts DEF Link, history
  <2>2. LoopsOK /\ taint \subseteq {"gate", "sync"} /\ taint \subseteq taint' /\ taint' \subseteq {"gate", "sync"}
    BY <2>1 DEF IInv, LoopsOK
  <2>3. "gate" \notin taint' => Heeds(row, said[l])
    BY <1>3, <2>1
  <2> HIDE DEF row, l
  <2> QED
    BY <1>2, <1>3, <1>4, <2>1, <2>2, <2>3, RowChange
<1>6. new \in Job /\ new.rows = job[p].rows
  BY <1>1 DEF Job
<1>7. JobsOK'
  BY <1>1, <1>6, SyncJobs DEF Link, Places, Fit
<1> QED
  BY <1>5, <1>7, SameWorld, Counting DEF IInv, Link, history

(* Rows as a sync reads them are sound.                                    *)
LEMMA RowsJobs ==
  ASSUME IInv, NEW p \in Syncers, NEW todo \in SUBSET Loops, \A l \in todo : loop[l].wc # NoOne,
         NEW place \in {"close_states", "back_states"}, Rows(p, todo, place)
  PROVE  JobsOK'
<1> DEFINE rows == [l \in Loops |-> IF l \in todo THEN loop[l] ELSE NoLoop]
           new == [NoJob EXCEPT !.todo = todo, !.rows = rows]
<1>1. ASSUME NEW l \in Loops PROVE rows[l] \in LoopRow /\ Sound(rows[l])
  BY RowFacts, NoLoopIsRow
<1>2. /\ rows \in [Loops -> LoopRow]
      /\ \A l \in Loops : rows[l].link = "mirror" => rows[l].wc \notin Own
      /\ \A l \in todo : rows[l].wc \in Commitments
  BY <1>1, RowFacts DEF Sound, LoopRow
<1> HIDE DEF rows
<1>3. new \in Job /\ new.rows = rows /\ new.todo = todo
  BY <1>2, NoJobIsJob DEF Job, NoJob
<1>4. Goto(p, place, new) /\ p \in Procs
  BY DEF Rows, rows, Procs
<1> HIDE DEF new
<1> QED
  BY <1>2, <1>3, <1>4, SyncJobs DEF Places

LEMMA CloseRowsIInv == ASSUME IInv, NEW p \in Syncers, CloseRows(p) PROVE IInv'
<1>1. JobsOK'
  BY RowsJobs DEF CloseRows, ToClose
<1> QED
  BY <1>1, SameRows, SameWorld, Counting DEF IInv, CloseRows, history, LoopsOK

LEMMA BackRowsIInv == ASSUME IInv, NEW p \in Syncers, BackRows(p) PROVE IInv'
<1>1. JobsOK'
  BY RowsJobs DEF BackRows
<1> QED
  BY <1>1, SameRows, SameWorld, Counting DEF IInv, BackRows, history, LoopsOK

LEMMA StatesJobs ==
  ASSUME IInv, NEW p \in Syncers, NEW place \in {"close", "back"}, States(p, place),
         at[p] \in {"close_states", "back_states"}
  PROVE  JobsOK'
<1> DEFINE ids == {job[p].rows[l].wc : l \in job[p].todo}
           states == [w \in Commitments |-> IF w \in ids THEN world[w] ELSE job[p].states[w]]
           new == [job[p] EXCEPT !.states = states]
<1>1. p \in Procs /\ job[p] \in Job /\ Fit(at[p], job[p])
  BY JobFacts DEF Procs
<1>2. states \in World
  BY <1>1 DEF IInv, WorldOK, World, Job
<1> HIDE DEF states
<1>3. new \in Job /\ new.rows = job[p].rows /\ new.todo = job[p].todo
  BY <1>1, <1>2 DEF Job
<1>4. Goto(p, place, new)
  BY <1>1 DEF States, states, Job
<1> QED
  BY <1>1, <1>3, <1>4, SyncJobs DEF Places, Fit

LEMMA CloseStatesIInv == ASSUME IInv, NEW p \in Syncers, CloseStates(p) PROVE IInv'
<1>1. JobsOK'
  BY StatesJobs DEF CloseStates
<1> QED
  BY <1>1, SameRows, SameWorld, Counting DEF IInv, CloseStates, history, LoopsOK

LEMMA BackStatesIInv == ASSUME IInv, NEW p \in Syncers, BackStates(p) PROVE IInv'
<1>1. JobsOK'
  BY StatesJobs DEF BackStates
<1> QED
  BY <1>1, SameRows, SameWorld, Counting DEF IInv, BackStates, history, LoopsOK

LEMMA EndSyncIInv == ASSUME IInv, NEW p \in Syncers, EndSync(p) PROVE IInv'
<1>1. JobsOK'
  BY NoJobGoes DEF EndSync, Places, Procs
<1> QED
  BY <1>1, SameRows, SameWorld, Counting DEF IInv, EndSync, history, LoopsOK

LEMMA SyncFailsIInv == ASSUME IInv, NEW p \in Syncers, SyncFails(p) PROVE IInv'
<1>1. JobsOK'
  BY NoJobGoes DEF SyncFails, Places, Procs
<1>2. CountsOK'
  BY CommitmentsConstants DEF IInv, CountsOK, SyncFails
<1> QED
  BY <1>1, <1>2, SameRows, SameWorld DEF IInv, SyncFails, history, LoopsOK

(* A loop's turn in a sync.                                                *)
LEMMA OnwardsIsJob ==
  ASSUME IInv, NEW p \in Procs, NEW l \in Loops
  PROVE  /\ Onwards(p, l) \in Job
         /\ \A k \in Loops : Onwards(p, l).rows[k].link = "mirror" => Onwards(p, l).rows[k].wc \notin Own
         /\ at[p] \notin {"mirror", "landed"} =>
                \A k \in Onwards(p, l).todo : Onwards(p, l).rows[k].wc \in Commitments
<1> DEFINE rows == [job[p].rows EXCEPT ![l] = NoLoop]
           todo == job[p].todo \ {l}
<1>1. job[p] \in Job /\ Fit(at[p], job[p])
  BY JobFacts
<1>2. rows \in [Loops -> LoopRow] /\ \A k \in Loops : rows[k].link = "mirror" => rows[k].wc \notin Own
  BY <1>1, NoLoopIsRow DEF Job, Fit, NoLoop
<1>3. todo \in SUBSET Loops
      /\ (at[p] \notin {"mirror", "landed"} => \A k \in todo : rows[k].wc \in Commitments)
  BY <1>1 DEF Job, Fit
<1> HIDE DEF rows, todo
<1>4. Onwards(p, l) = [job[p] EXCEPT !.todo = todo, !.rows = rows]
  BY <1>1 DEF Onwards, Job, rows, todo
<1>5. [job[p] EXCEPT !.todo = todo, !.rows = rows] \in Job
      /\ [job[p] EXCEPT !.todo = todo, !.rows = rows].rows = rows
      /\ [job[p] EXCEPT !.todo = todo, !.rows = rows].todo = todo
  BY <1>1, <1>2, <1>3 DEF Job
<1> QED
  BY <1>2, <1>3, <1>4, <1>5

LEMMA TurnJobs ==
  ASSUME IInv, NEW p \in Syncers, NEW l \in Loops, at[p] \in {"close", "back"}, Turn(p, l)
  PROVE  JobsOK' /\ taint \subseteq taint' /\ taint' \subseteq {"gate", "sync"}
         /\ ("gate" \notin taint' => "gate" \notin taint)
<1>1. p \in Procs
  BY DEF Procs
<1>2. JobsOK'
  BY <1>1, OnwardsIsJob, SyncJobs DEF Turn, Places
<1> QED
  BY <1>2 DEF Turn, IInv, LoopsOK

(* A commitment is dropped only for a row that says it is a mirror.        *)
LEMMA CloseOneIInv == ASSUME IInv, NEW p \in Syncers, NEW l \in Loops, CloseOne(p, l) PROVE IInv'
<1> DEFINE row == job[p].rows[l]
           new == [loop[l] EXCEPT !.link = "none", !.wc = NoOne]
<1>1. p \in Procs /\ row \in LoopRow /\ (row.link = "mirror" => row.wc \notin Own)
  BY JobFacts DEF Procs, Job, Fit
<1>2. JobsOK' /\ taint \subseteq taint' /\ taint' \subseteq {"gate", "sync"}
      /\ ("gate" \notin taint' => "gate" \notin taint)
  BY TurnJobs DEF CloseOne
<1>3. LoopsOK'
  <2>1. CASE loop' = loop
    BY <2>1, <1>2, SameRows DEF IInv, CloseOne
  <2>2. CASE loop' = [loop EXCEPT ![l].link = "none", ![l].wc = NoOne]
    <3>1. loop' = [loop EXCEPT ![l] = new]
      BY <2>2 DEF IInv, LoopsOK
    <3>2. new = Relink(loop[l], "none", NoOne)
      BY RowFacts DEF Relink, LoopRow
    <3>3. "none" \in {"none", "mirror", "adopted", "imported"} /\ NoOne \in Commitments \cup {NoOne}
      OBVIOUS
    <3>4. new \in LoopRow /\ Sound(new) /\ ("gate" \notin taint => Heeds(new, said[l]))
      BY <3>2, <3>3, RowFacts, Relinked DEF Heeds
    <3> HIDE DEF new
    <3> QED
      BY <1>2, <3>1, <3>4, RowFacts, RowChange DEF IInv, CloseOne
  <2> QED
    BY <2>1, <2>2 DEF CloseOne
<1>4. \/ world' = world
      \/ InJarvis(row.wc, "closed")
      \/ row.link = "mirror" /\ InJarvis(row.wc, "deprecated")
  BY DEF CloseOne, MayDrop
<1>5. WorldOK'
  <2>1. world' \in World
    BY <1>4 DEF IInv, WorldOK, InJarvis, World
  <2>2. OnlyMirrorsDropped'
    <3> SUFFICES ASSUME NEW w \in Own
                 PROVE  ~(world'[w].status = "deprecated" /\ world'[w].note = "ours")
      BY DEF OnlyMirrorsDropped
    <3>1. w \in Commitments
      BY DEF Commitments
    <3>2. world'[w] = world[w] \/ world'[w] = [status |-> "closed", note |-> "ours"]
      BY <1>1, <1>4, <3>1 DEF IInv, WorldOK, InJarvis, World
    <3> QED
      BY <3>1, <3>2 DEF IInv, WorldOK, OnlyMirrorsDropped
  <2> QED
    BY <2>1, <2>2 DEF IInv, WorldOK, CloseOne
<1> QED
  BY <1>2, <1>3, <1>5, Counting DEF IInv, CloseOne

LEMMA BackOneIInv == ASSUME IInv, NEW p \in Syncers, NEW l \in Loops, BackOne(p, l) PROVE IInv'
<1> DEFINE u == job[p].rows[l].wc
<1>1. JobsOK' /\ LoopsOK'
  BY TurnJobs, SameRows DEF BackOne, IInv
<1>2. world' = world \/ world' = [world EXCEPT ![u].status = "full"]
  BY DEF BackOne
<1>3. world' \in World
  BY <1>2 DEF IInv, WorldOK, World
<1>4. OnlyMirrorsDropped'
  <2> SUFFICES ASSUME NEW w \in Own
               PROVE  ~(world'[w].status = "deprecated" /\ world'[w].note = "ours")
    BY DEF OnlyMirrorsDropped
  <2>1. w \in Commitments
    BY DEF Commitments
  <2>2. world'[w] = world[w] \/ world'[w].status = "full"
    BY <1>2, <2>1 DEF IInv, WorldOK, World
  <2> QED
    BY <2>2 DEF IInv, WorldOK, OnlyMirrorsDropped
<1> QED
  BY <1>1, <1>3, <1>4, Counting DEF IInv, WorldOK, BackOne

LEMMA ReadBackIInv == ASSUME IInv, NEW p \in Syncers, NEW l \in Loops, ReadBack(p, l) PROVE IInv'
<1> DEFINE j == Onwards(p, l)
           value == IF job[p].states[job[p].rows[l].wc].status = "closed" THEN "done" ELSE "cancelled"
           new == [j EXCEPT !.loop = l, !.rank = User, !.by = "jarvis", !.seen = loop[l], !.value = value]
<1>1. /\ p \in Procs /\ j \in Job
      /\ \A k \in Loops : j.rows[k].link = "mirror" => j.rows[k].wc \notin Own
  BY OnwardsIsJob DEF Procs
<1>2. value \in Over /\ value \in Statuses /\ loop[l] \in LoopRow /\ User \in 0..User
  BY RowFacts, UserIsRank DEF Over, Statuses
<1> HIDE DEF j, value
<1>3. /\ new \in Job /\ new.rows = j.rows /\ new.todo = j.todo /\ new.loop = l
      /\ new.rank = User /\ new.by = "jarvis" /\ new.value = value
  BY <1>1, <1>2 DEF Job
<1>4. \A k \in new.todo : new.rows[k].wc \in Commitments
  BY <1>3, OnwardsIsJob DEF ReadBack, Procs, j
<1>5. Fit("gate", new)
  BY <1>1, <1>2, <1>3, <1>4 DEF Fit, Over, Active
<1>6. Goto(p, "gate", new)
  BY DEF ReadBack, j, value
<1> HIDE DEF new
<1>7. JobsOK'
  BY <1>1, <1>3, <1>5, <1>6, JobChange DEF IInv, Places
<1>8. job[p].rows[l].wc \in Commitments
  BY JobFacts DEF ReadBack, Procs, Fit
<1>9. WorldOK'
  BY <1>8 DEF ReadBack, IInv, WorldOK, OnlyMirrorsDropped
<1> QED
  BY <1>7, <1>9, SameRows, Counting DEF IInv, ReadBack, LoopsOK

----------------------------------------------------------------------------
(* The gate.                                                               *)

LEMMA Reoffered ==
  ASSUME NEW r \in LoopRow, Sound(r), NEW o \in SUBSET (Active \cup Over), "open" \notin o
  PROVE  LET row == [r EXCEPT !.offers = o]
         IN  /\ row \in LoopRow /\ Sound(row)
             /\ row.status = r.status /\ row.review = r.review /\ row.rank = r.rank
<1> DEFINE row == [r EXCEPT !.offers = o]
<1>1. row \in LoopRow
  BY DEF LoopRow
<1>2. /\ row.link = r.link /\ row.wc = r.wc /\ row.offers = o
      /\ row.status = r.status /\ row.review = r.review /\ row.rank = r.rank
  BY DEF LoopRow
<1>3. Sound(row)
  BY <1>2 DEF Sound
<1> QED
  BY <1>1, <1>2, <1>3

(* What the gate writes is sound; if the row is as the gate saw it, the    *)
(* seller's value stands, and a weaker one does not replace his.           *)
LEMMA GatedFacts ==
  ASSUME NEW r \in LoopRow, Sound(r), NEW j \in Job, Fit("gate", j)
  PROVE  LET g == Gated(r, j)
         IN  /\ g \in LoopRow /\ Sound(g) /\ g.review = r.review
             /\ r.status = j.seen.status /\ r.rank = j.seen.rank =>
                    /\ j.rank = User => g.status = j.value /\ g.rank = User
                    /\ j.rank < User /\ r.rank = User => g.status = r.status /\ g.rank = User
<1> DEFINE g == Gated(r, j)
           more == r.offers \cup {j.value}
           kept == IF j.rank = User THEN {} ELSE r.offers
<1>1. /\ j.rank \in 0..User /\ j.seen.rank \in 0..User /\ r.rank \in 0..User
      /\ r.review \in Reviews /\ r.status \in Statuses
      /\ r.offers \in SUBSET (Active \cup Over) /\ "open" \notin r.offers
      /\ j.value \in Active \cup Over /\ j.value \in Statuses
      /\ (j.rank < User => j.value # "open")
  BY DEF Fit, Job, LoopRow, Sound, Statuses, Reviews
<1>2. CASE j.seen.status = j.value /\ j.rank > j.seen.rank
  <2>1. g = [r EXCEPT !.rank = j.rank]
    BY <1>2 DEF Gated
  <2>2. g = Restate(r, r.status, r.review, j.rank)
    BY <2>1 DEF Restate, LoopRow
  <2>3. g \in LoopRow /\ Sound(g) /\ g.status = r.status /\ g.review = r.review /\ g.rank = j.rank
    BY <1>1, <2>2, Restated
  <2> HIDE DEF g
  <2>4. ~(j.rank < User /\ r.rank = User /\ r.rank = j.seen.rank)
    BY <1>1, <1>2 DEF User
  <2> QED
    BY <1>2, <2>3, <2>4 DEF g
<1>3. CASE j.seen.status = j.value /\ ~(j.rank > j.seen.rank)
  <2>1. g = r
    BY <1>3 DEF Gated
  <2>2. j.rank = User /\ r.rank = j.seen.rank => r.rank = User
    BY <1>1, <1>3 DEF User
  <2> QED
    BY <1>3, <2>1, <2>2
<1>4. CASE j.seen.status # j.value /\ j.rank < j.seen.rank
  <2>1. g = [r EXCEPT !.offers = more]
    BY <1>4 DEF Gated, Weaker, LoopRow
  <2>2. j.rank < User /\ j.rank # User
    BY <1>1, <1>4 DEF User
  <2>3. more \in SUBSET (Active \cup Over) /\ "open" \notin more
    BY <1>1, <2>2
  <2> HIDE DEF more
  <2>4. g \in LoopRow /\ Sound(g) /\ g.status = r.status /\ g.review = r.review /\ g.rank = r.rank
    BY <2>1, <2>3, Reoffered
  <2> QED
    BY <2>2, <2>4
<1>5. CASE j.seen.status # j.value /\ ~(j.rank < j.seen.rank)
  <2> DEFINE q == Restate(r, j.value, r.review, j.rank)
  <2>1. kept \in SUBSET (Active \cup Over) /\ "open" \notin kept
    BY <1>1
  <2>2. g = [q EXCEPT !.offers = kept]
    BY <1>5 DEF Gated, Weaker, LoopRow, Restate
  <2> HIDE DEF kept
  <2>3. q \in LoopRow /\ Sound(q) /\ q.status = j.value /\ q.review = r.review /\ q.rank = j.rank
    BY <1>1, Restated
  <2> HIDE DEF q
  <2>4. g \in LoopRow /\ Sound(g) /\ g.status = j.value /\ g.review = r.review /\ g.rank = j.rank
    BY <2>1, <2>2, <2>3, Reoffered
  <2>5. ~(j.rank < User /\ r.rank = User /\ r.rank = j.seen.rank)
    BY <1>1, <1>5 DEF User
  <2> QED
    BY <2>4, <2>5
<1> QED
  BY <1>2, <1>3, <1>4, <1>5

LEMMA SettledFacts ==
  ASSUME NEW g \in LoopRow, Sound(g), NEW j \in Job
  PROVE  LET s == Settled(g, j)
         IN  /\ s \in LoopRow /\ Sound(s) /\ s.status = g.status /\ s.rank = g.rank
             /\ s.review = IF j.by = "edit" THEN "confirmed" ELSE g.review
<1> DEFINE s == Settled(g, j)
           fewer == g.offers \ {j.value}
<1>1. /\ g.status \in Statuses /\ g.rank \in 0..User /\ "confirmed" \in Reviews
      /\ g.offers \in SUBSET (Active \cup Over) /\ "open" \notin g.offers
  BY DEF LoopRow, Sound, Reviews
<1>2. CASE j.by = "edit"
  <2>1. s = Restate(g, g.status, "confirmed", g.rank)
    BY <1>2 DEF Settled, Restate, LoopRow
  <2> QED
    BY <1>1, <1>2, <2>1, Restated
<1>3. CASE j.by = "offer"
  <2>1. s = [g EXCEPT !.offers = fewer]
    BY <1>3 DEF Settled
  <2>2. fewer \in SUBSET (Active \cup Over) /\ "open" \notin fewer
    BY <1>1
  <2> HIDE DEF fewer
  <2> QED
    BY <1>3, <2>1, <2>2, Reoffered
<1>4. CASE j.by \notin {"edit", "offer"}
  BY <1>4 DEF Settled
<1> QED
  BY <1>2, <1>3, <1>4

LEMMA GateWriteIInv == ASSUME IInv, NEW p \in Procs, GateWrite(p) PROVE IInv'
<1> DEFINE j == job[p]
           l == j.loop
           g == Gated(loop[l], j)
           row == Settled(g, j)
           word == IF j.rank = User THEN j.value ELSE said[l]
           back == [j EXCEPT !.loop = NoOne, !.value = "none", !.rank = 0, !.by = "none", !.seen = NoLoop]
<1>1. /\ j \in Job /\ Fit("gate", j) /\ l \in Loops
      /\ j.rank \in 0..User /\ j.value \in Statuses
  BY JobFacts DEF GateWrite, Fit, Job
<1>2. loop[l] \in LoopRow /\ Sound(loop[l]) /\ said[l] \in Statuses
  BY <1>1, RowFacts
<1>3. /\ g \in LoopRow /\ Sound(g) /\ g.review = loop[l].review
      /\ loop[l].status = j.seen.status /\ loop[l].rank = j.seen.rank =>
             /\ j.rank = User => g.status = j.value /\ g.rank = User
             /\ j.rank < User /\ loop[l].rank = User => g.status = loop[l].status /\ g.rank = User
  BY <1>1, <1>2, GatedFacts
<1>4. /\ row \in LoopRow /\ Sound(row) /\ row.status = g.status /\ row.rank = g.rank
      /\ row.review = IF j.by = "edit" THEN "confirmed" ELSE g.review
  <2> HIDE DEF g
  <2> QED
    BY <1>1, <1>3, SettledFacts
<1>5. loop' = [loop EXCEPT ![l] = row] /\ said' = [said EXCEPT ![l] = word] /\ word \in Statuses
  BY <1>1, <1>2 DEF GateWrite, IInv, LoopsOK
<1>6. /\ taint \subseteq taint' /\ taint' \subseteq {"gate", "sync"}
      /\ "gate" \notin taint' =>
             "gate" \notin taint /\ loop[l].status = j.seen.status /\ loop[l].rank = j.seen.rank
  BY DEF GateWrite, IInv, LoopsOK
<1>7. ASSUME "gate" \notin taint' PROVE Heeds(row, word)
  <2>1. Heeds(loop[l], said[l]) /\ loop[l].status = j.seen.status /\ loop[l].rank = j.seen.rank
    BY <1>1, <1>6, <1>7, RowFacts
  <2>2. CASE j.rank = User
    <3>1. row.status = j.value /\ row.rank = User /\ word = j.value
      BY <1>3, <1>4, <2>1, <2>2
    <3>2. j.by = "edit" \/ j.value # "open"
      BY <1>1 DEF Fit
    <3>3. ~(row.review = "proposed" /\ row.status = "open")
      BY <1>4, <3>1, <3>2
    <3> QED
      BY <3>1, <3>3 DEF Heeds
  <2>3. CASE j.rank < User
    <3>1. word = said[l]
      BY <2>3 DEF User
    <3>2. j.by # "edit"
      BY <1>1, <2>3 DEF Fit, User
    <3>3. said[l] # "none" => /\ row.status = loop[l].status /\ row.rank = User
                              /\ row.review = loop[l].review
      BY <1>3, <1>4, <2>1, <2>3, <3>2 DEF Heeds
    <3> QED
      BY <2>1, <3>1, <3>3 DEF Heeds
  <2> QED
    BY <1>1, <2>2, <2>3 DEF User
<1>8. LoopsOK'
  <2> HIDE DEF row, word
  <2> QED
    BY <1>1, <1>4, <1>5, <1>6, <1>7, RowChange DEF IInv
<1>9. JobsOK'
  <2>1. CASE p \in Syncers
    <3>1. "none" \in Statuses /\ 0 \in 0..User /\ NoLoop \in LoopRow
      BY NoLoopIsRow DEF Statuses, User
    <3> HIDE DEF j
    <3>2. back \in Job /\ back.rows = j.rows /\ back.todo = j.todo
      BY <1>1, <3>1 DEF Job
    <3> USE DEF j
    <3>3. Fit("back", back)
      BY <1>1, <3>2 DEF Fit
    <3>4. Goto(p, "back", back)
      BY <2>1 DEF GateWrite
    <3> HIDE DEF back
    <3> QED
      BY <3>2, <3>3, <3>4, JobChange DEF IInv, Places
  <2>2. CASE p \notin Syncers
    BY <2>2, NoJobGoes DEF GateWrite, Places
  <2> QED
    BY <2>1, <2>2
<1> QED
  BY <1>8, <1>9, SameWorld, Counting DEF IInv, GateWrite

----------------------------------------------------------------------------
LEMMA StepIInv == IInv /\ [Next]_vars => IInv'
<1> SUFFICES ASSUME IInv, [Next]_vars PROVE IInv'
  OBVIOUS
<1>1. CASE UNCHANGED vars
  BY <1>1, SameRows, SameJobs, SameWorld, Counting DEF IInv, vars, history, LoopsOK
<1>2. CASE Seller
  BY <1>2, AddIInv, ImportIInv, ConfirmIInv, RejectIInv, EditTextIInv, DismissIInv, EditStatusIInv, AcceptIInv
     DEF Seller
<1>3. CASE Agent
  BY <1>3, CreateIInv, ClaimStatusIInv, ParkIInv, RerunLookIInv, RerunDropIInv DEF Agent
<1>4. CASE Jarvis
  BY <1>4, HappensIInv DEF Jarvis
<1>5. CASE \E p \in Procs : GateWrite(p)
  BY <1>5, GateWriteIInv
<1>6. CASE \E p \in Syncers : SyncStep(p) \/ SyncFails(p)
  BY <1>6, StartSyncIInv, LandIInv, LinkIInv, CloseRowsIInv, CloseStatesIInv, CloseOneIInv,
     BackRowsIInv, BackStatesIInv, BackOneIInv, ReadBackIInv, EndSyncIInv, SyncFailsIInv DEF SyncStep
<1> QED
  BY <1>1, <1>2, <1>3, <1>4, <1>5, <1>6 DEF Next

(* Every row, job and count is what it is declared to be, and a loop has a *)
(* kind of link exactly when it has a linked commitment.                   *)
THEOREM TypeCorrect == Spec => []TypeOK
<1>1. IInv => TypeOK
  BY DEF IInv, LoopsOK, JobsOK, WorldOK, CountsOK, Sound, TypeOK
<1> QED
  BY <1>1, InitIInv, StepIInv, PTL DEF Spec

(* gate.propose: "the seller's own input always wins": as long as no look  *)
(* in the gate goes stale, a loop stands as the seller last said it does.  *)
THEOREM SellersWordStands == Spec => []SellersWord
<1>1. IInv => SellersWord
  BY DEF IInv, LoopsOK, Heeds, SellersWord
<1> QED
  BY <1>1, InitIInv, StepIInv, PTL DEF Spec

(* jarvis_bridge: "only a mirror is ever dropped in Jarvis", though sync   *)
(* goes by rows it read earlier.                                           *)
THEOREM NothingOfHisDropped == Spec => []OnlyMirrorsDropped
<1>1. IInv => OnlyMirrorsDropped
  BY DEF IInv, WorldOK
<1> QED
  BY <1>1, InitIInv, StepIInv, PTL DEF Spec

(* Neither the seller's word on his loops nor a commitment of his own is   *)
(* taken from him by a machine (gate.propose, jarvis_bridge).              *)
THEOREM HisWordIsHeeded == Spec => []HisWordStands
  BY SellersWordStands, NothingOfHisDropped, PTL DEF HisWordStands

----------------------------------------------------------------------------
(* "Done" with the seller's rank is what he said last.                     *)
Backs(row, word) == row.rank = User /\ row.status = "done" => word = "done"
Backed == "gate" \notin taint => \A l \in Loops : Backs(loop[l], said[l])

LEMMA BackedRow ==
  ASSUME LoopsOK, Backed, NEW l \in Loops, NEW row, NEW word,
         loop' = [loop EXCEPT ![l] = row], said' = [said EXCEPT ![l] = word],
         taint \subseteq taint', "gate" \notin taint' => Backs(row, word)
  PROVE  Backed'
<1> SUFFICES ASSUME "gate" \notin taint', NEW k \in Loops PROVE Backs(loop'[k], said'[k])
  BY DEF Backed
<1>1. CASE k = l
  BY <1>1 DEF LoopsOK
<1>2. CASE k # l
  BY <1>2 DEF LoopsOK, Backed
<1> QED
  BY <1>1, <1>2

LEMMA GatedRank ==
  ASSUME NEW r \in LoopRow, NEW j PROVE Gated(r, j).rank \in {r.rank, j.rank}
  BY DEF Gated, LoopRow

LEMMA GateWriteBacked == ASSUME IInv, Backed, NEW p \in Procs, GateWrite(p) PROVE Backed'
<1> DEFINE j == job[p]
           l == j.loop
           g == Gated(loop[l], j)
           row == Settled(g, j)
           word == IF j.rank = User THEN j.value ELSE said[l]
<1>1. j \in Job /\ Fit("gate", j) /\ l \in Loops /\ j.rank \in 0..User
  BY JobFacts DEF GateWrite, Fit, Job
<1>2. loop[l] \in LoopRow /\ Sound(loop[l])
  BY <1>1, RowFacts
<1>3. /\ g \in LoopRow /\ Sound(g)
      /\ loop[l].status = j.seen.status /\ loop[l].rank = j.seen.rank =>
             /\ j.rank = User => g.status = j.value /\ g.rank = User
             /\ j.rank < User /\ loop[l].rank = User => g.status = loop[l].status /\ g.rank = User
  BY <1>1, <1>2, GatedFacts
<1>4. g.rank \in {loop[l].rank, j.rank}
  BY <1>2, GatedRank
<1> HIDE DEF g
<1>5. row.status = g.status /\ row.rank = g.rank
  BY <1>1, <1>3, SettledFacts
<1>6. loop' = [loop EXCEPT ![l] = row] /\ said' = [said EXCEPT ![l] = word] /\ taint \subseteq taint'
  BY <1>1, <1>2 DEF GateWrite, IInv, LoopsOK, g
<1>7. ASSUME "gate" \notin taint' PROVE Backs(row, word)
  <2>1. Backs(loop[l], said[l]) /\ loop[l].status = j.seen.status /\ loop[l].rank = j.seen.rank
    BY <1>1, <1>6, <1>7 DEF GateWrite, Backed
  <2>2. CASE j.rank = User
    BY <1>3, <1>5, <2>1, <2>2 DEF Backs
  <2>3. CASE j.rank # User
    BY <1>1, <1>3, <1>4, <1>5, <2>1, <2>3 DEF Backs, User
  <2> QED
    BY <2>2, <2>3
<1> HIDE DEF row, word
<1> QED
  BY <1>1, <1>6, <1>7, BackedRow DEF IInv

LEMMA SellerBacked == ASSUME IInv, Backed, Seller PROVE Backed'
<1>1. ASSUME NEW l \in Loops, Add(l) PROVE Backed'
  <2>1. Backs(ByHand, ByHand.status)
    BY DEF Backs
  <2> QED
    BY <1>1, <2>1, BackedRow DEF Add, Says, Edits, IInv
<1>2. ASSUME NEW l \in Loops, NEW w \in Own, Import(l, w) PROVE Backed'
  <2> DEFINE row == [ByHand EXCEPT !.link = "imported", !.wc = w]
  <2>1. Backs(row, row.status)
    BY DEF Backs
  <2> HIDE DEF row
  <2> QED
    BY <1>2, <2>1, BackedRow DEF Import, Says, Edits, IInv, row
<1>3. ASSUME NEW l \in Loops, Confirm(l) PROVE Backed'
  <2> DEFINE row == [loop[l] EXCEPT !.review = "confirmed", !.rank = User]
  <2>1. Backs(row, row.status)
    BY DEF Backs
  <2> HIDE DEF row
  <2> QED
    BY <1>3, <2>1, BackedRow DEF Confirm, Says, Edits, IInv, row
<1>4. ASSUME NEW l \in Loops, Reject(l) PROVE Backed'
  <2> DEFINE row == [Released(loop[l]) EXCEPT !.status = "cancelled", !.review = "rejected"]
  <2>1. Released(loop[l]) \in LoopRow
    BY RowFacts, ReleasedIsSound
  <2>2. Backs(row, "none")
    BY <2>1 DEF Backs, LoopRow
  <2> HIDE DEF row
  <2> QED
    BY <1>4, <2>2, BackedRow DEF Reject, Edits, IInv, row
<1>5. ASSUME NEW l \in Loops, EditText(l) PROVE Backed'
  <2> DEFINE row == [loop[l] EXCEPT !.review = "confirmed"]
  <2>1. row.rank = loop[l].rank /\ row.status = loop[l].status
    BY RowFacts DEF LoopRow
  <2>2. "gate" \notin taint => Backs(row, said[l])
    BY <2>1 DEF Backs, Backed
  <2> HIDE DEF row
  <2> QED
    BY <1>5, <2>2, RowFacts, BackedRow DEF EditText, Edits, IInv, row
<1>6. ASSUME NEW l \in Loops, NEW value \in Active \cup Over, Dismiss(l, value) PROVE Backed'
  <2> DEFINE row == [loop[l] EXCEPT !.offers = @ \ {value}]
  <2>1. row.rank = loop[l].rank /\ row.status = loop[l].status
    BY RowFacts DEF LoopRow
  <2>2. "gate" \notin taint => Backs(row, said[l])
    BY <2>1 DEF Backs, Backed
  <2> HIDE DEF row
  <2> QED
    BY <1>6, <2>2, RowFacts, BackedRow DEF Dismiss, Edits, IInv, row
<1>7. CASE UNCHANGED <<loop, said, taint>>
  BY <1>7 DEF Backed
<1> QED
  BY <1>1, <1>2, <1>3, <1>4, <1>5, <1>6, <1>7 DEF Seller, EditStatus, Accept, history

LEMMA AgentBacked == ASSUME IInv, Backed, Agent PROVE Backed'
<1>1. ASSUME NEW l \in Loops, NEW rank \in Strengths, NEW w \in Own \cup {NoOne}, Create(l, rank, w)
      PROVE  Backed'
  <2> DEFINE row == [NoLoop EXCEPT !.status = "open", !.rank = rank, !.wc = w,
                                   !.link = IF w = NoOne THEN "none" ELSE "adopted"]
  <2>1. Backs(row, said[l])
    BY DEF Backs, NoLoop
  <2> HIDE DEF row
  <2> QED
    BY <1>1, <2>1, RowFacts, BackedRow DEF Create, IInv, history, row
<1>2. ASSUME NEW l \in Loops, NEW value \in Over \cup {"waiting"}, Park(l, value) PROVE Backed'
  <2> DEFINE row == [loop[l] EXCEPT !.offers = @ \cup {value}]
  <2>1. row.rank = loop[l].rank /\ row.status = loop[l].status
    BY RowFacts DEF LoopRow
  <2>2. "gate" \notin taint => Backs(row, said[l])
    BY <2>1 DEF Backs, Backed
  <2>3. loop' = [loop EXCEPT ![l] = row]
    BY <1>2 DEF Park, IInv, LoopsOK
  <2> HIDE DEF row
  <2> QED
    BY <1>2, <2>2, <2>3, RowFacts, BackedRow DEF Park, IInv, history
<1>3. ASSUME NEW p \in Agents, RerunDrop(p) PROVE Backed'
  <2> DEFINE l == job[p].loop
             row == [Released(loop[l]) EXCEPT !.status = "cancelled", !.review = "rejected"]
  <2>1. p \in Procs /\ at[p] = "drop"
    BY <1>3 DEF Procs, RerunDrop
  <2>2. l \in Loops
    BY <2>1, JobFacts DEF Fit
  <2>3. Released(loop[l]) \in LoopRow
    BY <2>2, RowFacts, ReleasedIsSound
  <2>4. Backs(row, said[l])
    BY <2>3 DEF Backs, LoopRow
  <2>5. loop' = [loop EXCEPT ![l] = row] /\ taint \subseteq taint' /\ said' = said
    BY <1>3 DEF RerunDrop
  <2> HIDE DEF row, l
  <2> QED
    BY <2>2, <2>4, <2>5, RowFacts, BackedRow DEF IInv
<1>4. CASE UNCHANGED <<loop, said, taint>>
  BY <1>4 DEF Backed
<1> QED
  BY <1>1, <1>2, <1>3, <1>4 DEF Agent, ClaimStatus, RerunLook, history

LEMMA SyncBacked ==
  ASSUME IInv, Backed, NEW p \in Syncers, SyncStep(p) \/ SyncFails(p) PROVE Backed'
<1>1. CASE Link(p)
  <2> DEFINE l == job[p].loop
             row == [loop[l] EXCEPT !.wc = l, !.link = "mirror"]
  <2>1. p \in Procs /\ at[p] = "landed"
    BY <1>1 DEF Procs, Link
  <2>2. l \in Loops
    BY <2>1, JobFacts DEF Fit
  <2>3. row.rank = loop[l].rank /\ row.status = loop[l].status
    BY <2>2, RowFacts DEF LoopRow
  <2>4. "gate" \notin taint => Backs(row, said[l])
    BY <2>2, <2>3 DEF Backs, Backed
  <2>5. loop' = [loop EXCEPT ![l] = row] /\ UNCHANGED <<said, taint>>
    BY <1>1, <2>2 DEF Link, IInv, LoopsOK, history
  <2> HIDE DEF row, l
  <2> QED
    BY <2>2, <2>4, <2>5, RowFacts, BackedRow DEF IInv
<1>2. ASSUME NEW l \in Loops, CloseOne(p, l) PROVE Backed'
  <2> DEFINE row == [loop[l] EXCEPT !.link = "none", !.wc = NoOne]
  <2>1. taint \subseteq taint' /\ said' = said
    BY <1>2 DEF CloseOne, Turn
  <2>2. CASE loop' = loop
    BY <2>1, <2>2 DEF Backed
  <2>3. CASE loop' = [loop EXCEPT ![l].link = "none", ![l].wc = NoOne]
    <3>1. loop' = [loop EXCEPT ![l] = row]
      BY <2>3 DEF IInv, LoopsOK
    <3>2. row.rank = loop[l].rank /\ row.status = loop[l].status
      BY RowFacts DEF LoopRow
    <3>3. "gate" \notin taint => Backs(row, said[l])
      BY <3>2 DEF Backs, Backed
    <3> HIDE DEF row
    <3> QED
      BY <2>1, <3>1, <3>3, RowFacts, BackedRow DEF IInv
  <2> QED
    BY <1>2, <2>2, <2>3 DEF CloseOne
<1>3. CASE UNCHANGED <<loop, said>> /\ taint \subseteq taint'
  BY <1>3 DEF Backed
<1> QED
  BY <1>1, <1>2, <1>3 DEF SyncStep, SyncFails, StartSync, Land, CloseRows, CloseStates, BackRows,
     BackStates, BackOne, ReadBack, EndSync, Turn, history

LEMMA StepBacked == IInv /\ Backed /\ [Next]_vars => Backed'
<1> SUFFICES ASSUME IInv, Backed, [Next]_vars PROVE Backed'
  OBVIOUS
<1>1. CASE UNCHANGED <<loop, said, taint>>
  BY <1>1 DEF Backed
<1> QED
  BY <1>1, SellerBacked, AgentBacked, SyncBacked, GateWriteBacked
     DEF Next, Jarvis, Happens, vars, history

(* What the bridge does to a commitment of his own: it closes it, for a    *)
(* loop that he himself said is done, unless what it read has gone stale.  *)
LEMMA ClosesOnHisWord ==
  ASSUME IInv, Backed, NEW p \in Syncers, NEW l \in Loops, CloseOne(p, l), taint' = {},
         NEW w \in Own, world[w].status = "full", world'[w] # world[w]
  PROVE  loop[l].wc = w /\ loop[l].status = "done" /\ said[l] = "done"
<1> DEFINE row == job[p].rows[l]
<1>1. p \in Procs /\ row \in LoopRow /\ (row.link = "mirror" => row.wc \notin Own)
  BY JobFacts DEF Procs, Job, Fit
<1>2. \/ world' = world
      \/ MayDrop(row) /\ world' = [world EXCEPT ![row.wc] = world'[row.wc]]
      \/ /\ ~MayDrop(row) /\ row.status = "done" /\ ByHim(l)
         /\ world' = [world EXCEPT ![row.wc] = [status |-> "closed", note |-> "ours"]]
  BY DEF CloseOne, InJarvis, IInv, WorldOK, World
<1>3. row.wc = w
  BY <1>1, <1>2 DEF IInv, WorldOK, World, Commitments
<1>4. row.status = "done" /\ ByHim(l)
  BY <1>1, <1>2, <1>3 DEF MayDrop
<1>5. loop[l] = row /\ "gate" \notin taint
  BY DEF CloseOne, Turn
<1> QED
  BY <1>3, <1>4, <1>5 DEF ByHim, Backed, Backs

(* "An adopted or imported commitment is closed only when the seller       *)
(* confirmed the loop done" (jarvis_bridge.close_mirrors), as long as what *)
(* the sync and the gate had read was still so.                            *)
THEOREM OwnIsClosedOnHisWord == Spec => OwnClosedOnHisWord
<1> DEFINE Step == \A w \in Own :
          world[w].status = "full" /\ world'[w].status # "full" /\ world'[w].note = "ours" /\ taint' = {} =>
              \E l \in Loops : loop[l].wc = w /\ loop[l].status = "done" /\ said[l] = "done"
<1>1. Init => Backed
  BY DEF Init, Backed, Backs, NoLoop
<1>2. IInv /\ Backed /\ [Next]_vars => [Step]_vars
  <2> SUFFICES ASSUME IInv, Backed, Next, NEW w \in Own, world[w].status = "full",
                      world'[w].status # "full", world'[w].note = "ours", taint' = {}
               PROVE  \E l \in Loops : loop[l].wc = w /\ loop[l].status = "done" /\ said[l] = "done"
    OBVIOUS
  <2>1. ASSUME NEW p \in Syncers, NEW l \in Loops, CloseOne(p, l)
        PROVE  loop[l].wc = w /\ loop[l].status = "done" /\ said[l] = "done"
    BY <2>1, ClosesOnHisWord
  <2>2. ASSUME NEW p \in Syncers, NEW l \in Loops, Land(p, l) PROVE world'[w] = world[w]
    BY <2>2, CommitmentsConstants DEF Land, IInv, WorldOK, World, Commitments
  <2>3. ASSUME NEW p \in Syncers, NEW l \in Loops, BackOne(p, l) PROVE world'[w].status = "full"
    BY <2>3 DEF BackOne, IInv, WorldOK, World, Commitments
  <2>4. ASSUME Jarvis PROVE world'[w] = world[w] \/ world'[w].note # "ours"
    BY <2>4 DEF Jarvis, Happens, IInv, WorldOK, World, Commitments
  <2> QED
    BY <2>1, <2>2, <2>3, <2>4 DEF Next, Seller, Agent, SyncStep, SyncFails, GateWrite, Add, Import, Confirm,
       Reject, EditText, EditStatus, Accept, Dismiss, Says, Edits, Create, ClaimStatus, Park, RerunLook,
       RerunDrop, StartSync, Link, CloseRows, CloseStates, BackRows, BackStates, ReadBack, EndSync
<1>3. Spec => [](IInv /\ Backed)
  BY <1>1, InitIInv, StepIInv, StepBacked, PTL DEF Spec
<1> QED
  BY <1>2, <1>3, PTL DEF Spec, OwnClosedOnHisWord
=============================================================================
