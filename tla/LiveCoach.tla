------------------------------- MODULE LiveCoach -------------------------------
(***************************************************************************)
(* The live coach of one call (salescoach/coach/engine.py, ranker.py,      *)
(* slow_pass.py, state.py; live/hub.py; plugins/live_coach.py): lines of   *)
(* the transcript reach the engine's inbox through the hub, rules and a    *)
(* slow model pass raise candidates, the ranker lets few of them onto the  *)
(* screen, and every candidate ends in the nudges table.                   *)
(*                                                                         *)
(* The engine thread handles one message a step; the transcriber, the slow *)
(* pass, clicks and the supervisor run beside it.  Scores are a choice:    *)
(* which candidates are too weak now, which repeat themselves too soon.    *)
(***************************************************************************)
EXTENDS Integers, Sequences, FiniteSets

CONSTANTS
    Triggers, Objection,
    Asking,             \* triggers of kind state: about a slot, moot once it is filled
    Display, Cooldown, ObjectionGap, Warmup, MaxPerCall,    \* config budget
    StaleAfter,         \* moment_stale_s, state_stale_s, by trigger
    RepeatWindow, MaxAge,       \* repeat_window_s, slow.max_age_s
    InboxSize,          \* 5000 in the code
    MaxTime, MaxLines, MaxCandidates, MaxPasses, MaxFaults, MaxClicks   \* bounds

ASSUME CoachConstants ==
    /\ {Display, Cooldown, ObjectionGap, Warmup, MaxPerCall, RepeatWindow, MaxAge,
        InboxSize, MaxTime, MaxLines, MaxCandidates, MaxPasses, MaxFaults, MaxClicks} \subseteq Nat
    /\ Objection \in Triggers /\ Asking \subseteq Triggers \ {Objection}
    /\ StaleAfter \in [Triggers -> Nat] /\ InboxSize > 0

VARIABLES
    now,        \* call time
    call,       \* "none", "live", "stopping" (transcript drained), "over" (hub told)
    saved, sent,    \* lines the transcriber has stored; has published
    engine,     \* "none", "subscribed", "running", "final"
    attached,   \* the supervisor holds an engine
    inbox,      \* the engine's queue
    heard,      \* the lines this session has taken
    slot,       \* what is known of each asking trigger's slot
    ranker,     \* the candidates: see Empty
    screen,     \* the nudges this session has published
    stored,     \* the nudges row of each candidate
    down,       \* the rows with dismissed = 1
    slow,       \* the slow pass that runs
    left,       \* what is left of the bounds
    lost,       \* history: candidates whose row could not be written
    taint       \* history: "overflow", "flapped"

session == <<engine, attached>>
talk == <<call, saved, sent>>
table == <<stored, lost>>
vars == <<now, talk, session, inbox, heard, slot, ranker, screen, table, down,
          slow, left, taint>>

Ids == 1..MaxCandidates
Blank == [a \in Asking |-> [asks |-> 0, rank |-> 0]]
Empty == [pool |-> {},      \* waiting, one a trigger
          shown |-> <<>>,   \* what the ranker believes it has shown
          up |-> {}]        \* the ids it believes are on the screen
NoPass == [at |-> "idle", n |-> 0, t |-> 0, slot |-> Blank]

Init ==
    /\ now = 0 /\ call = "none" /\ saved = 0 /\ sent = 0
    /\ engine = "none" /\ attached = FALSE /\ inbox = <<>> /\ heard = {}
    /\ slot = Blank /\ ranker = Empty /\ screen = <<>> /\ slow = NoPass
    /\ stored = <<>> /\ down = {} /\ lost = {} /\ taint = {}
    /\ left = [faults |-> MaxFaults, clicks |-> MaxClicks]

Spend(what) == left[what] > 0 /\ left' = [left EXCEPT ![what] = @ - 1]

----------------------------------------------------------------------------
(* The queues of the hub, and _inbox, drop what is oldest when full.       *)

Excess(q) == IF Len(q) > InboxSize THEN Len(q) - InboxSize ELSE 0
Newest(q) == SubSeq(q, Excess(q) + 1, Len(q))

Line(i) == [type |-> "segment", n |-> i]
Ended == [type |-> "ended", n |-> 0]
Deliver(ms) ==
    IF engine \in {"subscribed", "running"}
    THEN /\ inbox' = Newest(inbox \o ms)
         /\ taint' = IF Excess(inbox \o ms) > 0 THEN taint \cup {"overflow"} ELSE taint
    ELSE UNCHANGED <<inbox, taint>>

(* _on_segment of the capture session: the turn is stored, then published. *)
SaveLine ==
    /\ call = "live" /\ saved = sent /\ saved < MaxLines
    /\ saved' = saved + 1
    /\ UNCHANGED <<now, call, sent, session, inbox, heard, slot, ranker, screen, table,
                   down, slow, left, taint>>

PublishLine ==
    /\ saved > sent
    /\ sent' = saved
    /\ Deliver(<<Line(saved)>>)
    /\ UNCHANGED <<now, call, saved, session, heard, slot, ranker, screen, table, down,
                   slow, left>>

CallMoves ==
    /\ \/ call = "none" /\ call' = "live" /\ UNCHANGED <<inbox, taint>>
       \/ call = "live" /\ saved = sent /\ call' = "stopping" /\ UNCHANGED <<inbox, taint>>
       \/ call = "stopping" /\ call' = "over" /\ Deliver(<<Ended>>)
    /\ UNCHANGED <<now, saved, sent, session, heard, slot, ranker, screen, table, down,
                   slow, left>>

Pass ==
    /\ call = "live" /\ engine = "running" /\ heard # {} /\ now < MaxTime
    /\ now' = now + 1
    /\ UNCHANGED <<talk, session, inbox, heard, slot, ranker, screen, table, down, slow,
                   left, taint>>

----------------------------------------------------------------------------
(* The supervisor's step.  attach subscribes, then puts the turns that are *)
(* already stored into the inbox; a line may so come twice.                *)

Subscribe ==
    /\ call = "live" /\ ~attached /\ engine \in {"none", "final"}
    /\ engine' = "subscribed" /\ inbox' = <<>> /\ heard' = {} /\ slot' = Blank
    /\ ranker' = Empty /\ screen' = <<>> /\ slow' = NoPass
    /\ UNCHANGED <<now, talk, attached, table, down, left, taint>>

BackfillSlip == <<>>
Backfill == [i \in 1..saved |-> Line(i)]

Attach ==
    /\ engine = "subscribed"
    /\ Deliver(Backfill)
    /\ engine' = "running" /\ attached' = TRUE
    /\ UNCHANGED <<now, talk, heard, slot, ranker, screen, table, down, slow, left>>

(* status() says no call is live, or it raises while one is.               *)
Finish(flaps) ==
    /\ attached
    /\ IF flaps THEN call = "live" /\ Spend("faults")
                ELSE call \in {"stopping", "over"} /\ UNCHANGED left
    /\ attached' = FALSE
    /\ IF engine = "running"
       THEN /\ inbox' = Newest(Append(inbox, Ended))
            /\ taint' = taint \cup (IF flaps THEN {"flapped"} ELSE {})
                              \cup (IF Excess(Append(inbox, Ended)) > 0 THEN {"overflow"} ELSE {})
       ELSE UNCHANGED <<inbox, taint>>
    /\ UNCHANGED <<now, talk, engine, heard, slot, ranker, screen, table, down, slow>>

----------------------------------------------------------------------------
(* Candidates.  from is what was known when its evidence was taken, seen   *)
(* what the ranker will compare with.                                      *)

Known(t, s) == IF t \in Asking THEN s[t] ELSE [asks |-> 0, rank |-> 0]
Candidate(t, at, from, seen, source) ==
    [id |-> Len(stored) + 1, trigger |-> t, at |-> at, source |-> source,
     from |-> Known(t, from), seen |-> Known(t, seen)]

Resolved(c, s) == /\ c.trigger \in Asking
                  /\ s[c.trigger].asks > c.seen.asks \/ s[c.trigger].rank > c.seen.rank
Stale(c) == now - c.at > StaleAfter[c.trigger]

Gap(t) == IF t = Objection THEN ObjectionGap ELSE Cooldown
CoolingSlip(c, k) == FALSE
Cooling(c, k) == k.shown # <<>> /\ now - k.shown[Len(k.shown)].at < Gap(c.trigger)
Blocked(c, k, up) ==
    \/ now < Warmup /\ c.trigger # Objection
    \/ up # {}
    \/ Cooling(c, k)

Repeats(c, k) == \E i \in DOMAIN k.shown : /\ k.shown[i].trigger = c.trigger
                                           /\ now - k.shown[i].at < RepeatWindow

StillUp(k) == {i \in k.up : \E j \in DOMAIN k.shown :
                  k.shown[j].id = i /\ now < k.shown[j].at + Display}

IdsOf(cs) == {c.id : c \in cs}
Write(cs, as, rows) == [i \in DOMAIN rows |-> IF i \in IdsOf(cs) THEN as ELSE rows[i]]

(* ranker.offer: a candidate in a trigger's place sends the weaker away.   *)
Offer(k, c, stronger) ==
    LET cur == {d \in k.pool : d.trigger = c.trigger}
    IN  IF cur = {} \/ stronger
        THEN [pool |-> [k EXCEPT !.pool = (@ \ cur) \cup {c}], retired |-> cur]
        ELSE [pool |-> k, retired |-> {c}]

(* select: low are below min_score, again repeat a trigger without being   *)
(* clearly stronger.                                                       *)
Judged(k, low, again) ==
    LET up      == StillUp(k)
        done    == {c \in k.pool : \/ Len(k.shown) >= MaxPerCall
                                   \/ Resolved(c, slot') \/ Stale(c)}
        waiting == {c \in k.pool \ done : Blocked(c, k, up) \/ c \in again}
        retired == done \cup ((k.pool \ waiting) \cap low)
    IN  [retired |-> retired, good |-> k.pool \ (waiting \cup retired),
         rest |-> [k EXCEPT !.pool = @ \ retired, !.up = up]]

Shown(w) == [id |-> w.id, trigger |-> w.trigger, at |-> now, source |-> w.source,
             asked |-> Known(w.trigger, slot').asks > w.from.asks,
             learned |-> Known(w.trigger, slot').rank > w.from.rank]
Spent(k, w) == [pool |-> k.pool \ {w}, shown |-> Append(k.shown, Shown(w)), up |-> k.up \cup {w.id}]

UnshownSlip(k, w) == [k EXCEPT !.pool = @ \ {w}]
Unshown(k, w) == k

(* _rank: select, retire, show.  When the retired cannot be written the    *)
(* step ends there, with a winner nobody has seen; when the winner cannot  *)
(* be written it goes back into the pool (unshow).                         *)
Rank(k, rows, works) ==
    \E again \in SUBSET {c \in k.pool : Repeats(c, k)}, low \in SUBSET k.pool :
        LET j    == Judged(k, low, again)
            kept == Write(j.retired, "declined", rows)
        IN  \/ /\ j.good = {} /\ (works \/ j.retired = {})
               /\ ranker' = j.rest /\ stored' = kept
               /\ UNCHANGED <<lost, screen>>
            \/ /\ ~works /\ j.retired # {}
               /\ ranker' \in IF j.good = {} THEN {j.rest} ELSE {Spent(j.rest, w) : w \in j.good}
               /\ lost' = lost \cup IdsOf(j.retired) \cup (IdsOf(j.rest.pool) \ IdsOf(ranker'.pool))
               /\ stored' = rows /\ UNCHANGED screen
            \/ /\ ~works /\ j.retired = {}
               /\ \E w \in j.good : ranker' = Unshown(j.rest, w)
               /\ stored' = rows /\ UNCHANGED <<lost, screen>>
            \/ /\ works
               /\ \E w \in j.good : /\ ranker' = Spent(j.rest, w)
                                    /\ screen' = Append(screen, Shown(w))
                                    /\ stored' = Write({w}, "shown", kept)
               /\ UNCHANGED lost

Settle(works) == IF works THEN UNCHANGED left ELSE Spend("faults")

(* Offers c, if there is one, and ranks.                                   *)
Consider(cs, works) ==
    IF cs = {} THEN Rank(ranker, stored, works)
    ELSE \E c \in cs, stronger \in BOOLEAN :
             LET o    == Offer(ranker, c, stronger)
                 rows == Append(stored, "no")
             IN  IF o.retired # {} /\ ~works
                 THEN /\ ranker' = o.pool /\ stored' = rows /\ UNCHANGED screen
                      /\ lost' = lost \cup IdsOf(o.retired)
                 ELSE Rank(o.pool, Write(o.retired, "declined", rows), works)

----------------------------------------------------------------------------
(* The engine thread: a message of the inbox, or a tick.                   *)

Takes(type) == engine = "running" /\ inbox # <<>> /\ Head(inbox).type = type
Quiet == UNCHANGED <<now, talk, attached, taint>>

(* What a line may add to the slots: ME asks, or something is learned.     *)
Filled(s) == {s} \cup {[s EXCEPT ![a].asks = @ + 1] : a \in Asking}
                 \cup {[s EXCEPT ![a].rank = 1] : a \in Asking}
Raises(from, source) ==
    {{}} \cup IF Len(stored) = MaxCandidates THEN {}
              ELSE {{Candidate(t, now, from, from, source)} : t \in Triggers}

MaybeSlow ==
    \/ UNCHANGED slow
    \/ /\ slow.at = "idle" /\ slow.n < MaxPasses
       /\ slow' = [at |-> "running", n |-> slow.n + 1, t |-> now, slot |-> slot']

TakeLine(works) ==
    /\ Takes("segment")
    /\ inbox' = Tail(inbox)
    /\ IF Head(inbox).n \in heard
       THEN works /\ UNCHANGED <<heard, slot, ranker, screen, table, slow>>
       ELSE /\ heard' = heard \cup {Head(inbox).n}
            /\ slot' \in Filled(slot)
            /\ \E cs \in Raises(slot', "fast") : Consider(cs, works)
            /\ MaybeSlow
    /\ Settle(works) /\ Quiet /\ UNCHANGED <<engine, down>>

Tick(works) ==
    /\ engine = "running" /\ ranker.pool # {}
    /\ UNCHANGED <<slot, slow>>
    /\ Consider({}, works)
    /\ Settle(works) /\ Quiet /\ UNCHANGED <<engine, inbox, heard, down>>

(* The slow pass answers from what it was given, and is judged when it     *)
(* lands: too old, or about what ME has asked meanwhile.                   *)
SlowAnswers ==
    /\ slow.at = "running"
    /\ slow' = [slow EXCEPT !.at = "posted"]
    /\ \E t \in Triggers : Deliver(<<[type |-> "slow", n |-> t]>>)
    /\ UNCHANGED <<now, talk, session, heard, slot, ranker, screen, table, down, left>>

AskedMeanwhileSlip(c) == FALSE
AskedMeanwhile(c) == c.from.asks < c.seen.asks

TakeSlow(works) ==
    /\ Takes("slow")
    /\ inbox' = Tail(inbox)
    /\ slow' = [slow EXCEPT !.at = "idle"]
    /\ UNCHANGED slot
    /\ \E keeps \in IF Len(stored) < MaxCandidates THEN BOOLEAN ELSE {FALSE} :
           LET c == Candidate(Head(inbox).n, slow.t, slow.slot, slot, "slow") IN
           IF ~keeps THEN Consider({}, works)
           ELSE IF now - slow.t > MaxAge \/ AskedMeanwhile(c)
           THEN IF works THEN Rank(ranker, Append(stored, "declined"), works)
                ELSE /\ stored' = Append(stored, "no") /\ lost' = lost \cup {c.id}
                     /\ UNCHANGED <<ranker, screen>>
           ELSE Consider({c}, works)
    /\ Settle(works) /\ Quiet /\ UNCHANGED <<engine, heard, down>>

(* The row is marked by the request; the engine hears of it by its inbox.  *)
ClickDismiss(id) ==
    /\ Spend("clicks")
    /\ \E i \in DOMAIN screen : screen[i].id = id
    /\ down' = down \cup {id}
    /\ Deliver(<<[type |-> "dismiss", n |-> id]>>)
    /\ UNCHANGED <<now, talk, session, heard, slot, ranker, screen, table, slow>>

TakeDismiss ==
    /\ Takes("dismiss")
    /\ inbox' = Tail(inbox)
    /\ ranker' = [ranker EXCEPT !.up = @ \ {Head(inbox).n}]
    /\ Quiet /\ UNCHANGED <<engine, heard, slot, screen, table, down, slow, left>>

(* finalize: the pool is retired before the outcomes are written; when a   *)
(* write fails the engine goes on, and waits for another "ended".          *)
TakeEnded(works) ==
    /\ Takes("ended")
    /\ ranker' = [ranker EXCEPT !.pool = {}]
    /\ IF works
       THEN /\ stored' = Write(ranker.pool, "declined", stored)
            /\ engine' = "final" /\ inbox' = <<>>
            /\ UNCHANGED lost
       ELSE /\ lost' = lost \cup IdsOf(ranker.pool)
            /\ inbox' = Tail(inbox)
            /\ UNCHANGED <<engine, stored>>
    /\ Settle(works) /\ Quiet /\ UNCHANGED <<heard, slot, screen, down, slow>>

----------------------------------------------------------------------------
Thread(works) == TakeLine(works) \/ TakeSlow(works) \/ TakeEnded(works) \/ Tick(works)
Takings == TakeDismiss \/ \E works \in BOOLEAN : Thread(works)
Supervisor == Subscribe \/ Attach \/ \E flaps \in BOOLEAN : Finish(flaps)

Next == \/ SaveLine \/ PublishLine \/ CallMoves \/ Pass
        \/ Supervisor \/ Takings \/ SlowAnswers
        \/ \E id \in Ids : ClickDismiss(id)

Spec == Init /\ [][Next]_vars

----------------------------------------------------------------------------
TypeOK ==
    /\ now \in 0..MaxTime /\ sent \in 0..saved /\ saved \in 0..MaxLines
    /\ engine \in {"none", "subscribed", "running", "final"} /\ attached \in BOOLEAN
    /\ Len(inbox) <= InboxSize /\ heard \subseteq 1..saved
    /\ stored \in Seq({"no", "declined", "shown"}) /\ Len(stored) <= MaxCandidates
    /\ lost \subseteq 1..Len(stored)

(* What the seller sees keeps the budget the configuration states, though  *)
(* the ranker keeps it over a list of its own, writes can fail under it    *)
(* and a dismissal reaches it late.                                        *)
Budget == INSTANCE NudgeBudget WITH
    screen <- [i \in DOMAIN screen |-> [trigger |-> screen[i].trigger, at |-> screen[i].at]],
    dismissed <- {i \in DOMAIN screen : screen[i].id \in down}

KeepsBudget == Budget!Spec

(* Every candidate is waiting, or has its row, or its write failed; one on *)
(* the screen has a row that says so.                                      *)
EveryCandidateKept ==
    /\ \A i \in DOMAIN stored :
           \/ stored[i] # "no" /\ i \notin IdsOf(ranker.pool)
           \/ stored[i] = "no" /\ (i \in IdsOf(ranker.pool) \/ i \in lost)
    /\ \A i \in DOMAIN screen : stored[screen[i].id] = "shown"

(* A nudge about a slot never goes up after ME has asked about it, even    *)
(* when a slow pass that began before the question raised it; and a rule's *)
(* nudge never after the slot was filled.                                  *)
NeverMoot ==
    \A i \in DOMAIN screen :
        ~screen[i].asked /\ (screen[i].source = "fast" => ~screen[i].learned)

(* The same for every nudge.                                               *)
NeverAnswered == \A i \in DOMAIN screen : ~screen[i].asked /\ ~screen[i].learned

(* However late it attaches, a running engine misses no line that was      *)
(* published, unless its queue overflowed.                                 *)
NoLineMissed ==
    engine = "running" /\ "overflow" \notin taint =>
        \A i \in 1..sent : i \in heard \/ \E j \in DOMAIN inbox : inbox[j] = Line(i)

(* Every line is looked at, and none of them is talked past.               *)
LinesHeeded == NoLineMissed /\ NeverMoot

(* What the ranker has spent was shown: "Not stored means not shown: give   *)
(* the ranker its cooldown and budget slot back".                          *)
SpentWasShown == \A i \in DOMAIN ranker.shown : stored[ranker.shown[i].id] = "shown"
=============================================================================
