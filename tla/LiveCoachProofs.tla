---------------------------- MODULE LiveCoachProofs ----------------------------
(* LiveCoach implements NudgeBudget, keeps every candidate and heeds every  *)
(* line, for every budget, every length of a call and every number of       *)
(* lines, candidates, passes, faults and clicks; the live words of          *)
(* LiveSpeech, which MCLiveCoach hosts, are true for every queue; and the   *)
(* segments of Vad are true for every audio and every size of everything.   *)
EXTENDS MCLiveCoach, SequenceTheorems, FiniteSetTheorems, WellFoundedInduction, NaturalsInduction, TLAPS

Fields == {"pool", "shown", "up"}
Sources == {"fast", "slow"}
Card == [id : Nat, trigger : Triggers, at : Nat, source : Sources,
         asked : BOOLEAN, learned : BOOLEAN]
Message(gone) == [type : {"segment", "ended"}, n : Nat] \cup [type : {"slow"}, n : Triggers]
                 \cup [type : {"dismiss"}, n : gone]

Rows(rows) == rows \in Seq({"no", "declined", "shown"})

(* A candidate that waits was never shown, and has its id to itself.       *)
Pooled(pool, rows) ==
    /\ \A c \in pool : /\ c.id \in DOMAIN rows /\ rows[c.id] # "shown"
                       /\ c.trigger \in Triggers /\ c.source \in Sources
    /\ \A c, d \in pool : c.id = d.id => c = d

(* A nudge on the screen has a row that says so, and is there once.        *)
OnScreen(rows) ==
    /\ screen \in Seq(Card)
    /\ \A i \in DOMAIN screen : /\ screen[i].id \in DOMAIN rows /\ rows[screen[i].id] = "shown"
                                /\ screen[i].at <= now
    /\ \A i, j \in DOMAIN screen : screen[i].id = screen[j].id => i = j

(* Only what was shown is ever marked as dismissed.                        *)
Marked(rows) == \A d \in down : d \in DOMAIN rows /\ rows[d] = "shown"

(* What the ranker believes is on the cautious side: it has spent all that *)
(* is on the screen, no earlier, and what is still up it holds to be up    *)
(* unless the row was dismissed.                                           *)
Cautious(k) ==
    /\ DOMAIN k = Fields
    /\ k.shown \in Seq(Card)
    /\ \A j \in DOMAIN k.shown : k.shown[j].at <= now
    /\ Len(screen) <= Len(k.shown)
    /\ screen # <<>> => screen[Len(screen)].at <= k.shown[Len(k.shown)].at
    /\ \A i \in DOMAIN screen : \E j \in DOMAIN k.shown :
           k.shown[j].id = screen[i].id /\ k.shown[j].at = screen[i].at
    /\ \A i \in DOMAIN screen : \/ screen[i].id \in k.up \cup down
                                \/ screen[i].at + Display <= now

Fine(k, rows) ==
    Rows(rows) /\ Pooled(k.pool, rows) /\ OnScreen(rows) /\ Marked(rows) /\ Cautious(k)

IInv == now \in Nat /\ saved \in Nat /\ inbox \in Seq(Message(down)) /\ Fine(ranker, stored)

(* The screen as the budget sees it.                                       *)
Seen == [i \in DOMAIN screen |-> [trigger |-> screen[i].trigger, at |-> screen[i].at]]
Waved == {i \in DOMAIN screen : screen[i].id \in down}

Still == UNCHANGED <<now, screen, down>>
Steps == Still \/ \E t \in Triggers : Budget!Show(t)

----------------------------------------------------------------------------
LEMMA SequencesAre == \A W : Seq(W) = UNION {[1..n -> W] : n \in Nat}
OBVIOUS

LEMMA WriteRows ==
    ASSUME NEW cs, NEW as \in {"no", "declined", "shown"}, NEW rows, Rows(rows)
    PROVE  /\ Rows(Write(cs, as, rows)) /\ DOMAIN Write(cs, as, rows) = DOMAIN rows
           /\ \A i \in DOMAIN rows :
                  Write(cs, as, rows)[i] = IF i \in IdsOf(cs) THEN as ELSE rows[i]
<1>1. DOMAIN rows = 1..Len(rows) /\ Len(rows) \in Nat
  BY DEF Rows
<1>2. \A i \in DOMAIN rows : rows[i] \in {"no", "declined", "shown"}
  BY <1>1, ElementOfSeq DEF Rows
<1> DEFINE W == {"no", "declined", "shown"}
           w == Write(cs, as, rows)
<1>3. w = [i \in 1..Len(rows) |-> IF i \in IdsOf(cs) THEN as ELSE rows[i]]
  BY <1>1 DEF Write
<1>4. w \in [1..Len(rows) -> W]
  BY <1>1, <1>2, <1>3
<1>5. w \in Seq(W)
  BY <1>1, <1>4, SequencesAre
<1> QED
  BY <1>1, <1>3, <1>5 DEF Rows

LEMMA Numbers == {Display, Cooldown, ObjectionGap, Warmup, MaxPerCall} \subseteq Nat
BY CoachConstants

(* Sending candidates away touches nothing that is shown.                  *)
LEMMA Retired ==
    ASSUME NEW pool, NEW rows, NEW cs, cs \subseteq pool,
           Rows(rows), Pooled(pool, rows), OnScreen(rows), Marked(rows)
    PROVE  LET r == Write(cs, "declined", rows) IN
           Rows(r) /\ Pooled(pool, r) /\ OnScreen(r) /\ Marked(r)
<1> DEFINE r == Write(cs, "declined", rows)
<1>1. Rows(r) /\ DOMAIN r = DOMAIN rows
  BY WriteRows
<1>2. \A i \in DOMAIN rows : r[i] = IF i \in IdsOf(cs) THEN "declined" ELSE rows[i]
  BY WriteRows
<1>3. \A i \in DOMAIN rows : /\ rows[i] = "shown" => r[i] = "shown"
                             /\ rows[i] # "shown" => r[i] # "shown"
  BY <1>2 DEF IdsOf, Pooled
<1> HIDE DEF r
<1>4. Pooled(pool, r)
  BY <1>1, <1>3 DEF Pooled
<1>5. OnScreen(r)
  BY <1>1, <1>3 DEF OnScreen
<1>6. Marked(r)
  BY <1>1, <1>3 DEF Marked
<1> QED
  BY <1>1, <1>4, <1>5, <1>6 DEF r

(* A new row takes no id that is in use.                                   *)
LEMMA Added ==
    ASSUME NEW k, NEW rows, NEW s \in {"no", "declined"}, Fine(k, rows)
    PROVE  /\ Fine(k, Append(rows, s))
           /\ Len(rows) + 1 \in DOMAIN Append(rows, s)
           /\ Append(rows, s)[Len(rows) + 1] # "shown"
           /\ \A c \in k.pool : c.id # Len(rows) + 1
<1> DEFINE r == Append(rows, s)
<1>1. Rows(r) /\ DOMAIN rows = 1..Len(rows) /\ DOMAIN r = 1..Len(rows) + 1 /\ Len(rows) \in Nat
  BY AppendProperties DEF Fine, Rows
<1>2. (\A i \in DOMAIN rows : r[i] = rows[i]) /\ r[Len(rows) + 1] = s
  BY <1>1, AppendProperties DEF Fine, Rows
<1>3. DOMAIN rows \subseteq DOMAIN r
  BY <1>1
<1> HIDE DEF r
<1>4. Pooled(k.pool, r)
  BY <1>2, <1>3 DEF Pooled, Fine
<1>5. OnScreen(r)
  BY <1>2, <1>3 DEF OnScreen, Fine
<1>6. Marked(r)
  BY <1>2, <1>3 DEF Marked, Fine
<1>7. Fine(k, r)
  BY <1>1, <1>4, <1>5, <1>6 DEF Fine
<1>8. \A c \in k.pool : c.id # Len(rows) + 1
  BY <1>1 DEF Fine, Pooled
<1>9. Len(rows) + 1 \in DOMAIN r /\ r[Len(rows) + 1] # "shown"
  BY <1>1, <1>2
<1> QED
  BY <1>7, <1>8, <1>9 DEF r

----------------------------------------------------------------------------
(* What select decides: who goes, who may be shown, what stays.            *)
LEMMA JudgedFacts ==
    ASSUME NEW k, DOMAIN k = Fields, Len(k.shown) \in Nat, NEW low, NEW again
    PROVE  LET j == Judged(k, low, again) IN
           /\ j.retired \subseteq k.pool /\ j.good \subseteq k.pool \ j.retired
           /\ DOMAIN j.rest = Fields /\ j.rest.pool = k.pool \ j.retired
           /\ j.rest.shown = k.shown /\ j.rest.up = StillUp(k)
           /\ \A c \in j.good : /\ ~Blocked(c, k, StillUp(k)) /\ Len(k.shown) < MaxPerCall
                              /\ ~Resolved(c, slot')
<1> DEFINE up == StillUp(k)
           done == {c \in k.pool : Len(k.shown) >= MaxPerCall \/ Resolved(c, slot') \/ Stale(c)}
           waiting == {c \in k.pool \ done : Blocked(c, k, up) \/ c \in again}
           retired == done \cup ((k.pool \ waiting) \cap low)
           rest == [k EXCEPT !.pool = @ \ retired, !.up = up]
           j == Judged(k, low, again)
<1>1. j = [retired |-> retired, good |-> k.pool \ (waiting \cup retired), rest |-> rest]
  BY DEF Judged
<1>2. j.retired = retired /\ j.good = k.pool \ (waiting \cup retired) /\ j.rest = rest
  BY <1>1
<1>3. retired \subseteq k.pool /\ k.pool \ (waiting \cup retired) \subseteq k.pool \ retired
  OBVIOUS
<1>4. ASSUME NEW c \in k.pool \ (waiting \cup retired)
      PROVE  ~Blocked(c, k, up) /\ Len(k.shown) < MaxPerCall /\ ~Resolved(c, slot')
  <2>1. c \notin done /\ c \notin waiting /\ c \in k.pool
    BY <1>4
  <2>2. ~(Len(k.shown) >= MaxPerCall) /\ ~Blocked(c, k, up) /\ ~Resolved(c, slot')
    BY <2>1
  <2> QED
    BY <2>2, CoachConstants, SMTT(30)
<1> HIDE DEF retired, waiting, done, up
<1>5. DOMAIN rest = Fields /\ rest.pool = k.pool \ retired /\ rest.shown = k.shown /\ rest.up = up
  BY DEF Fields
<1> HIDE DEF rest, j
<1>6. /\ j.retired \subseteq k.pool /\ j.good \subseteq k.pool \ j.retired
      /\ DOMAIN j.rest = Fields /\ j.rest.pool = k.pool \ j.retired
      /\ j.rest.shown = k.shown /\ j.rest.up = up
  BY <1>2, <1>3, <1>5
<1>7. \A c \in j.good : ~Blocked(c, k, up) /\ Len(k.shown) < MaxPerCall /\ ~Resolved(c, slot')
  BY <1>2, <1>4
<1> QED
  BY <1>6, <1>7 DEF j, up

(* Forgetting who is no longer up is cautious.                             *)
LEMMA Forgets ==
    ASSUME NEW k, NEW l, Cautious(k), DOMAIN l = Fields, l.shown = k.shown, l.up = StillUp(k),
           now \in Nat, screen \in Seq(Card)
    PROVE  Cautious(l)
<1>1. ASSUME NEW i \in DOMAIN screen
      PROVE  screen[i].id \in l.up \cup down \/ screen[i].at + Display <= now
  <2>1. PICK j \in DOMAIN k.shown : k.shown[j].id = screen[i].id /\ k.shown[j].at = screen[i].at
    BY <1>1 DEF Cautious
  <2>2. screen[i].at \in Nat
    <3>1. i \in 1..Len(screen)
      BY <1>1
    <3>2. screen[i] \in Card
      BY <3>1, ElementOfSeq
    <3> QED
      BY <3>2 DEF Card
  <2>3. CASE screen[i].id \in k.up /\ now < screen[i].at + Display
    BY <2>1, <2>3 DEF StillUp
  <2>4. CASE ~(now < screen[i].at + Display)
    BY <2>2, <2>4, Numbers
  <2> QED
    BY <1>1, <2>3, <2>4 DEF Cautious
<1> QED
  BY <1>1 DEF Cautious

(* So is spending what nobody sees.                                        *)
LEMMA CardOfShown ==
    ASSUME NEW w, w.id \in Nat, w.trigger \in Triggers, w.source \in Sources, now \in Nat
    PROVE  Shown(w) \in Card /\ Shown(w).id = w.id /\ Shown(w).at = now
           /\ Shown(w).trigger = w.trigger
<1> DEFINE asked == Known(w.trigger, slot').asks > w.from.asks
           learned == Known(w.trigger, slot').rank > w.from.rank
<1>1. asked \in BOOLEAN /\ learned \in BOOLEAN
  OBVIOUS
<1>2. Shown(w) = [id |-> w.id, trigger |-> w.trigger, at |-> now, source |-> w.source,
                  asked |-> asked, learned |-> learned]
  BY DEF Shown
<1> HIDE DEF asked, learned
<1> QED
  BY <1>1, <1>2 DEF Card

LEMMA Spends ==
    ASSUME NEW k, NEW w, Cautious(k), Shown(w) \in Card, Shown(w).id = w.id, Shown(w).at = now,
           now \in Nat, screen \in Seq(Card)
    PROVE  /\ Cautious(Spent(k, w)) /\ Spent(k, w).pool = k.pool \ {w}
           /\ Spent(k, w).shown = Append(k.shown, Shown(w))
           /\ Spent(k, w).up = k.up \cup {w.id}
<1> DEFINE l == Spent(k, w)
<1>1. /\ DOMAIN l = Fields /\ l.pool = k.pool \ {w}
      /\ l.shown = Append(k.shown, Shown(w)) /\ l.up = k.up \cup {w.id}
  BY DEF Spent, Fields
<1>2. /\ l.shown \in Seq(Card) /\ Len(l.shown) = Len(k.shown) + 1
      /\ DOMAIN l.shown = 1..Len(k.shown) + 1 /\ DOMAIN k.shown = 1..Len(k.shown)
      /\ Len(k.shown) \in Nat /\ Len(screen) \in Nat
  BY <1>1, AppendProperties DEF Cautious
<1>3. (\A j \in DOMAIN k.shown : l.shown[j] = k.shown[j]) /\ l.shown[Len(l.shown)] = Shown(w)
  BY <1>1, <1>2, AppendProperties DEF Cautious
<1> HIDE DEF l
<1>4. \A j \in DOMAIN l.shown : l.shown[j].at <= now
  BY <1>2, <1>3, SMTT(30) DEF Cautious
<1>5. screen # <<>> => screen[Len(screen)].at <= l.shown[Len(l.shown)].at
  <2> HAVE screen # <<>>
  <2>1. Len(k.shown) > 0
    BY <1>2, EmptySeq DEF Cautious
  <2>2. k.shown[Len(k.shown)].at <= now /\ k.shown[Len(k.shown)] \in Card
    BY <1>2, <2>1, ElementOfSeq, SMTT(30) DEF Cautious
  <2>3. screen[Len(screen)].at <= k.shown[Len(k.shown)].at /\ screen[Len(screen)] \in Card
    BY <1>2, EmptySeq, ElementOfSeq DEF Cautious
  <2> QED
    BY <1>3, <2>2, <2>3 DEF Card
<1>6. \A i \in DOMAIN screen : \E j \in DOMAIN l.shown :
          l.shown[j].id = screen[i].id /\ l.shown[j].at = screen[i].at
  BY <1>2, <1>3, SMTT(30) DEF Cautious
<1>7. Cautious(l)
  BY <1>1, <1>2, <1>4, <1>5, <1>6 DEF Cautious
<1> QED
  BY <1>1, <1>7 DEF l

----------------------------------------------------------------------------
(* What the ranker lets through, the budget allows.                        *)
LEMMA Allowed ==
    ASSUME NEW k, NEW w, Cautious(k), screen \in Seq(Card), now \in Nat,
           w.trigger \in Triggers, w.id \in Nat, w.source \in Sources, w.id \notin down,
           ~Blocked(w, k, StillUp(k)), Len(k.shown) < MaxPerCall,
           screen' = Append(screen, Shown(w)), now' = now, down' = down
    PROVE  Budget!Show(w.trigger)
<1>1. /\ DOMAIN screen = 1..Len(screen) /\ Len(screen) \in Nat
      /\ DOMAIN k.shown = 1..Len(k.shown) /\ Len(k.shown) \in Nat
  BY DEF Cautious
<1>2. /\ \A i \in DOMAIN screen : screen[i].at \in Nat
      /\ \A j \in DOMAIN k.shown : k.shown[j].at \in Nat
  <2>1. ASSUME NEW i \in 1..Len(screen) PROVE screen[i].at \in Nat
    <3>1. screen[i] \in Card
      BY ElementOfSeq
    <3> QED
      BY <3>1 DEF Card
  <2>2. ASSUME NEW j \in 1..Len(k.shown) PROVE k.shown[j].at \in Nat
    <3>1. k.shown[j] \in Card
      BY ElementOfSeq DEF Cautious
    <3> QED
      BY <3>1 DEF Card
  <2> QED
    BY <1>1, <2>1, <2>2
<1>3. Shown(w) \in Card /\ Shown(w).id = w.id /\ Shown(w).at = now /\ Shown(w).trigger = w.trigger
  BY CardOfShown
<1>4. DOMAIN Seen = 1..Len(screen) /\ Len(Seen) = Len(screen)
  <2>1. Seen = [i \in 1..Len(screen) |-> [trigger |-> screen[i].trigger, at |-> screen[i].at]]
    BY <1>1 DEF Seen
  <2> QED
    BY <2>1, <1>1
<1>5. Len(Seen) < MaxPerCall
  BY <1>1, <1>4, Numbers DEF Cautious
<1>6. Budget!Up = {}
  <2> SUFFICES ASSUME NEW i \in DOMAIN Seen, i \notin Waved, now < Seen[i].at + Display
               PROVE  FALSE
    BY DEF Budget!Up, Seen, Waved
  <2>1. i \in DOMAIN screen /\ Seen[i].at = screen[i].at
    BY <1>1, <1>4 DEF Seen
  <2>2. screen[i].id \notin down /\ ~(screen[i].at + Display <= now)
    BY <2>1, <1>2, Numbers DEF Waved
  <2>3. screen[i].id \in k.up
    BY <2>1, <2>2 DEF Cautious
  <2>4. PICK j \in DOMAIN k.shown : k.shown[j].id = screen[i].id /\ k.shown[j].at = screen[i].at
    BY <2>1 DEF Cautious
  <2>5. screen[i].id \in StillUp(k)
    BY <2>1, <2>3, <2>4 DEF StillUp
  <2> QED
    BY <2>5 DEF Blocked
<1>7. Seen # <<>> => now - Seen[Len(Seen)].at >= Gap(w.trigger)
  <2> SUFFICES ASSUME Seen # <<>> PROVE now - Seen[Len(Seen)].at >= Gap(w.trigger)
    OBVIOUS
  <2>1. screen # <<>> /\ Len(screen) \in 1..Len(screen)
    <3>1. CASE Len(screen) = 0
      <4>1. DOMAIN Seen = {}
        BY <1>4, <3>1
      <4>2. Seen = <<>>
        BY <4>1 DEF Seen
      <4> QED
        BY <4>2
    <3> QED
      BY <3>1, <1>1, EmptySeq
  <2>2. Seen[Len(Seen)].at = screen[Len(screen)].at
    BY <1>1, <1>4, <2>1 DEF Seen
  <2>3. k.shown # <<>> /\ Len(k.shown) \in 1..Len(k.shown)
    <3>1. Len(k.shown) > 0
      BY <1>1, <2>1 DEF Cautious
    <3> QED
      BY <3>1, <1>1, EmptySeq DEF Cautious
  <2>4. screen[Len(screen)].at <= k.shown[Len(k.shown)].at
    BY <2>1 DEF Cautious
  <2>5. ~(now - k.shown[Len(k.shown)].at < Gap(w.trigger))
    BY <2>3 DEF Blocked, Cooling
  <2>6. Gap(w.trigger) \in Nat
    BY Numbers DEF Gap
  <2>7. screen[Len(screen)].at \in Nat /\ k.shown[Len(k.shown)].at \in Nat
    BY <1>1, <1>2, <2>1, <2>3
  <2> DEFINE a == screen[Len(screen)].at
             b == k.shown[Len(k.shown)].at
             g == Gap(w.trigger)
  <2>8. a \in Nat /\ b \in Nat /\ g \in Nat /\ a <= b /\ ~(now - b < g)
    BY <2>4, <2>5, <2>6, <2>7
  <2> HIDE DEF a, b, g
  <2>9. now - a >= g
    BY <2>8
  <2> QED
    BY <2>2, <2>9 DEF a, g
<1>8. now >= Warmup \/ w.trigger = Objection
  BY Numbers DEF Blocked
<1>9. Seen' = Append(Seen, [trigger |-> w.trigger, at |-> now])
  <2>1. /\ DOMAIN screen' = 1..Len(screen) + 1
        /\ \A i \in 1..Len(screen) : screen'[i] = screen[i]
        /\ screen'[Len(screen) + 1] = Shown(w)
    BY <1>1, <1>3, AppendProperties
  <2>2. Seen' = [i \in 1..Len(screen) + 1 |-> [trigger |-> screen'[i].trigger, at |-> screen'[i].at]]
    BY <2>1 DEF Seen
  <2>3. \A i \in 1..Len(screen) + 1 : [trigger |-> screen'[i].trigger, at |-> screen'[i].at]
            = IF i = Len(screen) + 1 THEN [trigger |-> w.trigger, at |-> now] ELSE Seen[i]
    BY <1>1, <1>3, <2>1 DEF Seen
  <2>4. Append(Seen, [trigger |-> w.trigger, at |-> now])
            = [i \in 1..Len(Seen) + 1 |->
                   IF i = Len(Seen) + 1 THEN [trigger |-> w.trigger, at |-> now] ELSE Seen[i]]
    BY <1>1, <1>4
  <2> QED
    BY <1>4, <2>2, <2>3, <2>4
<1>10. Waved' = Waved
  <2>1. /\ DOMAIN screen' = 1..Len(screen) + 1
        /\ \A i \in 1..Len(screen) : screen'[i] = screen[i]
        /\ screen'[Len(screen) + 1].id = w.id
    BY <1>1, <1>3, AppendProperties
  <2> QED
    BY <1>1, <2>1 DEF Waved
<1>11. Budget!Gap(w.trigger) = Gap(w.trigger)
  BY DEF Budget!Gap, Gap
<1> QED
  BY <1>5, <1>6, <1>7, <1>8, <1>9, <1>10, <1>11 DEF Budget!Show, Budget!Last, Seen, Waved

(* What is shown is on the screen, in its row and in the ranker's list.    *)
LEMMA Published ==
    ASSUME NEW k, NEW rows, NEW w, Rows(rows), Pooled(k.pool, rows), w \in k.pool,
           OnScreen(rows), Marked(rows), Cautious(k), now \in Nat, w.id \in Nat,
           screen' = Append(screen, Shown(w)), now' = now, down' = down,
           ranker' = Spent(k, w), stored' = Write({w}, "shown", rows)
    PROVE  Fine(ranker, stored)'
<1> DEFINE r == stored'
           l == ranker'
<1>1. Rows(r) /\ DOMAIN r = DOMAIN rows
  BY WriteRows
<1>2. \A i \in DOMAIN rows : r[i] = IF i = w.id THEN "shown" ELSE rows[i]
  <2>1. IdsOf({w}) = {w.id}
    BY DEF IdsOf
  <2>2. \A i \in DOMAIN rows : Write({w}, "shown", rows)[i]
                                = IF i \in IdsOf({w}) THEN "shown" ELSE rows[i]
    BY WriteRows
  <2> QED
    BY <2>1, <2>2
<1>3. Shown(w) \in Card /\ Shown(w).id = w.id /\ Shown(w).at = now
  BY CardOfShown DEF Pooled
<1>4. /\ Cautious(l) /\ l.pool = k.pool \ {w}
      /\ l.shown = Append(k.shown, Shown(w)) /\ l.up = k.up \cup {w.id}
  BY <1>3, Spends DEF OnScreen
<1>5. w.id \in DOMAIN rows /\ rows[w.id] # "shown"
  BY DEF Pooled
<1>6. /\ screen' \in Seq(Card) /\ DOMAIN screen' = 1..Len(screen) + 1 /\ Len(screen') = Len(screen) + 1
      /\ DOMAIN screen = 1..Len(screen) /\ Len(screen) \in Nat
      /\ \A i \in DOMAIN screen : screen'[i] = screen[i]
      /\ screen'[Len(screen) + 1] = Shown(w) /\ screen' # <<>>
  BY <1>3, AppendProperties DEF OnScreen
<1>7. /\ DOMAIN l.shown = 1..Len(k.shown) + 1 /\ Len(l.shown) = Len(k.shown) + 1
      /\ Len(k.shown) \in Nat /\ l.shown[Len(k.shown) + 1] = Shown(w) /\ l.shown \in Seq(Card)
  BY <1>3, <1>4, AppendProperties DEF Cautious
<1> HIDE DEF r, l
<1>8. \A i \in DOMAIN screen' : i \in DOMAIN screen \/ i = Len(screen) + 1
  BY <1>6
<1>9. Pooled(l.pool, r)
  BY <1>1, <1>2, <1>4 DEF Pooled
<1>10. \A i \in DOMAIN screen : r[screen[i].id] = "shown" /\ screen[i].id # w.id
  BY <1>1, <1>2, <1>5 DEF OnScreen
<1>11. OnScreen(stored)'
  <2>1. \A i \in DOMAIN screen' : /\ screen'[i].id \in DOMAIN r /\ r[screen'[i].id] = "shown"
                                  /\ screen'[i].at <= now
    BY <1>1, <1>2, <1>3, <1>5, <1>6, <1>8, <1>10 DEF OnScreen
  <2>2. ASSUME NEW i \in DOMAIN screen', NEW j \in DOMAIN screen', screen'[i].id = screen'[j].id
        PROVE  i = j
    <3>1. CASE i \in DOMAIN screen /\ j \in DOMAIN screen
      BY <1>6, <2>2, <3>1 DEF OnScreen
    <3>2. CASE i = Len(screen) + 1 \/ j = Len(screen) + 1
      BY <1>3, <1>6, <1>8, <1>10, <2>2, <3>2
    <3> QED
      BY <1>8, <3>1, <3>2
  <2> QED
    BY <1>6, <2>1, <2>2 DEF OnScreen, r
<1>12. Marked(stored)'
  BY <1>1, <1>2 DEF Marked, r
<1>13. Cautious(ranker)'
  <2>1. DOMAIN l = Fields /\ \A j \in DOMAIN l.shown : l.shown[j].at <= now
    BY <1>4 DEF Cautious
  <2>2. Len(screen') <= Len(l.shown)
    BY <1>6, <1>7 DEF Cautious
  <2>3. screen'[Len(screen')].at <= l.shown[Len(l.shown)].at
    BY <1>3, <1>6, <1>7
  <2>4. ASSUME NEW i \in DOMAIN screen'
        PROVE  \E j \in DOMAIN l.shown : l.shown[j].id = screen'[i].id /\ l.shown[j].at = screen'[i].at
    <3>1. CASE i \in DOMAIN screen
      BY <1>4, <1>6, <3>1 DEF Cautious
    <3>2. CASE i = Len(screen) + 1
      <4>1. Len(k.shown) + 1 \in DOMAIN l.shown
        BY <1>7
      <4>2. l.shown[Len(k.shown) + 1] = screen'[i]
        BY <1>6, <1>7, <3>2
      <4> QED
        BY <4>1, <4>2
    <3> QED
      BY <1>8, <3>1, <3>2
  <2>5. ASSUME NEW i \in DOMAIN screen'
        PROVE  screen'[i].id \in l.up \cup down \/ screen'[i].at + Display <= now
    <3>1. CASE i \in DOMAIN screen
      BY <1>4, <1>6, <3>1 DEF Cautious
    <3>2. CASE i = Len(screen) + 1
      BY <1>3, <1>4, <1>6, <3>2
    <3> QED
      BY <1>8, <3>1, <3>2
  <2> QED
    BY <1>7, <2>1, <2>2, <2>3, <2>4, <2>5 DEF Cautious, l
<1> QED
  BY <1>1, <1>9, <1>11, <1>12, <1>13 DEF Fine, r, l

(* Fine depends on no more of the state than now, screen and down.         *)
LEMMA SameScreen ==
    ASSUME NEW k, NEW rows, Fine(k, rows), Still, ranker' = k, stored' = rows
    PROVE  Fine(ranker, stored)'
BY DEF Fine, OnScreen, Marked, Cautious, Still

LEMMA RankSteps ==
    ASSUME NEW k, NEW rows, NEW works, Fine(k, rows), now \in Nat, Rank(k, rows, works),
           now' = now, down' = down
    PROVE  Fine(ranker, stored)' /\ Steps
<1>1. PICK again, low : LET j    == Judged(k, low, again)
                            kept == Write(j.retired, "declined", rows)
         IN  \/ /\ j.good = {} /\ (works \/ j.retired = {})
                /\ ranker' = j.rest /\ stored' = kept
                /\ UNCHANGED <<lost, screen>>
             \/ /\ ~works /\ j.retired # {}
                /\ ranker' \in IF j.good = {} THEN {j.rest} ELSE {Spent(j.rest, w) : w \in j.good}
                /\ lost' = lost \cup IdsOf(j.retired) \cup (IdsOf(j.rest.pool) \ IdsOf(ranker'.pool))
                /\ stored' = rows /\ UNCHANGED screen
             \/ /\ ~works /\ j.retired = {}
                /\ \E w \in j.good : ranker' = Unshown(j.rest, w)
                /\ stored' = rows /\ UNCHANGED <<lost, screen>>
             \/ /\ works
                /\ \E w \in j.good : /\ ranker' = Spent(j.rest, w)
                                     /\ screen' = Append(screen, Shown(w))
                                     /\ stored' = Write({w}, "shown", kept)
                /\ UNCHANGED lost
  BY DEF Rank
<1> DEFINE j == Judged(k, low, again)
           kept == Write(j.retired, "declined", rows)
<1>2. DOMAIN k = Fields /\ Len(k.shown) \in Nat
  BY DEF Fine, Cautious
<1>3. /\ j.retired \subseteq k.pool /\ j.good \subseteq k.pool \ j.retired
      /\ DOMAIN j.rest = Fields /\ j.rest.pool = k.pool \ j.retired
      /\ j.rest.shown = k.shown /\ j.rest.up = StillUp(k)
      /\ \A c \in j.good : ~Blocked(c, k, StillUp(k)) /\ Len(k.shown) < MaxPerCall
  BY <1>2, JudgedFacts
<1>4. Rows(kept) /\ Pooled(k.pool, kept) /\ OnScreen(kept) /\ Marked(kept)
  BY <1>3, Retired DEF Fine
<1> HIDE DEF j, kept
<1>5. Cautious(j.rest)
  BY <1>3, Forgets DEF Fine, OnScreen
<1>6. Pooled(j.rest.pool, rows) /\ Pooled(j.rest.pool, kept)
  BY <1>3, <1>4 DEF Fine, Pooled
<1>7. ASSUME NEW w \in j.good
      PROVE  /\ w \in j.rest.pool /\ w.id \in DOMAIN rows /\ w.id \in Nat
             /\ w.trigger \in Triggers /\ w.source \in Sources /\ w.id \notin down
  <2>1. w \in j.rest.pool
    BY <1>3
  <2>2. DOMAIN rows \subseteq Nat
    BY DEF Fine, Rows
  <2>3. w.id \in DOMAIN rows /\ rows[w.id] # "shown" /\ w.trigger \in Triggers /\ w.source \in Sources
    BY <2>1, <1>6 DEF Pooled
  <2> QED
    BY <2>1, <2>2, <2>3 DEF Fine, Marked
<1>8. CASE j.good = {} /\ ranker' = j.rest /\ stored' = kept /\ UNCHANGED screen
  <2>1. Fine(j.rest, kept)
    BY <1>4, <1>5, <1>6 DEF Fine
  <2> QED
    BY <1>8, <2>1, SameScreen DEF Steps, Still
<1>9. CASE /\ ranker' \in IF j.good = {} THEN {j.rest} ELSE {Spent(j.rest, w) : w \in j.good}
           /\ stored' = rows /\ UNCHANGED screen
  <2>1. Fine(j.rest, rows)
    BY <1>5, <1>6 DEF Fine
  <2>2. CASE j.good = {}
    BY <1>9, <2>1, <2>2, SameScreen DEF Steps, Still
  <2>3. CASE j.good # {}
    <3>1. PICK w \in j.good : ranker' = Spent(j.rest, w)
      BY <1>9, <2>3
    <3>2. Shown(w) \in Card /\ Shown(w).id = w.id /\ Shown(w).at = now
      BY <1>7, CardOfShown
    <3>3. Cautious(Spent(j.rest, w)) /\ Spent(j.rest, w).pool = j.rest.pool \ {w}
      BY <1>5, <3>2, Spends DEF Fine, OnScreen
    <3>4. Fine(Spent(j.rest, w), rows)
      BY <1>6, <3>3 DEF Fine, Pooled
    <3> QED
      BY <1>9, <3>1, <3>4, SameScreen DEF Steps, Still
  <2> QED
    BY <2>2, <2>3
<1>10. CASE (\E w \in j.good : ranker' = Unshown(j.rest, w)) /\ stored' = rows /\ UNCHANGED screen
  <2>1. Fine(j.rest, rows)
    BY <1>5, <1>6 DEF Fine
  <2> QED
    BY <1>10, <2>1, SameScreen DEF Steps, Still, Unshown
<1>11. CASE \E w \in j.good : /\ ranker' = Spent(j.rest, w) /\ screen' = Append(screen, Shown(w))
                              /\ stored' = Write({w}, "shown", kept)
  <2>1. PICK w \in j.good : /\ ranker' = Spent(j.rest, w) /\ screen' = Append(screen, Shown(w))
                            /\ stored' = Write({w}, "shown", kept)
    BY <1>11
  <2>2. Fine(ranker, stored)'
    BY <1>4, <1>5, <1>6, <1>7, <2>1, Published
  <2>3. Budget!Show(w.trigger)
    BY <1>3, <1>7, <2>1, Allowed DEF Fine, OnScreen
  <2> QED
    BY <1>7, <2>2, <2>3 DEF Steps
<1> QED
  BY <1>1, <1>8, <1>9, <1>10, <1>11 DEF j, kept

(* What Consider may be given: a candidate with the next id, or none.      *)
New(cs) == \A c \in cs : c.id = Len(stored) + 1 /\ c.trigger \in Triggers /\ c.source \in Sources

LEMMA ConsiderSteps ==
    ASSUME NEW cs, NEW works, New(cs), Fine(ranker, stored), now \in Nat, Consider(cs, works),
           now' = now, down' = down
    PROVE  Fine(ranker, stored)' /\ Steps
<1>1. CASE cs = {}
  BY <1>1, RankSteps DEF Consider
<1>2. CASE cs # {}
  <2>1. PICK c \in cs, stronger \in BOOLEAN :
             LET o    == Offer(ranker, c, stronger)
                 rows == Append(stored, "no")
             IN  IF o.retired # {} /\ ~works
                 THEN /\ ranker' = o.pool /\ stored' = rows /\ UNCHANGED screen
                      /\ lost' = lost \cup IdsOf(o.retired)
                 ELSE Rank(o.pool, Write(o.retired, "declined", rows), works)
    BY <1>2 DEF Consider
  <2> DEFINE cur == {d \in ranker.pool : d.trigger = c.trigger}
             o == Offer(ranker, c, stronger)
             k == o.pool
             rows == Append(stored, "no")
  <2>2. \/ k = [ranker EXCEPT !.pool = (@ \ cur) \cup {c}] /\ o.retired = cur
        \/ k = ranker /\ o.retired = {c}
    BY DEF Offer
  <2>3. Fine(ranker, rows) /\ c.id \in DOMAIN rows /\ rows[c.id] # "shown"
        /\ \A d \in ranker.pool : d.id # c.id
    BY Added DEF New
  <2> HIDE DEF rows
  <2>4. DOMAIN ranker = Fields
    BY DEF Fine, Cautious
  <2>5. /\ k.pool \subseteq ranker.pool \cup {c} /\ o.retired \subseteq ranker.pool \cup {c}
        /\ DOMAIN k = Fields /\ k.shown = ranker.shown /\ k.up = ranker.up
    BY <2>2, <2>4 DEF Fields
  <2> HIDE DEF k, o
  <2>6. Pooled(ranker.pool \cup {c}, rows)
    BY <2>3 DEF Fine, Pooled, New
  <2>7. Cautious(k)
    BY <2>3, <2>5 DEF Fine, Cautious
  <2>8. Fine(k, rows)
    BY <2>3, <2>5, <2>6, <2>7 DEF Fine, Pooled
  <2>9. CASE ranker' = k /\ stored' = rows /\ UNCHANGED screen
    BY <2>8, <2>9, SameScreen DEF Steps, Still
  <2>10. CASE Rank(k, Write(o.retired, "declined", rows), works)
    <3> DEFINE kept == Write(o.retired, "declined", rows)
    <3>1. /\ Rows(kept) /\ Pooled(ranker.pool \cup {c}, kept) /\ OnScreen(kept) /\ Marked(kept)
      BY <2>3, <2>5, <2>6, Retired DEF Fine
    <3> HIDE DEF kept
    <3>2. Fine(k, kept)
      BY <3>1, <2>5, <2>7 DEF Fine, Pooled
    <3> QED
      BY <3>2, <2>10, RankSteps DEF kept
  <2> QED
    BY <2>1, <2>9, <2>10 DEF k, o, rows
<1> QED
  BY <1>1, <1>2

----------------------------------------------------------------------------
(* What is in the inbox, or delivered to it.                               *)
LEMMA NewestOf ==
    ASSUME NEW W, NEW q \in Seq(W)
    PROVE  Newest(q) \in Seq(W)
<1>1. Len(q) \in Nat /\ Excess(q) \in Nat
  BY CoachConstants, SMTT(30) DEF Excess
<1>2. \A i \in Excess(q) + 1..Len(q) : q[i] \in W
  BY <1>1, ElementOfSeq
<1> QED
  BY <1>1, <1>2, SubSeqProperties DEF Newest

LEMMA Delivered ==
    ASSUME NEW W, inbox \in Seq(W), NEW ms \in Seq(W), Deliver(ms)
    PROVE  inbox' \in Seq(W)
<1>1. inbox \o ms \in Seq(W)
  BY ConcatProperties
<1> QED
  BY <1>1, NewestOf DEF Deliver

LEMMA Widens ==
    ASSUME NEW d, NEW e, d \subseteq e, NEW q \in Seq(Message(d))
    PROVE  q \in Seq(Message(e))
<1>1. Message(d) \subseteq Message(e)
  BY DEF Message
<1> QED
  BY <1>1, SeqMonotonic

LEMMA Line1 == ASSUME NEW i \in Nat PROVE Line(i) \in Message(down) /\ Ended \in Message(down)
BY DEF Line, Ended, Message

LEMMA One == ASSUME NEW W, NEW m \in W PROVE <<m>> \in Seq(W)
OBVIOUS

(* The inbox after its head was taken.                                     *)
LEMMA Taken ==
    ASSUME NEW type, Takes(type), inbox \in Seq(Message(down))
    PROVE  /\ Tail(inbox) \in Seq(Message(down)) /\ Head(inbox) \in Message(down)
           /\ Head(inbox).type = type
BY HeadTailProperties DEF Takes

LEMMA Quietly == ASSUME Fine(ranker, stored), Still, UNCHANGED <<ranker, stored>>
                 PROVE  Fine(ranker, stored)'
BY SameScreen

----------------------------------------------------------------------------
LEMMA TakeLineSteps ==
    ASSUME IInv, NEW works \in BOOLEAN, TakeLine(works) PROVE IInv' /\ Steps
<1>0. saved' = saved /\ saved \in Nat
  BY DEF TakeLine, Quiet, talk, IInv
<1>1. now' = now /\ down' = down /\ now \in Nat /\ inbox \in Seq(Message(down)) /\ Fine(ranker, stored)
  BY DEF TakeLine, Quiet, IInv
<1>2. inbox' \in Seq(Message(down))
  BY <1>1, Taken DEF TakeLine
<1>3. Fine(ranker, stored)' /\ Steps
  <2>1. CASE Head(inbox).n \in heard
    BY <1>1, <2>1, Quietly DEF TakeLine, Steps, Still, table
  <2>2. CASE Head(inbox).n \notin heard
    <3>1. PICK cs \in Raises(slot', "fast") : Consider(cs, works)
      BY <2>2 DEF TakeLine
    <3>2. New(cs)
      BY <3>1 DEF Raises, New, Candidate, Sources
    <3> QED
      BY <1>1, <3>1, <3>2, ConsiderSteps
  <2> QED
    BY <2>1, <2>2
<1> QED
  BY <1>0, <1>1, <1>2, <1>3 DEF IInv

LEMMA TickSteps ==
    ASSUME IInv, NEW works \in BOOLEAN, Tick(works) PROVE IInv' /\ Steps
<1>0. saved' = saved /\ saved \in Nat
  BY DEF Tick, Quiet, talk, IInv
<1>1. /\ now' = now /\ down' = down /\ now \in Nat /\ inbox \in Seq(Message(down))
      /\ inbox' = inbox /\ Fine(ranker, stored) /\ Consider({}, works)
  BY DEF Tick, Quiet, IInv
<1>2. New({})
  BY DEF New
<1>3. Fine(ranker, stored)' /\ Steps
  BY <1>1, <1>2, ConsiderSteps
<1> QED
  BY <1>0, <1>1, <1>3 DEF IInv

LEMMA TakeSlowSteps ==
    ASSUME IInv, NEW works \in BOOLEAN, TakeSlow(works) PROVE IInv' /\ Steps
<1>0. saved' = saved /\ saved \in Nat
  BY DEF TakeSlow, Quiet, talk, IInv
<1>1. now' = now /\ down' = down /\ now \in Nat /\ inbox \in Seq(Message(down)) /\ Fine(ranker, stored)
  BY DEF TakeSlow, Quiet, IInv
<1>2. inbox' \in Seq(Message(down)) /\ Head(inbox).n \in Triggers
  <2>1. /\ Tail(inbox) \in Seq(Message(down)) /\ Head(inbox) \in Message(down)
        /\ Head(inbox).type = "slow"
    BY <1>1, Taken DEF TakeSlow
  <2>2. Head(inbox).n \in Triggers
    BY <2>1 DEF Message
  <2> QED
    BY <2>1, <2>2 DEF TakeSlow
<1> DEFINE c == Candidate(Head(inbox).n, slow.t, slow.slot, slot, "slow")
<1>3. c.id = Len(stored) + 1 /\ c.trigger \in Triggers /\ c.source \in Sources
  BY <1>2 DEF Candidate, Sources
<1>4. \/ Consider({}, works)
      \/ Rank(ranker, Append(stored, "declined"), works)
      \/ stored' = Append(stored, "no") /\ UNCHANGED <<ranker, screen>>
      \/ Consider({c}, works)
  BY DEF TakeSlow
<1> HIDE DEF c
<1>5. New({}) /\ New({c})
  BY <1>3 DEF New
<1>6. Fine(ranker, Append(stored, "declined")) /\ Fine(ranker, Append(stored, "no"))
  BY <1>1, Added
<1>7. Fine(ranker, stored)' /\ Steps
  <2>1. CASE Consider({}, works)
    BY <1>1, <1>5, <2>1, ConsiderSteps
  <2>2. CASE Consider({c}, works)
    BY <1>1, <1>5, <2>2, ConsiderSteps
  <2>3. CASE Rank(ranker, Append(stored, "declined"), works)
    BY <1>1, <1>6, <2>3, RankSteps
  <2>4. CASE stored' = Append(stored, "no") /\ UNCHANGED <<ranker, screen>>
    BY <1>1, <1>6, <2>4, SameScreen DEF Steps, Still
  <2> QED
    BY <1>4, <2>1, <2>2, <2>3, <2>4
<1> QED
  BY <1>0, <1>1, <1>2, <1>7 DEF IInv

LEMMA TakeDismissSteps == ASSUME IInv, TakeDismiss PROVE IInv' /\ Still
<1>0. saved' = saved /\ saved \in Nat
  BY DEF TakeDismiss, Quiet, talk, IInv
<1>1. Still /\ now \in Nat /\ inbox \in Seq(Message(down)) /\ Fine(ranker, stored) /\ stored' = stored
  BY DEF TakeDismiss, Quiet, IInv, Still, table
<1>2. /\ inbox' \in Seq(Message(down)) /\ Head(inbox).n \in down
  <2>1. /\ Tail(inbox) \in Seq(Message(down)) /\ Head(inbox) \in Message(down)
        /\ Head(inbox).type = "dismiss"
    BY <1>1, Taken DEF TakeDismiss
  <2>2. Head(inbox).n \in down
    BY <2>1 DEF Message
  <2> QED
    BY <2>1, <2>2 DEF TakeDismiss
<1> DEFINE k == ranker'
<1>3. DOMAIN k = Fields /\ k.pool = ranker.pool /\ k.shown = ranker.shown
      /\ k.up = ranker.up \ {Head(inbox).n}
  BY <1>1 DEF TakeDismiss, Fine, Cautious, Fields
<1> HIDE DEF k
<1>4. Fine(k, stored)
  <2>1. Cautious(k)
    BY <1>1, <1>2, <1>3 DEF Fine, Cautious
  <2> QED
    BY <1>1, <1>3, <2>1 DEF Fine
<1>5. Fine(ranker, stored)'
  BY <1>1, <1>4, SameScreen DEF k
<1> QED
  BY <1>0, <1>1, <1>2, <1>5 DEF IInv, Still

LEMMA TakeEndedSteps ==
    ASSUME IInv, NEW works \in BOOLEAN, TakeEnded(works) PROVE IInv' /\ Still
<1>0. saved' = saved /\ saved \in Nat
  BY DEF TakeEnded, Quiet, talk, IInv
<1>1. Still /\ now \in Nat /\ inbox \in Seq(Message(down)) /\ Fine(ranker, stored)
  BY DEF TakeEnded, Quiet, IInv, Still
<1>2. inbox' \in Seq(Message(down))
  <2>1. Tail(inbox) \in Seq(Message(down)) /\ <<>> \in Seq(Message(down))
    BY <1>1, Taken, EmptySeq DEF TakeEnded
  <2> QED
    BY <2>1 DEF TakeEnded
<1> DEFINE k == ranker'
           r == Write(ranker.pool, "declined", stored)
<1>3. DOMAIN k = Fields /\ k.pool = {} /\ k.shown = ranker.shown /\ k.up = ranker.up
  BY <1>1 DEF TakeEnded, Fine, Cautious, Fields
<1>4. Rows(r) /\ OnScreen(r) /\ Marked(r)
  BY <1>1, Retired DEF Fine
<1>5. stored' = r \/ stored' = stored
  BY DEF TakeEnded
<1> HIDE DEF k, r
<1>6. Cautious(k)
  BY <1>1, <1>3 DEF Fine, Cautious
<1>7. Fine(k, r) /\ Fine(k, stored)
  BY <1>1, <1>3, <1>4, <1>6 DEF Fine, Pooled
<1>8. Fine(ranker, stored)'
  BY <1>1, <1>5, <1>7, SameScreen DEF k
<1> QED
  BY <1>0, <1>1, <1>2, <1>8 DEF IInv, Still

----------------------------------------------------------------------------
(* Whatever is delivered while the screen stands still.                    *)
LEMMA Stands ==
    ASSUME IInv, Still, UNCHANGED <<ranker, stored>>, saved' \in Nat,
           inbox' \in Seq(Message(down))
    PROVE  IInv'
<1>1. Fine(ranker, stored)'
  BY Quietly DEF IInv
<1> QED
  BY <1>1 DEF IInv, Still

LEMMA DeliverySteps ==
    ASSUME IInv, SaveLine \/ PublishLine \/ CallMoves \/ Attach \/ SlowAnswers
                 \/ \E flaps \in BOOLEAN : Finish(flaps)
    PROVE  IInv' /\ Still
<1>1. inbox \in Seq(Message(down)) /\ saved \in Nat
  BY DEF IInv
<1>2. CASE SaveLine
  BY <1>1, <1>2, Stands DEF SaveLine, Still, table
<1>3. CASE PublishLine
  <2>1. Line(saved) \in Message(down)
    BY <1>1, Line1
  <2>2. <<Line(saved)>> \in Seq(Message(down))
    BY <2>1, One
  <2>3. inbox' \in Seq(Message(down))
    BY <1>1, <1>3, <2>2, Delivered DEF PublishLine
  <2> QED
    BY <1>1, <1>3, <2>3, Stands DEF PublishLine, Still, table
<1>4. CASE CallMoves
  <2>1. <<Ended>> \in Seq(Message(down))
    BY <1>1, Line1, One
  <2>2. UNCHANGED inbox \/ Deliver(<<Ended>>)
    BY <1>4 DEF CallMoves
  <2>3. inbox' \in Seq(Message(down))
    BY <1>1, <2>1, <2>2, Delivered
  <2> QED
    BY <1>1, <1>4, <2>3, Stands DEF CallMoves, Still, table
<1>5. CASE Attach
  <2>1. Backfill \in [1..saved -> Message(down)]
    BY <1>1, Line1 DEF Backfill
  <2>2. Backfill \in Seq(Message(down))
    BY <1>1, <2>1, SequencesAre
  <2>3. inbox' \in Seq(Message(down))
    BY <1>1, <1>5, <2>2, Delivered DEF Attach
  <2> QED
    BY <1>1, <1>5, <2>3, Stands DEF Attach, Still, table, talk
<1>6. CASE SlowAnswers
  <2>1. PICK t \in Triggers : Deliver(<<[type |-> "slow", n |-> t]>>)
    BY <1>6 DEF SlowAnswers
  <2>2. [type |-> "slow", n |-> t] \in Message(down)
    BY DEF Message
  <2>3. <<[type |-> "slow", n |-> t]>> \in Seq(Message(down))
    BY <2>2, One
  <2>4. inbox' \in Seq(Message(down))
    BY <1>1, <2>1, <2>3, Delivered
  <2> QED
    BY <1>1, <1>6, <2>4, Stands DEF SlowAnswers, Still, table, talk
<1>7. ASSUME NEW flaps \in BOOLEAN, Finish(flaps) PROVE IInv' /\ Still
  <2>1. Ended \in Message(down)
    BY Line1
  <2>2. Append(inbox, Ended) \in Seq(Message(down))
    BY <1>1, <2>1, AppendProperties
  <2>3. Newest(Append(inbox, Ended)) \in Seq(Message(down))
    BY <2>2, NewestOf
  <2>4. inbox' \in Seq(Message(down))
    BY <1>1, <1>7, <2>3 DEF Finish
  <2> QED
    BY <1>1, <1>7, <2>4, Stands DEF Finish, Still, table, talk
<1> QED
  BY <1>2, <1>3, <1>4, <1>5, <1>6, <1>7

LEMMA PassSteps == ASSUME IInv, Pass PROVE IInv' /\ Budget!Pass
<1>1. /\ now' = now + 1 /\ now \in Nat /\ saved' = saved /\ saved \in Nat /\ inbox' = inbox
      /\ screen' = screen /\ down' = down /\ ranker' = ranker /\ stored' = stored
      /\ inbox \in Seq(Message(down)) /\ Fine(ranker, stored)
  BY DEF Pass, IInv, talk, table
<1>2. \A i \in DOMAIN screen : screen[i].at \in Nat
  <2>1. ASSUME NEW i \in 1..Len(screen) PROVE screen[i].at \in Nat
    <3>1. screen[i] \in Card
      BY <1>1, ElementOfSeq DEF Fine, OnScreen
    <3> QED
      BY <3>1 DEF Card
  <2> QED
    BY <1>1, <2>1 DEF Fine, OnScreen
<1>3. \A j \in DOMAIN ranker.shown : ranker.shown[j].at \in Nat
  <2>1. ASSUME NEW j \in 1..Len(ranker.shown) PROVE ranker.shown[j].at \in Nat
    <3>1. ranker.shown[j] \in Card
      BY <1>1, ElementOfSeq DEF Fine, Cautious
    <3> QED
      BY <3>1 DEF Card
  <2> QED
    BY <1>1, <2>1, SMTT(30) DEF Fine, Cautious
<1>4. OnScreen(stored)'
  <2>1. \A i \in DOMAIN screen : screen[i].at <= now + 1
    BY <1>1, <1>2 DEF Fine, OnScreen
  <2> QED
    BY <1>1, <2>1 DEF Fine, OnScreen
<1>5. Cautious(ranker)'
  <2>1. \A j \in DOMAIN ranker.shown : ranker.shown[j].at <= now + 1
    BY <1>1, <1>3 DEF Fine, Cautious
  <2>2. \A i \in DOMAIN screen : screen[i].at + Display <= now => screen[i].at + Display <= now + 1
    BY <1>1, <1>2, Numbers
  <2> QED
    BY <1>1, <2>1, <2>2 DEF Fine, Cautious
<1>6. Fine(ranker, stored)'
  BY <1>1, <1>4, <1>5 DEF Fine, Marked
<1>7. now' > now
  BY <1>1
<1> QED
  BY <1>1, <1>6, <1>7 DEF IInv, Budget!Pass

LEMMA SubscribeSteps == ASSUME IInv, Subscribe PROVE IInv' /\ Budget!NewSession
<1>1. /\ now' = now /\ now \in Nat /\ saved' = saved /\ saved \in Nat /\ inbox' = <<>>
      /\ screen' = <<>> /\ down' = down /\ ranker' = Empty /\ stored' = stored
      /\ Fine(ranker, stored)
  BY DEF Subscribe, IInv, talk, table
<1>2. <<>> \in Seq(Card) /\ DOMAIN <<>> = {} /\ Len(<<>>) = 0 /\ inbox' \in Seq(Message(down))
  BY <1>1, EmptySeq
<1>3. OnScreen(stored)'
  BY <1>1, <1>2 DEF OnScreen
<1>4. DOMAIN Empty = Fields /\ Empty.pool = {} /\ Empty.shown = <<>>
  BY DEF Empty, Fields
<1>5. Cautious(ranker)'
  BY <1>1, <1>2, <1>4 DEF Cautious
<1>6. Fine(ranker, stored)'
  BY <1>1, <1>3, <1>4, <1>5 DEF Fine, Marked, Pooled
<1>7. Seen' = <<>> /\ Waved' = {}
  BY <1>1, <1>2 DEF Seen, Waved
<1> QED
  BY <1>1, <1>2, <1>6, <1>7 DEF IInv, Budget!NewSession, Seen, Waved

LEMMA ClickSteps ==
    ASSUME IInv, NEW id \in Ids, ClickDismiss(id)
    PROVE  IInv' /\ \E i \in DOMAIN Seen : Budget!Dismiss(i)
<1>1. /\ now' = now /\ now \in Nat /\ saved' = saved /\ saved \in Nat
      /\ screen' = screen /\ down' = down \cup {id} /\ ranker' = ranker /\ stored' = stored
      /\ inbox \in Seq(Message(down)) /\ Fine(ranker, stored)
      /\ Deliver(<<[type |-> "dismiss", n |-> id]>>)
  BY DEF ClickDismiss, IInv, talk, table
<1>2. PICK i \in DOMAIN screen : screen[i].id = id
  BY DEF ClickDismiss
<1>3. inbox' \in Seq(Message(down'))
  <2>1. inbox \in Seq(Message(down'))
    BY <1>1, Widens
  <2>2. [type |-> "dismiss", n |-> id] \in Message(down')
    BY <1>1 DEF Message
  <2>3. <<[type |-> "dismiss", n |-> id]>> \in Seq(Message(down'))
    BY <2>2, One
  <2> QED
    BY <1>1, <2>1, <2>3, Delivered
<1>4. Marked(stored)'
  BY <1>1, <1>2 DEF Fine, Marked, OnScreen
<1>5. OnScreen(stored)'
  BY <1>1 DEF Fine, OnScreen
<1>6. Cautious(ranker)'
  BY <1>1 DEF Fine, Cautious
<1>7. Fine(ranker, stored)'
  BY <1>1, <1>4, <1>5, <1>6 DEF Fine
<1>8. Seen' = Seen /\ Waved' = Waved \cup {i}
  BY <1>1, <1>2 DEF Seen, Waved, Fine, OnScreen
<1>9. i \in DOMAIN Seen
  BY <1>2 DEF Seen
<1>10. Budget!Dismiss(i)
  BY <1>1, <1>8, <1>9 DEF Budget!Dismiss, Seen, Waved
<1> QED
  BY <1>1, <1>3, <1>7, <1>9, <1>10 DEF IInv

----------------------------------------------------------------------------
LEMMA InitIInv == Init => IInv /\ Budget!Init
<1> SUFFICES ASSUME Init PROVE IInv /\ Budget!Init
  OBVIOUS
<1>1. <<>> \in Seq(Card) /\ DOMAIN <<>> = {} /\ Len(<<>>) = 0
      /\ <<>> \in Seq(Message(down)) /\ <<>> \in Seq({"no", "declined", "shown"})
  BY EmptySeq
<1>2. DOMAIN Empty = Fields /\ Empty.pool = {} /\ Empty.shown = <<>>
  BY DEF Empty, Fields
<1>3. Fine(ranker, stored)
  BY <1>1, <1>2 DEF Init, Fine, Rows, Pooled, OnScreen, Marked, Cautious
<1>4. Seen = <<>> /\ Waved = {}
  BY <1>1 DEF Init, Seen, Waved
<1> QED
  BY <1>1, <1>3, <1>4 DEF Init, IInv, Budget!Init, Seen, Waved

LEMMA StepIInv == IInv /\ [Next]_vars => IInv' /\ [Budget!Next]_(Budget!vars)
<1> SUFFICES ASSUME IInv, [Next]_vars PROVE IInv' /\ [Budget!Next]_(Budget!vars)
  OBVIOUS
<1> DEFINE Goal == IInv' /\ [Budget!Next]_(Budget!vars)
<1>1. ASSUME Still PROVE [Budget!Next]_(Budget!vars)
  BY <1>1 DEF Still, Budget!vars
<1>2. ASSUME Steps PROVE [Budget!Next]_(Budget!vars)
  BY <1>1, <1>2 DEF Steps, Budget!Next
<1>3. CASE SaveLine \/ PublishLine \/ CallMoves \/ SlowAnswers
  BY <1>1, <1>3, DeliverySteps
<1>4. CASE Supervisor
  <2>1. CASE Subscribe
    BY <2>1, SubscribeSteps DEF Budget!Next
  <2>2. CASE Attach \/ \E flaps \in BOOLEAN : Finish(flaps)
    BY <1>1, <2>2, DeliverySteps
  <2> QED
    BY <1>4, <2>1, <2>2 DEF Supervisor
<1>5. CASE Takings
  <2>1. CASE TakeDismiss
    BY <1>1, <2>1, TakeDismissSteps
  <2>2. ASSUME NEW works \in BOOLEAN, Thread(works) PROVE Goal
    <3>1. CASE TakeLine(works)
      BY <1>2, <3>1, TakeLineSteps
    <3>2. CASE TakeSlow(works)
      BY <1>2, <3>2, TakeSlowSteps
    <3>3. CASE TakeEnded(works)
      BY <1>1, <3>3, TakeEndedSteps
    <3>4. CASE Tick(works)
      BY <1>2, <3>4, TickSteps
    <3> QED
      BY <2>2, <3>1, <3>2, <3>3, <3>4 DEF Thread
  <2> QED
    BY <1>5, <2>1, <2>2 DEF Takings
<1>6. CASE Pass
  BY <1>6, PassSteps DEF Budget!Next
<1>7. ASSUME NEW id \in Ids, ClickDismiss(id) PROVE Goal
  BY <1>7, ClickSteps DEF Budget!Next, Seen
<1>8. CASE UNCHANGED vars
  <2>1. Still /\ UNCHANGED <<ranker, stored, saved, inbox>>
    BY <1>8 DEF vars, Still, talk, table
  <2>2. IInv'
    BY <2>1, Stands DEF IInv, Still
  <2> QED
    BY <1>1, <2>1, <2>2
<1> QED
  BY <1>3, <1>4, <1>5, <1>6, <1>7, <1>8 DEF Next

(* What the ranker believes stays cautious: whatever fails or is late, it  *)
(* never takes the screen to be freer than it is.                          *)
THEOREM StaysCautious == Spec => []IInv
<1>1. Init => IInv
  BY InitIInv
<1>2. IInv /\ [Next]_vars => IInv'
  BY StepIInv
<1> QED
  BY <1>1, <1>2, PTL DEF Spec

(* The coach implements the budget the configuration promises (engine.py   *)
(* _rank and _dismiss, ranker.py select): every change of the screen is a  *)
(* step NudgeBudget allows, through failing writes, late dismissals, an    *)
(* overflowing queue and engines that come and go.                         *)
THEOREM BudgetIsKept == Spec => KeepsBudget
<1>1. Init => Budget!Init
  BY InitIInv
<1>2. IInv /\ [Next]_vars => [Budget!Next]_(Budget!vars)
  BY StepIInv
<1>3. Spec => []IInv
  BY StaysCautious
<1>4. Spec => Budget!Spec
  BY <1>1, <1>2, <1>3, PTL DEF Spec, Budget!Spec
<1> QED
  BY <1>4 DEF KeepsBudget

----------------------------------------------------------------------------
(* Every candidate has its row, and no nudge goes up that is moot.          *)

Slots == [Asking -> [asks : Nat, rank : Nat]]

(* What waits has no word yet, and what has none waits or was lost.        *)
Told(pool, rows, gone) ==
    /\ \A c \in pool : rows[c.id] = "no"
    /\ \A i \in DOMAIN rows : rows[i] = "no" => i \in IdsOf(pool) \cup gone

(* A candidate is compared with no more than its evidence was taken from.  *)
Weighed(c) ==
    /\ {c.from.asks, c.from.rank, c.seen.asks, c.seen.rank} \subseteq Nat
    /\ c.seen.asks <= c.from.asks
    /\ c.source = "fast" => c.seen.rank <= c.from.rank

KInv ==
    /\ slot \in Slots
    /\ slow \in [at : {"idle", "running", "posted"}, n : Nat, t : Nat, slot : Slots]
    /\ \A c \in ranker.pool : Weighed(c)
    /\ NeverMoot
    /\ Told(ranker.pool, stored, lost)
    /\ engine # "running" => ranker.pool = {}

(* Rows written for those who leave the pool.                              *)
LEMMA WriteTells ==
    ASSUME NEW pool, NEW rows, NEW gone, NEW cs, cs \subseteq pool,
           NEW as \in {"declined", "shown"},
           Rows(rows), Pooled(pool, rows), Told(pool, rows, gone)
    PROVE  Told(pool \ cs, Write(cs, as, rows), gone)
<1> DEFINE r == Write(cs, as, rows)
<1>0. as \in {"no", "declined", "shown"} /\ as # "no"
  OBVIOUS
<1>1. /\ DOMAIN r = DOMAIN rows
      /\ \A i \in DOMAIN rows : r[i] = IF i \in IdsOf(cs) THEN as ELSE rows[i]
  <2>1. CASE as = "declined"
    BY <2>1, WriteRows
  <2>2. CASE as = "shown"
    BY <2>2, WriteRows
  <2> QED
    BY <2>1, <2>2
<1> HIDE DEF r
<1>2. ASSUME NEW c \in pool \ cs PROVE r[c.id] = "no"
  <2>1. c.id \in DOMAIN rows /\ c.id \notin IdsOf(cs) /\ rows[c.id] = "no"
    BY <1>2 DEF IdsOf, Pooled, Told
  <2> QED
    BY <1>1, <2>1
<1>3. ASSUME NEW i \in DOMAIN rows, r[i] = "no" PROVE i \in IdsOf(pool \ cs) \cup gone
  <2>1. i \notin IdsOf(cs) /\ rows[i] = "no"
    BY <1>0, <1>1, <1>3
  <2> QED
    BY <2>1 DEF Told, IdsOf
<1> QED
  BY <1>1, <1>2, <1>3 DEF Told, r

(* Who leaves without a row is lost.                                       *)
LEMMA LossTells ==
    ASSUME NEW pool, NEW less, NEW rows, NEW gone, NEW more, less \subseteq pool,
           IdsOf(pool) \ IdsOf(less) \subseteq more, gone \subseteq more, Told(pool, rows, gone)
    PROVE  Told(less, rows, more)
BY DEF Told

(* A new candidate without a word waits.                                   *)
LEMMA NewTells ==
    ASSUME NEW pool, NEW rows, NEW gone, NEW c, c.id = Len(rows) + 1, Rows(rows),
           Pooled(pool, rows), Told(pool, rows, gone)
    PROVE  Told(pool \cup {c}, Append(rows, "no"), gone)
<1> DEFINE r == Append(rows, "no")
<1>1. /\ DOMAIN rows = 1..Len(rows) /\ DOMAIN r = 1..Len(rows) + 1 /\ Len(rows) \in Nat
      /\ (\A i \in DOMAIN rows : r[i] = rows[i]) /\ r[Len(rows) + 1] = "no"
  BY AppendProperties DEF Rows
<1> HIDE DEF r
<1>2. \A i \in DOMAIN r : i \in DOMAIN rows \/ i = c.id
  BY <1>1
<1>3. \A d \in pool : r[d.id] = "no"
  BY <1>1 DEF Pooled, Told
<1>4. ASSUME NEW i \in DOMAIN r, r[i] = "no" PROVE i \in IdsOf(pool \cup {c}) \cup gone
  <2>1. CASE i \in DOMAIN rows
    BY <1>1, <1>4, <2>1 DEF Told, IdsOf
  <2>2. CASE i = c.id
    BY <2>2 DEF IdsOf
  <2> QED
    BY <1>2, <2>1, <2>2
<1> QED
  BY <1>1, <1>3, <1>4 DEF Told, r

(* A row that is declined as it is written concerns nobody who waits.      *)
LEMMA DeclinedTells ==
    ASSUME NEW pool, NEW rows, NEW gone, Rows(rows),
           Pooled(pool, rows), Told(pool, rows, gone)
    PROVE  Told(pool, Append(rows, "declined"), gone)
<1> DEFINE r == Append(rows, "declined")
<1>1. /\ DOMAIN rows = 1..Len(rows) /\ DOMAIN r = 1..Len(rows) + 1 /\ Len(rows) \in Nat
      /\ (\A i \in DOMAIN rows : r[i] = rows[i]) /\ r[Len(rows) + 1] = "declined"
  BY AppendProperties DEF Rows
<1> HIDE DEF r
<1>2. \A i \in DOMAIN r : r[i] = "no" => i \in DOMAIN rows
  BY <1>1
<1>3. Told(pool, r, gone)
  BY <1>1, <1>2 DEF Pooled, Told
<1> QED
  BY <1>3 DEF r

----------------------------------------------------------------------------
LEMMA KnownFacts ==
    ASSUME NEW s \in Slots, NEW t
    PROVE  Known(t, s).asks \in Nat /\ Known(t, s).rank \in Nat
BY DEF Known, Slots

(* Who is not resolved is not moot.                                        *)
LEMMA NotMoot ==
    ASSUME NEW w, Weighed(w), slot' \in Slots, ~Resolved(w, slot')
    PROVE  ~Shown(w).asked /\ (Shown(w).source = "fast" => ~Shown(w).learned)
<1> DEFINE known == Known(w.trigger, slot')
<1>1. known.asks \in Nat /\ known.rank \in Nat
  BY KnownFacts
<1>2. CASE w.trigger \in Asking
  <2>1. known = slot'[w.trigger]
    BY <1>2 DEF Known
  <2>2. ~(known.asks > w.seen.asks) /\ ~(known.rank > w.seen.rank)
    BY <1>2, <2>1 DEF Resolved
  <2> HIDE DEF known
  <2>3. ~(known.asks > w.from.asks) /\ (w.source = "fast" => ~(known.rank > w.from.rank))
    BY <1>1, <2>2 DEF Weighed
  <2> QED
    BY <2>3 DEF Shown, known
<1>3. CASE w.trigger \notin Asking
  <2>1. known.asks = 0 /\ known.rank = 0
    BY <1>3 DEF Known
  <2> HIDE DEF known
  <2>2. ~(known.asks > w.from.asks) /\ ~(known.rank > w.from.rank)
    BY <2>1 DEF Weighed
  <2> QED
    BY <2>2 DEF Shown, known
<1> QED
  BY <1>2, <1>3

LEMMA AppendsNotMoot ==
    ASSUME NEW w, screen \in Seq(Card), Shown(w) \in Card, screen' = Append(screen, Shown(w)),
           NeverMoot, ~Shown(w).asked, Shown(w).source = "fast" => ~Shown(w).learned
    PROVE  NeverMoot'
<1>1. /\ DOMAIN screen = 1..Len(screen) /\ Len(screen) \in Nat
      /\ DOMAIN screen' = 1..Len(screen) + 1
      /\ \A i \in DOMAIN screen : screen'[i] = screen[i]
      /\ screen'[Len(screen) + 1] = Shown(w)
  BY AppendProperties
<1>2. \A i \in DOMAIN screen' : i \in DOMAIN screen \/ i = Len(screen) + 1
  BY <1>1
<1> QED
  BY <1>1, <1>2 DEF NeverMoot

LEMMA RankKeeps ==
    ASSUME NEW k, NEW rows, NEW works, Fine(k, rows), now \in Nat, slot' \in Slots,
           Told(k.pool, rows, lost), \A c \in k.pool : Weighed(c), NeverMoot,
           Rank(k, rows, works)
    PROVE  /\ Told(ranker.pool, stored, lost)' /\ NeverMoot'
           /\ \A c \in ranker'.pool : Weighed(c)
<1>1. PICK again, low : LET j    == Judged(k, low, again)
                            kept == Write(j.retired, "declined", rows)
         IN  \/ /\ j.good = {} /\ (works \/ j.retired = {})
                /\ ranker' = j.rest /\ stored' = kept
                /\ UNCHANGED <<lost, screen>>
             \/ /\ ~works /\ j.retired # {}
                /\ ranker' \in IF j.good = {} THEN {j.rest} ELSE {Spent(j.rest, w) : w \in j.good}
                /\ lost' = lost \cup IdsOf(j.retired) \cup (IdsOf(j.rest.pool) \ IdsOf(ranker'.pool))
                /\ stored' = rows /\ UNCHANGED screen
             \/ /\ ~works /\ j.retired = {}
                /\ \E w \in j.good : ranker' = Unshown(j.rest, w)
                /\ stored' = rows /\ UNCHANGED <<lost, screen>>
             \/ /\ works
                /\ \E w \in j.good : /\ ranker' = Spent(j.rest, w)
                                     /\ screen' = Append(screen, Shown(w))
                                     /\ stored' = Write({w}, "shown", kept)
                /\ UNCHANGED lost
  BY DEF Rank
<1> DEFINE j == Judged(k, low, again)
           kept == Write(j.retired, "declined", rows)
<1>2. DOMAIN k = Fields /\ Len(k.shown) \in Nat
  BY DEF Fine, Cautious
<1>3. /\ j.retired \subseteq k.pool /\ j.good \subseteq k.pool \ j.retired
      /\ DOMAIN j.rest = Fields /\ j.rest.pool = k.pool \ j.retired
      /\ \A c \in j.good : ~Resolved(c, slot')
  BY <1>2, JudgedFacts
<1>4. Rows(kept) /\ Pooled(j.rest.pool, kept) /\ Told(j.rest.pool, kept, lost)
  <2>1. Rows(kept) /\ Pooled(k.pool, kept)
    BY <1>3, Retired DEF Fine
  <2>2. Told(k.pool \ j.retired, kept, lost)
    BY <1>3, WriteTells DEF Fine
  <2> QED
    BY <1>3, <2>1, <2>2 DEF Pooled
<1> HIDE DEF j, kept
<1>5. ASSUME UNCHANGED screen PROVE NeverMoot'
  BY <1>5 DEF NeverMoot
<1>6. CASE ranker' = j.rest /\ stored' = kept /\ UNCHANGED <<lost, screen>>
  BY <1>3, <1>4, <1>5, <1>6
<1>7. CASE /\ ranker' \in IF j.good = {} THEN {j.rest} ELSE {Spent(j.rest, w) : w \in j.good}
           /\ lost' = lost \cup IdsOf(j.retired) \cup (IdsOf(j.rest.pool) \ IdsOf(ranker'.pool))
           /\ stored' = rows /\ UNCHANGED screen
  <2>1. ranker'.pool \subseteq j.rest.pool
    <3>1. ranker' = j.rest \/ \E w \in j.good : ranker' = Spent(j.rest, w)
      BY <1>7
    <3> QED
      BY <3>1 DEF Spent
  <2>2. IdsOf(k.pool) \subseteq IdsOf(j.retired) \cup IdsOf(j.rest.pool)
    BY <1>3 DEF IdsOf
  <2>3. Told(ranker'.pool, rows, lost')
    <3>1. IdsOf(k.pool) \ IdsOf(ranker'.pool) \subseteq lost' /\ lost \subseteq lost'
      BY <1>7, <2>2
    <3>2. ranker'.pool \subseteq k.pool
      BY <1>3, <2>1
    <3> QED
      BY <3>1, <3>2, LossTells
  <2> QED
    BY <1>3, <1>5, <1>7, <2>1, <2>3
<1>8. CASE /\ j.retired = {} /\ \E w \in j.good : ranker' = Unshown(j.rest, w)
           /\ stored' = rows /\ UNCHANGED <<lost, screen>>
  <2>1. ranker'.pool = k.pool
    BY <1>3, <1>8 DEF Unshown
  <2> QED
    BY <1>5, <1>8, <2>1
<1>9. CASE /\ \E w \in j.good : /\ ranker' = Spent(j.rest, w)
                                /\ screen' = Append(screen, Shown(w))
                                /\ stored' = Write({w}, "shown", kept)
           /\ UNCHANGED lost
  <2>1. PICK w \in j.good : /\ ranker' = Spent(j.rest, w) /\ screen' = Append(screen, Shown(w))
                            /\ stored' = Write({w}, "shown", kept)
    BY <1>9
  <2>2. w \in j.rest.pool /\ w \in k.pool /\ Weighed(w) /\ ~Resolved(w, slot')
    BY <1>3
  <2>3. ranker'.pool = j.rest.pool \ {w}
    BY <2>1 DEF Spent
  <2>4. Told(ranker'.pool, stored', lost)
    <3>1. {w} \subseteq j.rest.pool
      BY <2>2
    <3>2. Told(j.rest.pool \ {w}, Write({w}, "shown", kept), lost)
      BY <1>4, <3>1, WriteTells
    <3> QED
      BY <2>1, <2>3, <3>2
  <2>5. w.id \in Nat /\ w.trigger \in Triggers /\ w.source \in Sources
    BY <2>2 DEF Fine, Pooled, Rows
  <2>6. Shown(w) \in Card
    BY <2>5, CardOfShown
  <2>7. NeverMoot'
    BY <2>1, <2>2, <2>6, NotMoot, AppendsNotMoot DEF Fine, OnScreen
  <2> QED
    BY <1>3, <1>9, <2>3, <2>4, <2>7
<1> QED
  BY <1>1, <1>6, <1>7, <1>8, <1>9 DEF j, kept

LEMMA ConsiderKeeps ==
    ASSUME NEW cs, NEW works, New(cs), \A c \in cs : Weighed(c), Fine(ranker, stored), now \in Nat,
           slot' \in Slots, KInv, Consider(cs, works)
    PROVE  /\ Told(ranker.pool, stored, lost)' /\ NeverMoot'
           /\ \A c \in ranker'.pool : Weighed(c)
<1>1. CASE cs = {}
  BY <1>1, RankKeeps DEF Consider, KInv
<1>2. CASE cs # {}
  <2>1. PICK c \in cs, stronger \in BOOLEAN :
             LET o    == Offer(ranker, c, stronger)
                 rows == Append(stored, "no")
             IN  IF o.retired # {} /\ ~works
                 THEN /\ ranker' = o.pool /\ stored' = rows /\ UNCHANGED screen
                      /\ lost' = lost \cup IdsOf(o.retired)
                 ELSE Rank(o.pool, Write(o.retired, "declined", rows), works)
    BY <1>2 DEF Consider
  <2> DEFINE cur == {d \in ranker.pool : d.trigger = c.trigger}
             all == ranker.pool \cup {c}
             o == Offer(ranker, c, stronger)
             k == o.pool
             rows == Append(stored, "no")
  <2>2. \/ k = [ranker EXCEPT !.pool = (@ \ cur) \cup {c}] /\ o.retired = cur
        \/ k = ranker /\ o.retired = {c}
    BY DEF Offer
  <2>3. Fine(ranker, rows) /\ c.id \in DOMAIN rows /\ rows[c.id] # "shown"
        /\ \A d \in ranker.pool : d.id # c.id
    BY Added DEF New
  <2>4. Told(all, rows, lost)
    BY NewTells DEF New, Fine, KInv
  <2> HIDE DEF rows
  <2>5. DOMAIN ranker = Fields
    BY DEF Fine, Cautious
  <2>6. /\ k.pool = all \ o.retired /\ o.retired \subseteq all
        /\ DOMAIN k = Fields /\ k.shown = ranker.shown /\ k.up = ranker.up
    BY <2>2, <2>3, <2>5 DEF Fields
  <2> HIDE DEF k, o
  <2>7. Pooled(all, rows) /\ \A d \in all : Weighed(d)
    BY <2>3 DEF Fine, Pooled, New, KInv
  <2>8. Cautious(k)
    BY <2>3, <2>6 DEF Fine, Cautious
  <2>9. CASE /\ ranker' = k /\ stored' = rows /\ UNCHANGED screen
             /\ lost' = lost \cup IdsOf(o.retired)
    <3>1. IdsOf(all) \ IdsOf(k.pool) \subseteq lost' /\ lost \subseteq lost'
      BY <2>6, <2>9 DEF IdsOf
    <3>2. Told(k.pool, rows, lost')
      BY <2>4, <2>6, <3>1, LossTells, SMTT(30)
    <3>3. NeverMoot'
      BY <2>9 DEF KInv, NeverMoot
    <3> QED
      BY <2>6, <2>7, <2>9, <3>2, <3>3
  <2>10. CASE Rank(k, Write(o.retired, "declined", rows), works)
    <3> DEFINE kept == Write(o.retired, "declined", rows)
    <3>1. Rows(kept) /\ Pooled(all, kept) /\ OnScreen(kept) /\ Marked(kept)
      BY <2>3, <2>6, <2>7, Retired DEF Fine
    <3>2. Told(k.pool, kept, lost)
      BY <2>3, <2>4, <2>6, <2>7, WriteTells DEF Fine
    <3> HIDE DEF kept
    <3>3. Fine(k, kept)
      BY <2>6, <2>8, <3>1 DEF Fine, Pooled
    <3>4. \A d \in k.pool : Weighed(d)
      BY <2>6, <2>7
    <3> QED
      BY <2>10, <3>2, <3>3, <3>4, RankKeeps DEF kept, KInv
  <2> QED
    BY <2>1, <2>9, <2>10 DEF k, o, rows
<1> QED
  BY <1>1, <1>2

----------------------------------------------------------------------------
(* One lemma an action, or one for the actions that leave all this alone.  *)
LEMMA KeepsWhenStill ==
    ASSUME KInv, UNCHANGED <<slot, screen, stored, lost>>, ranker'.pool = ranker.pool,
           slow' = slow \/ \E at \in {"idle", "running", "posted"} : slow' = [slow EXCEPT !.at = at],
           engine' \in {engine, "running"}
    PROVE  KInv'
<1>1. slow' \in [at : {"idle", "running", "posted"}, n : Nat, t : Nat, slot : Slots]
  BY DEF KInv
<1> QED
  BY <1>1 DEF KInv, NeverMoot, Told, Weighed, Slots

LEMMA KeepsOutside ==
    ASSUME IInv, KInv,
           \/ SaveLine \/ PublishLine \/ CallMoves \/ Pass \/ Attach \/ SlowAnswers \/ TakeDismiss
           \/ \E flaps \in BOOLEAN : Finish(flaps)
           \/ \E id \in Ids : ClickDismiss(id)
    PROVE  KInv'
<1>1. CASE TakeDismiss
  <2>1. ranker'.pool = ranker.pool
    BY <1>1 DEF TakeDismiss, IInv, Fine, Cautious, Fields
  <2> QED
    BY <1>1, <2>1, KeepsWhenStill DEF TakeDismiss, table
<1>2. CASE SlowAnswers
  <2>1. slow' = [slow EXCEPT !.at = "posted"]
    BY <1>2 DEF SlowAnswers
  <2> QED
    BY <1>2, <2>1, KeepsWhenStill DEF SlowAnswers, table, session
<1>3. CASE SaveLine \/ PublishLine \/ CallMoves \/ Pass
  BY <1>3, KeepsWhenStill DEF SaveLine, PublishLine, CallMoves, Pass, table, session
<1>4. CASE Attach
  BY <1>4, KeepsWhenStill DEF Attach, table
<1>5. CASE \E flaps \in BOOLEAN : Finish(flaps)
  BY <1>5, KeepsWhenStill DEF Finish, table
<1>6. CASE \E id \in Ids : ClickDismiss(id)
  BY <1>6, KeepsWhenStill DEF ClickDismiss, table, session
<1> QED
  BY <1>1, <1>2, <1>3, <1>4, <1>5, <1>6

LEMMA BlankSlots == Blank \in Slots
BY DEF Blank, Slots

LEMMA FilledSlots == ASSUME NEW s \in Slots, NEW f \in Filled(s) PROVE f \in Slots
<1>1. \/ f = s
      \/ \E a \in Asking : f = [s EXCEPT ![a].asks = @ + 1]
      \/ \E a \in Asking : f = [s EXCEPT ![a].rank = 1]
  BY DEF Filled
<1>2. ASSUME NEW a \in Asking, f = [s EXCEPT ![a].asks = @ + 1] PROVE f \in Slots
  <2>1. [s[a] EXCEPT !.asks = @ + 1] \in [asks : Nat, rank : Nat]
    BY DEF Slots
  <2> QED
    BY <1>2, <2>1 DEF Slots
<1>3. ASSUME NEW a \in Asking, f = [s EXCEPT ![a].rank = 1] PROVE f \in Slots
  <2>1. [s[a] EXCEPT !.rank = 1] \in [asks : Nat, rank : Nat]
    BY DEF Slots
  <2> QED
    BY <1>3, <2>1 DEF Slots
<1> QED
  BY <1>1, <1>2, <1>3

LEMMA CandidateWeighed ==
    ASSUME NEW from \in Slots, NEW seen \in Slots, NEW t, NEW at, NEW source
    PROVE  LET c == Candidate(t, at, from, seen, source) IN
           /\ {c.from.asks, c.from.rank, c.seen.asks, c.seen.rank} \subseteq Nat
           /\ c.source = source /\ (from = seen => Weighed(c))
<1> DEFINE c == Candidate(t, at, from, seen, source)
<1>1. c.from = Known(t, from) /\ c.seen = Known(t, seen) /\ c.source = source
  BY DEF Candidate
<1> HIDE DEF c
<1>2. {c.from.asks, c.from.rank, c.seen.asks, c.seen.rank} \subseteq Nat
  BY <1>1, KnownFacts
<1>3. from = seen => Weighed(c)
  BY <1>1, <1>2 DEF Weighed
<1> QED
  BY <1>1, <1>2, <1>3 DEF c

LEMMA TakeLineKeeps ==
    ASSUME IInv, KInv, NEW works \in BOOLEAN, TakeLine(works) PROVE KInv'
<1>1. /\ engine = "running" /\ engine' = engine /\ now' = now /\ now \in Nat
      /\ Fine(ranker, stored)
  BY DEF TakeLine, Takes, Quiet, IInv
<1>2. CASE Head(inbox).n \in heard
  BY <1>1, <1>2, KeepsWhenStill DEF TakeLine, table
<1>3. CASE Head(inbox).n \notin heard
  <2>1. PICK cs \in Raises(slot', "fast") : Consider(cs, works)
    BY <1>3 DEF TakeLine
  <2>2. slot' \in Slots
    BY <1>3, FilledSlots DEF TakeLine, KInv
  <2>3. New(cs) /\ \A c \in cs : Weighed(c)
    BY <2>1, <2>2, CandidateWeighed DEF Raises, New, Candidate, Sources
  <2>4. /\ Told(ranker.pool, stored, lost)' /\ NeverMoot'
        /\ \A c \in ranker'.pool : Weighed(c)
    BY <1>1, <2>1, <2>2, <2>3, ConsiderKeeps
  <2>5. slow' \in [at : {"idle", "running", "posted"}, n : Nat, t : Nat, slot : Slots]
    BY <1>1, <1>3, <2>2 DEF TakeLine, MaybeSlow, KInv
  <2> QED
    BY <1>1, <2>2, <2>4, <2>5 DEF KInv, Weighed
<1> QED
  BY <1>2, <1>3

LEMMA TickKeeps ==
    ASSUME IInv, KInv, NEW works \in BOOLEAN, Tick(works) PROVE KInv'
<1>1. /\ engine = "running" /\ engine' = engine /\ now \in Nat /\ slot' = slot /\ slow' = slow
      /\ Fine(ranker, stored) /\ Consider({}, works) /\ slot' \in Slots
  BY DEF Tick, IInv, KInv
<1>2. New({}) /\ \A c \in {} : Weighed(c)
  BY DEF New
<1>3. /\ Told(ranker.pool, stored, lost)' /\ NeverMoot'
      /\ \A c \in ranker'.pool : Weighed(c)
  BY <1>1, <1>2, ConsiderKeeps
<1> QED
  BY <1>1, <1>3 DEF KInv, Weighed

(* The pass's answer is about what was known when it began, and is only    *)
(* kept when ME has not asked since.                                       *)
LEMMA TakeSlowKeeps ==
    ASSUME IInv, KInv, NEW works \in BOOLEAN, TakeSlow(works) PROVE KInv'
<1>1. /\ engine = "running" /\ engine' = engine /\ now \in Nat /\ slot' = slot
      /\ Fine(ranker, stored) /\ slot' \in Slots /\ slow.slot \in Slots
      /\ slow' = [slow EXCEPT !.at = "idle"]
  BY DEF TakeSlow, Takes, IInv, KInv
<1>2. Head(inbox).n \in Triggers
  <2>1. Head(inbox) \in Message(down) /\ Head(inbox).type = "slow"
    BY Taken DEF TakeSlow, IInv
  <2> QED
    BY <2>1 DEF Message
<1> DEFINE c == Candidate(Head(inbox).n, slow.t, slow.slot, slot, "slow")
<1>3. c.id = Len(stored) + 1 /\ c.trigger \in Triggers /\ c.source \in Sources
  BY <1>2 DEF Candidate, Sources
<1>4. /\ {c.from.asks, c.from.rank, c.seen.asks, c.seen.rank} \subseteq Nat
      /\ c.source = "slow"
  BY <1>1, CandidateWeighed
<1>5. \/ Consider({}, works)
      \/ Rank(ranker, Append(stored, "declined"), works)
      \/ stored' = Append(stored, "no") /\ lost' = lost \cup {c.id} /\ UNCHANGED <<ranker, screen>>
      \/ ~AskedMeanwhile(c) /\ Consider({c}, works)
  BY DEF TakeSlow
<1> HIDE DEF c
<1>6. ~AskedMeanwhile(c) => Weighed(c)
  BY <1>4 DEF AskedMeanwhile, Weighed
<1>7. New({}) /\ New({c}) /\ \A d \in {} : Weighed(d)
  BY <1>3 DEF New
<1>8. /\ Told(ranker.pool, stored, lost)' /\ NeverMoot'
      /\ \A d \in ranker'.pool : Weighed(d)
  <2>1. CASE Consider({}, works)
    BY <1>1, <1>7, <2>1, ConsiderKeeps
  <2>2. CASE ~AskedMeanwhile(c) /\ Consider({c}, works)
    BY <1>1, <1>6, <1>7, <2>2, ConsiderKeeps
  <2>3. CASE Rank(ranker, Append(stored, "declined"), works)
    <3>1. Told(ranker.pool, Append(stored, "declined"), lost)
      BY <1>1, DeclinedTells DEF Fine, KInv
    <3>2. Fine(ranker, Append(stored, "declined"))
      BY <1>1, Added
    <3> QED
      BY <1>1, <2>3, <3>1, <3>2, RankKeeps DEF KInv
  <2>4. CASE /\ stored' = Append(stored, "no") /\ lost' = lost \cup {c.id}
             /\ UNCHANGED <<ranker, screen>>
    <3>1. Told(ranker.pool \cup {c}, stored', lost)
      BY <1>1, <1>3, <2>4, NewTells DEF Fine, KInv
    <3>2. IdsOf(ranker.pool \cup {c}) \ IdsOf(ranker.pool) \subseteq lost' /\ lost \subseteq lost'
      BY <2>4 DEF IdsOf
    <3>3. Told(ranker.pool, stored', lost')
      BY <3>1, <3>2, LossTells
    <3> QED
      BY <2>4, <3>3 DEF KInv, NeverMoot
  <2> QED
    BY <1>5, <2>1, <2>2, <2>3, <2>4
<1>9. slow' \in [at : {"idle", "running", "posted"}, n : Nat, t : Nat, slot : Slots]
  BY <1>1 DEF KInv
<1> QED
  BY <1>1, <1>8, <1>9 DEF KInv, Weighed

LEMMA TakeEndedKeeps ==
    ASSUME IInv, KInv, NEW works \in BOOLEAN, TakeEnded(works) PROVE KInv'
<1>1. ranker'.pool = {} /\ UNCHANGED <<slot, screen, slow>>
  BY DEF TakeEnded, IInv, Fine, Cautious, Fields
<1>2. Told({}, stored', lost')
  <2>1. CASE works
    <3>1. Told(ranker.pool \ ranker.pool, Write(ranker.pool, "declined", stored), lost)
      BY WriteTells DEF IInv, Fine, KInv
    <3> QED
      BY <2>1, <3>1 DEF TakeEnded
  <2>2. CASE ~works
    <3>1. lost' = lost \cup IdsOf(ranker.pool) /\ stored' = stored
      BY <2>2 DEF TakeEnded
    <3> QED
      BY <3>1, LossTells DEF KInv
  <2> QED
    BY <2>1, <2>2
<1> QED
  BY <1>1, <1>2 DEF KInv, NeverMoot

(* A new session starts with nothing that waits: the one before it, if     *)
(* there was one, has finished.                                            *)
LEMMA SubscribeKeeps == ASSUME IInv, KInv, Subscribe PROVE KInv'
<1>1. /\ ranker.pool = {} /\ ranker' = Empty /\ Empty.pool = {} /\ screen' = <<>>
      /\ slot' = Blank /\ slow' = NoPass /\ stored' = stored /\ lost' = lost
  BY DEF Subscribe, KInv, Empty, table
<1>2. NoPass \in [at : {"idle", "running", "posted"}, n : Nat, t : Nat, slot : Slots]
  BY BlankSlots DEF NoPass
<1>3. NeverMoot'
  BY <1>1 DEF NeverMoot
<1> QED
  BY <1>1, <1>2, <1>3, BlankSlots DEF KInv, Told

----------------------------------------------------------------------------
(* No line is missed.                                                      *)

In(q, m) == \E j \in DOMAIN q : q[j] = m
Reached(i) == i \in heard \/ In(inbox, Line(i))

(* At most one line is stored and not yet published.                       *)
LInv == sent \in Nat /\ saved \in {sent, sent + 1} /\ NoLineMissed

LEMMA AllReached ==
    NoLineMissed <=> (engine = "running" /\ "overflow" \notin taint => \A i \in 1..sent : Reached(i))
BY DEF NoLineMissed, Reached, In

(* A queue that does not overflow keeps what it has and takes what comes.  *)
LEMMA RoomForAll ==
    ASSUME NEW W, NEW q \in Seq(W), ~(Excess(q) > 0)
    PROVE  Newest(q) = q
<1>1. Len(q) \in Nat
  OBVIOUS
<1>2. Excess(q) = 0
  BY <1>1, CoachConstants DEF Excess
<1>3. Newest(q) = SubSeq(q, 1, Len(q))
  BY <1>2 DEF Newest
<1> QED
  BY <1>3, SubSeqFull

LEMMA Joined ==
    ASSUME NEW W, NEW q \in Seq(W), NEW ms \in Seq(W), NEW m, In(q, m) \/ In(ms, m)
    PROVE  In(q \o ms, m)
<1>1. /\ q \o ms \in Seq(W) /\ DOMAIN (q \o ms) = 1..Len(q) + Len(ms)
      /\ DOMAIN q = 1..Len(q) /\ DOMAIN ms = 1..Len(ms) /\ Len(q) \in Nat /\ Len(ms) \in Nat
      /\ \A i \in 1..Len(q) + Len(ms) : (q \o ms)[i] = IF i <= Len(q) THEN q[i] ELSE ms[i - Len(q)]
  BY ConcatProperties
<1>2. CASE In(q, m)
  <2>1. PICK j \in 1..Len(q) : q[j] = m
    BY <1>1, <1>2 DEF In
  <2>2. j \in DOMAIN (q \o ms) /\ (q \o ms)[j] = m
    BY <1>1, <2>1
  <2> QED
    BY <2>2 DEF In
<1>3. CASE In(ms, m)
  <2>1. PICK j \in 1..Len(ms) : ms[j] = m
    BY <1>1, <1>3 DEF In
  <2>2. Len(q) + j \in 1..Len(q) + Len(ms) /\ ~(Len(q) + j <= Len(q)) /\ Len(q) + j - Len(q) = j
    BY <1>1, <2>1
  <2>3. Len(q) + j \in DOMAIN (q \o ms) /\ (q \o ms)[Len(q) + j] = m
    BY <1>1, <2>1, <2>2
  <2> QED
    BY <2>3 DEF In
<1> QED
  BY <1>2, <1>3

LEMMA DeliversAll ==
    ASSUME NEW W, inbox \in Seq(W), NEW ms \in Seq(W), Deliver(ms),
           engine \in {"subscribed", "running"}, "overflow" \notin taint'
    PROVE  /\ "overflow" \notin taint
           /\ \A m : In(inbox, m) \/ In(ms, m) => In(inbox', m)
<1>1. /\ inbox' = Newest(inbox \o ms)
      /\ taint' = IF Excess(inbox \o ms) > 0 THEN taint \cup {"overflow"} ELSE taint
  BY DEF Deliver
<1>2. ~(Excess(inbox \o ms) > 0) /\ "overflow" \notin taint
  BY <1>1
<1>3. inbox \o ms \in Seq(W)
  BY ConcatProperties
<1>4. inbox' = inbox \o ms
  BY <1>1, <1>2, <1>3, RoomForAll
<1> QED
  BY <1>2, <1>4, Joined

(* Nothing but the message that is taken leaves the inbox.                 *)
LEMMA TailKeeps ==
    ASSUME NEW W, NEW q \in Seq(W), q # <<>>, NEW m, In(q, m), m # Head(q)
    PROVE  In(Tail(q), m)
<1>1. /\ Tail(q) \in Seq(W) /\ Len(Tail(q)) = Len(q) - 1 /\ Len(q) \in Nat
      /\ \A i \in 1..Len(Tail(q)) : Tail(q)[i] = q[i + 1]
      /\ DOMAIN Tail(q) = 1..Len(Tail(q)) /\ DOMAIN q = 1..Len(q) /\ Head(q) = q[1]
  BY HeadTailProperties
<1>2. PICK j \in 1..Len(q) : q[j] = m
  BY <1>1 DEF In
<1>3. j # 1
  BY <1>1, <1>2
<1>4. j - 1 \in 1..Len(Tail(q)) /\ (j - 1) + 1 = j
  BY <1>1, <1>2, <1>3
<1>5. Tail(q)[j - 1] = m
  BY <1>1, <1>2, <1>4
<1> QED
  BY <1>1, <1>4, <1>5 DEF In

(* What was reached stays reached.                                         *)
LEMMA StaysReached ==
    ASSUME LInv, sent' = sent, saved' = saved,
           engine' = "running" /\ "overflow" \notin taint' =>
               /\ engine = "running" /\ "overflow" \notin taint
               /\ \A i \in 1..sent : Reached(i) => Reached(i)'
    PROVE  LInv'
<1>1. engine' = "running" /\ "overflow" \notin taint' => \A i \in 1..sent : Reached(i)'
  BY AllReached DEF LInv
<1>2. NoLineMissed'
  BY <1>1 DEF NoLineMissed, Reached, In
<1> QED
  BY <1>2 DEF LInv

LEMMA DeliveryReaches ==
    ASSUME LInv, NEW W, inbox \in Seq(W), NEW ms \in Seq(W),
           Deliver(ms) \/ UNCHANGED <<inbox, taint>>,
           engine' = engine, heard' = heard, sent' = sent, saved' = saved
    PROVE  LInv'
<1>1. ASSUME engine = "running", "overflow" \notin taint'
      PROVE  "overflow" \notin taint /\ \A m : In(inbox, m) => In(inbox', m)
  <2>1. CASE Deliver(ms)
    BY <1>1, <2>1, DeliversAll
  <2>2. CASE UNCHANGED <<inbox, taint>>
    BY <1>1, <2>2
  <2> QED
    BY <2>1, <2>2
<1>2. ASSUME engine = "running", "overflow" \notin taint', NEW i, Reached(i) PROVE Reached(i)'
  BY <1>1, <1>2 DEF Reached, Line, In
<1> QED
  BY <1>1, <1>2, StaysReached

LEMMA ReachesOutside ==
    ASSUME IInv, LInv,
           \/ CallMoves \/ Pass \/ SlowAnswers
           \/ \E id \in Ids : ClickDismiss(id)
    PROVE  LInv'
<1>1. CASE CallMoves
  <2>1. <<Ended>> \in Seq(Message(down))
    BY Line1, One
  <2>2. Deliver(<<Ended>>) \/ UNCHANGED <<inbox, taint>>
    BY <1>1 DEF CallMoves
  <2> QED
    BY <1>1, <2>1, <2>2, DeliveryReaches DEF CallMoves, session, IInv
<1>2. CASE Pass
  BY <1>2, StaysReached DEF Pass, session, talk, Reached, In, Line
<1>3. CASE SlowAnswers
  <2>1. PICK t \in Triggers : Deliver(<<[type |-> "slow", n |-> t]>>)
    BY <1>3 DEF SlowAnswers
  <2>2. [type |-> "slow", n |-> t] \in Message(down)
    BY DEF Message
  <2>3. <<[type |-> "slow", n |-> t]>> \in Seq(Message(down))
    BY <2>2, One
  <2> QED
    BY <1>3, <2>1, <2>3, DeliveryReaches DEF SlowAnswers, session, talk, IInv
<1>4. ASSUME NEW id \in Ids, ClickDismiss(id) PROVE LInv'
  <2> DEFINE ms == <<[type |-> "dismiss", n |-> id]>>
  <2>1. /\ Deliver(ms) /\ UNCHANGED <<engine, heard, sent, saved>>
    BY <1>4 DEF ClickDismiss, session, talk
  <2>2. inbox \in Seq(Message(down \cup {id})) /\ ms \in Seq(Message(down \cup {id}))
    <3>1. inbox \in Seq(Message(down \cup {id}))
      BY Widens DEF IInv
    <3>2. [type |-> "dismiss", n |-> id] \in Message(down \cup {id})
      BY DEF Message
    <3> QED
      BY <3>1, <3>2, One
  <2> HIDE DEF ms
  <2> QED
    BY <2>1, <2>2, DeliveryReaches
<1> QED
  BY <1>1, <1>2, <1>3, <1>4

LEMMA SaveLineReaches == ASSUME LInv, SaveLine PROVE LInv'
BY DEF SaveLine, LInv, NoLineMissed, session

(* The line a session was not yet attached to hear is in the backfill.     *)
LEMMA PublishLineReaches == ASSUME IInv, LInv, PublishLine PROVE LInv'
<1>1. /\ sent' = saved /\ saved' = saved /\ engine' = engine /\ heard' = heard
      /\ saved = sent + 1 /\ sent \in Nat /\ Deliver(<<Line(saved)>>)
  BY DEF PublishLine, LInv, session
<1>2. <<Line(saved)>> \in Seq(Message(down))
  BY Line1, One DEF IInv
<1>3. ASSUME engine = "running", "overflow" \notin taint'
      PROVE  \A i \in 1..saved : Reached(i)'
  <2>1. "overflow" \notin taint /\ \A m : In(inbox, m) \/ In(<<Line(saved)>>, m) => In(inbox', m)
    BY <1>1, <1>2, <1>3, DeliversAll DEF IInv
  <2>2. In(<<Line(saved)>>, Line(saved))
    BY DEF In
  <2>3. ASSUME NEW i \in 1..saved PROVE i \in heard \/ In(inbox', Line(i))
    <3>1. CASE i = saved
      BY <2>1, <2>2, <3>1
    <3>2. CASE i # saved
      <4>1. i \in 1..sent
        BY <1>1, <3>2
      <4>2. Reached(i)
        BY <1>3, <2>1, <4>1, AllReached DEF LInv
      <4> QED
        BY <2>1, <4>2 DEF Reached
    <3> QED
      BY <3>1, <3>2
  <2> QED
    BY <1>1, <2>3 DEF Reached, In, Line
<1>4. NoLineMissed'
  BY <1>1, <1>3 DEF NoLineMissed, Reached, In
<1> QED
  BY <1>1, <1>4 DEF LInv

LEMMA AttachReaches == ASSUME IInv, LInv, Attach PROVE LInv'
<1>1. /\ sent' = sent /\ saved' = saved /\ engine = "subscribed" /\ heard' = heard
      /\ saved \in {sent, sent + 1} /\ sent \in Nat /\ Deliver(Backfill)
  BY DEF Attach, LInv, talk
<1>2. Backfill \in Seq(Message(down)) /\ DOMAIN Backfill = 1..saved
      /\ \A i \in 1..saved : Backfill[i] = Line(i)
  <2>1. Backfill \in [1..saved -> Message(down)] /\ saved \in Nat
    BY Line1 DEF Backfill, IInv
  <2> QED
    BY <2>1, SequencesAre DEF Backfill
<1>3. ASSUME "overflow" \notin taint'
      PROVE  \A i \in 1..sent : Reached(i)'
  <2>1. \A m : In(inbox, m) \/ In(Backfill, m) => In(inbox', m)
    BY <1>1, <1>2, <1>3, DeliversAll DEF IInv
  <2>2. \A i \in 1..sent : i \in 1..saved
    BY <1>1
  <2>3. \A i \in 1..sent : In(inbox', Line(i))
    BY <1>2, <2>1, <2>2 DEF In
  <2> QED
    BY <2>3 DEF Reached, In, Line
<1>4. NoLineMissed'
  BY <1>1, <1>3 DEF NoLineMissed, Reached, In
<1> QED
  BY <1>1, <1>4 DEF LInv

LEMMA FinishReaches ==
    ASSUME IInv, LInv, NEW flaps \in BOOLEAN, Finish(flaps) PROVE LInv'
<1>1. UNCHANGED <<sent, saved, engine, heard>> /\ inbox \in Seq(Message(down))
  BY DEF Finish, talk, IInv
<1>2. Ended \in Message(down) /\ <<Ended>> \in Seq(Message(down))
  BY Line1, One
<1>3. ASSUME engine = "running", "overflow" \notin taint', NEW i, Reached(i) PROVE Reached(i)'
  <2>1. /\ inbox' = Newest(Append(inbox, Ended)) /\ ~(Excess(Append(inbox, Ended)) > 0)
    BY <1>3 DEF Finish
  <2>2. Append(inbox, Ended) \in Seq(Message(down)) /\ Append(inbox, Ended) = inbox \o <<Ended>>
    BY <1>1, <1>2, AppendProperties, AppendIsConcat
  <2>3. inbox' = inbox \o <<Ended>>
    BY <2>1, <2>2, RoomForAll
  <2>4. \A m : In(inbox, m) => In(inbox', m)
    BY <1>1, <1>2, <2>3, Joined
  <2> QED
    BY <1>1, <1>3, <2>4 DEF Reached, In, Line
<1>4. taint \subseteq taint'
  BY DEF Finish
<1> QED
  BY <1>1, <1>3, <1>4, StaysReached

(* The engine takes a line only into what it has heard.                    *)
LEMMA TakingsReach ==
    ASSUME IInv, LInv, TakeDismiss \/ \E works \in BOOLEAN : Thread(works) PROVE LInv'
<1>1. /\ UNCHANGED <<sent, saved, taint>> /\ engine = "running"
      /\ inbox \in Seq(Message(down))
  BY DEF Thread, TakeDismiss, TakeLine, TakeSlow, TakeEnded, Tick, Takes, Quiet, talk, IInv
<1>2. \/ inbox' = inbox /\ heard' = heard
      \/ /\ inbox # <<>> /\ inbox' = Tail(inbox) /\ heard \subseteq heard'
         /\ Head(inbox).type = "segment" => Head(inbox).n \in heard'
      \/ engine' = "final"
  BY DEF Thread, TakeDismiss, TakeLine, TakeSlow, TakeEnded, Tick, Takes
<1>3. CASE inbox' = inbox /\ heard' = heard
  BY <1>1, <1>3, StaysReached DEF Reached, In, Line
<1>4. CASE /\ inbox # <<>> /\ inbox' = Tail(inbox) /\ heard \subseteq heard'
           /\ Head(inbox).type = "segment" => Head(inbox).n \in heard'
  <2>1. ASSUME NEW i, Reached(i) PROVE Reached(i)'
    <3>1. CASE i \in heard
      BY <1>4, <3>1 DEF Reached
    <3>2. CASE In(inbox, Line(i)) /\ Line(i) # Head(inbox)
      <4>1. In(Tail(inbox), Line(i))
        BY <1>1, <1>4, <3>2, TailKeeps
      <4> QED
        BY <1>4, <4>1 DEF Reached, In, Line
    <3>3. CASE Line(i) = Head(inbox)
      <4>1. Head(inbox).type = "segment" /\ Head(inbox).n = i
        BY <3>3 DEF Line
      <4> QED
        BY <1>4, <4>1 DEF Reached
    <3> QED
      BY <2>1, <3>1, <3>2, <3>3 DEF Reached
  <2> QED
    BY <1>1, <2>1, StaysReached
<1>5. CASE engine' = "final"
  BY <1>1, <1>5, StaysReached
<1> QED
  BY <1>2, <1>3, <1>4, <1>5

----------------------------------------------------------------------------
LEMMA InitHeeds == Init => KInv /\ LInv
<1> SUFFICES ASSUME Init PROVE KInv /\ LInv
  OBVIOUS
<1>1. NoPass \in [at : {"idle", "running", "posted"}, n : Nat, t : Nat, slot : Slots]
  BY BlankSlots DEF NoPass
<1>2. DOMAIN <<>> = {} /\ Empty.pool = {}
  BY DEF Empty
<1>3. KInv
  BY <1>1, <1>2, BlankSlots DEF Init, KInv, NeverMoot, Told
<1>4. LInv
  BY DEF Init, LInv, NoLineMissed
<1> QED
  BY <1>3, <1>4

LEMMA StepHeeds == IInv /\ KInv /\ LInv /\ [Next]_vars => KInv' /\ LInv'
<1> SUFFICES ASSUME IInv, KInv, LInv, [Next]_vars PROVE KInv' /\ LInv'
  OBVIOUS
<1>1. CASE SaveLine
  BY <1>1, KeepsOutside, SaveLineReaches
<1>2. CASE PublishLine
  BY <1>2, KeepsOutside, PublishLineReaches
<1>3. CASE CallMoves \/ Pass \/ SlowAnswers \/ \E id \in Ids : ClickDismiss(id)
  BY <1>3, KeepsOutside, ReachesOutside
<1>4. CASE Supervisor
  <2>1. CASE Subscribe
    <3>1. LInv'
      BY <2>1, StaysReached DEF Subscribe, talk
    <3> QED
      BY <2>1, <3>1, SubscribeKeeps
  <2>2. CASE Attach
    BY <2>2, KeepsOutside, AttachReaches
  <2>3. CASE \E flaps \in BOOLEAN : Finish(flaps)
    BY <2>3, KeepsOutside, FinishReaches
  <2> QED
    BY <1>4, <2>1, <2>2, <2>3 DEF Supervisor
<1>5. CASE Takings
  <2>1. LInv'
    BY <1>5, TakingsReach DEF Takings
  <2>2. CASE TakeDismiss
    BY <2>1, <2>2, KeepsOutside
  <2>3. ASSUME NEW works \in BOOLEAN, Thread(works) PROVE KInv'
    BY <2>3, TakeLineKeeps, TakeSlowKeeps, TakeEndedKeeps, TickKeeps DEF Thread
  <2> QED
    BY <1>5, <2>1, <2>2, <2>3 DEF Takings
<1>6. CASE UNCHANGED vars
  <2>1. KInv'
    BY <1>6, KeepsWhenStill DEF vars, table, session
  <2>2. LInv'
    BY <1>6 DEF vars, talk, session, LInv, NoLineMissed
  <2> QED
    BY <2>1, <2>2
<1> QED
  BY <1>1, <1>2, <1>3, <1>4, <1>5, <1>6 DEF Next

LEMMA HeedsAlways == Spec => [](IInv /\ KInv /\ LInv)
<1>1. Init => IInv /\ KInv /\ LInv
  BY InitIInv, InitHeeds
<1>2. IInv /\ KInv /\ LInv /\ [Next]_vars => (IInv /\ KInv /\ LInv)'
  BY StepIInv, StepHeeds
<1> QED
  BY <1>1, <1>2, PTL DEF Spec

(* Every candidate the rules or the model raised (engine.py _offer, _rank, *)
(* _apply_slow, finalize; ranker.py) waits, or has a row that says what    *)
(* became of it, or its write failed; what the seller sees has a row       *)
(* "shown", through engines that come and go.                              *)
THEOREM CandidatesAreKept == Spec => []EveryCandidateKept
<1>1. IInv /\ KInv => EveryCandidateKept
  <2> SUFFICES ASSUME IInv, KInv PROVE EveryCandidateKept
    OBVIOUS
  <2>1. /\ Pooled(ranker.pool, stored) /\ OnScreen(stored) /\ Told(ranker.pool, stored, lost)
    BY DEF IInv, Fine, KInv
  <2>2. \A i \in DOMAIN stored : i \in IdsOf(ranker.pool) => stored[i] = "no"
    BY <2>1 DEF Told, IdsOf
  <2> QED
    BY <2>1, <2>2 DEF EveryCandidateKept, Told, OnScreen
<1> QED
  BY <1>1, HeedsAlways, PTL

(* A running engine has heard, or will hear, every line that was published *)
(* (engine.py attach, _backfill; live/hub.py), however late it attached,   *)
(* unless a queue overflowed; and no nudge goes up about what was asked    *)
(* since its evidence was taken (ranker.py _terminal, engine.py            *)
(* _apply_slow), nor a rule's about a slot that was filled.                *)
THEOREM LinesAreHeeded == Spec => []LinesHeeded
<1>1. KInv /\ LInv => LinesHeeded
  BY DEF KInv, LInv, LinesHeeded
<1> QED
  BY <1>1, HeedsAlways, PTL

----------------------------------------------------------------------------
(* Live words (LiveSpeech), for any channels, queue lengths, thresholds,   *)
(* segments and troubles.                                                  *)

SegNumbers == 1..MaxSegs
Spoken == [idx : Nat, seg : SegNumbers]
After  == {"join", "abort", "stopped"}

SpeechTyped ==
    /\ reader \in {"reads", "flushes", "done"} /\ late \in BOOLEAN
    /\ stop \in {"no", "kill", "reader", "monitor", "put"} \cup After
    /\ stop \in {"no", "kill", "reader"} => ~late
    /\ queue \in Seq(SegNumbers \cup {Stop}) /\ Len(queue) <= MaxQueue
    /\ worker \in {"waits", "busy", "done", "none"} /\ busy \in 0..MaxSegs
    /\ disabled \in BOOLEAN /\ (worker = "busy" <=> busy # 0) /\ (busy # 0 => ~disabled)
    /\ stats \in [S!Counters -> 0..MaxSegs]
    /\ nextIdx \in Nat /\ turns \in Seq(Spoken) /\ shown \in Seq(Spoken)
    /\ trouble \in 0..MaxTrouble

(* What waits has higher numbers than what was taken, and rises; what was  *)
(* shown is of earlier segments; and no more was dealt with than taken.    *)
Higher(q, low, top) == \A i \in DOMAIN q : q[i] # Stop => low < q[i] /\ q[i] <= top
Rises(q) == \A i, j \in DOMAIN q : i < j /\ q[i] # Stop /\ q[j] # Stop => q[i] < q[j]
DealtWith == stats.transcribed + stats.errors + stats.skipped + stats.abandoned
             + (IF busy = 0 THEN 0 ELSE 1) + (IF disabled THEN 1 ELSE 0)
Ordered(low) ==
    /\ low \in 0..stats.submitted /\ Higher(queue, low, stats.submitted) /\ Rises(queue)
    /\ busy <= low /\ DealtWith <= low
    /\ \A k \in DOMAIN shown : /\ shown[k].idx < nextIdx /\ shown[k].seg <= low
                               /\ busy # 0 => shown[k].seg < busy
Words == (\E low \in Nat : Ordered(low)) /\ stats.dropped <= stats.submitted /\ S!InOrder

(* A reader that was waited for submits no more, so that Stop stays at the *)
(* end of the queue until the worker takes it.                             *)
Unstopped(q) == Cardinality({i \in DOMAIN q : q[i] # Stop})
StopLast(q) == \A i \in DOMAIN q : q[i] = Stop => i = Len(q)
Settled ==
    ~late =>
        /\ stop \in {"monitor", "put"} \cup After => reader = "done"
        /\ StopLast(queue) /\ (stop \notin After => \A i \in DOMAIN queue : queue[i] # Stop)
        /\ worker = "done" => queue = <<>> /\ stop \in After
        /\ stop \in {"put", "join", "abort"} => worker # "none"
        /\ stop \in After /\ worker \in {"waits", "busy"} => queue # <<>> /\ queue[Len(queue)] = Stop
        /\ stats.submitted = DealtWith + stats.dropped + Unstopped(queue)

Levels ==
    /\ silent \in [Channels -> 0..Threshold] /\ alerted \in [Channels -> BOOLEAN]
    /\ alarms \in [Channels -> Nat] /\ S!OneAlarm

SpeechInv == SpeechTyped /\ Words /\ Settled /\ Levels

LEMMA SpeechFacts ==
  /\ MaxQueue \in Nat \ {0} /\ Threshold \in Nat \ {0} /\ MaxSegs \in Nat /\ MaxTrouble \in Nat
  /\ Stop \notin SegNumbers
  BY PartsConstants DEF S!LiveSpeechConstants, SegNumbers

LEMMA TailFacts ==
  ASSUME NEW X, NEW q \in Seq(X), q # <<>>
  PROVE  /\ Tail(q) \in Seq(X) /\ Len(q) \in Nat \ {0} /\ Len(Tail(q)) = Len(q) - 1 /\ Head(q) = q[1] /\ Head(q) \in X
         /\ DOMAIN q = 1..Len(q) /\ DOMAIN Tail(q) = 1..(Len(q) - 1)
         /\ \A i \in 1..(Len(q) - 1) : Tail(q)[i] = q[i + 1]
  OBVIOUS

LEMMA TailEnds ==
  ASSUME NEW X, NEW q \in Seq(X), q # <<>>
  PROVE  /\ Len(q) # 1 => Tail(q) # <<>> /\ Tail(q)[Len(Tail(q))] = q[Len(q)]
         /\ Len(q) = 1 => Tail(q) = <<>> /\ q[Len(q)] = Head(q)
         /\ \A i \in DOMAIN Tail(q) : /\ i + 1 \in DOMAIN q /\ 1 < i + 1 /\ Tail(q)[i] = q[i + 1]
                                      /\ i + 1 = Len(q) => i = Len(Tail(q))
<1>1. /\ Len(q) \in Nat \ {0} /\ Len(Tail(q)) = Len(q) - 1 /\ Head(q) = q[1]
      /\ DOMAIN q = 1..Len(q) /\ DOMAIN Tail(q) = 1..(Len(q) - 1)
      /\ \A i \in 1..(Len(q) - 1) : Tail(q)[i] = q[i + 1]
  BY TailFacts
<1>2. ASSUME Len(q) # 1 PROVE Tail(q) # <<>> /\ Tail(q)[Len(Tail(q))] = q[Len(q)]
  <2>1. Len(q) - 1 \in 1..(Len(q) - 1) /\ Len(q) - 1 + 1 = Len(q) /\ Len(q) - 1 # 0
    BY <1>1, <1>2
  <2>2. Tail(q)[Len(q) - 1] = q[Len(q) - 1 + 1]
    BY <1>1, <2>1
  <2>3. Tail(q) # <<>>
    BY <1>1, <2>1
  <2> QED
    BY <1>1, <2>1, <2>2, <2>3
<1>3. ASSUME Len(q) = 1 PROVE Tail(q) = <<>> /\ q[Len(q)] = Head(q)
  BY <1>1, <1>3
<1>4. \A i \in 1..(Len(q) - 1) : i + 1 \in 1..Len(q) /\ 1 < i + 1 /\ (i + 1 = Len(q) => i = Len(q) - 1)
  <2>1. \A n \in Nat : \A i \in 1..(n - 1) : i + 1 \in 1..n /\ 1 < i + 1 /\ (i + 1 = n => i = n - 1)
    OBVIOUS
  <2> QED
    BY <1>1, <2>1
<1> QED
  BY <1>1, <1>2, <1>3, <1>4

LEMMA AppendFacts ==
  ASSUME NEW X, NEW q \in Seq(X), NEW x \in X
  PROVE  /\ Append(q, x) \in Seq(X) /\ Len(q) \in Nat /\ Len(Append(q, x)) = Len(q) + 1
         /\ DOMAIN q = 1..Len(q) /\ DOMAIN Append(q, x) = 1..(Len(q) + 1)
         /\ Append(q, x)[Len(q) + 1] = x /\ \A i \in 1..Len(q) : Append(q, x)[i] = q[i]
  OBVIOUS

LEMMA UpTo == ASSUME NEW n \in Nat PROVE Cardinality(1..n) = n
<1>1. Cardinality(1..n) = IF 1 > n THEN 0 ELSE n - 1 + 1
  BY FS_Interval
<1> QED
  BY <1>1

LEMMA UnstoppedIs ==
  ASSUME NEW X, NEW q \in Seq(X), StopLast(q)
  PROVE  /\ q # <<>> /\ q[Len(q)] = Stop => Unstopped(q) = Len(q) - 1
         /\ ~(q # <<>> /\ q[Len(q)] = Stop) => Unstopped(q) = Len(q)
<1>1. DOMAIN q = 1..Len(q) /\ Len(q) \in Nat /\ (q # <<>> <=> Len(q) # 0)
  OBVIOUS
<1>2. CASE q # <<>> /\ q[Len(q)] = Stop
  <2>1. {i \in DOMAIN q : q[i] # Stop} = 1..(Len(q) - 1)
    BY <1>1, <1>2 DEF StopLast
  <2>2. Len(q) - 1 \in Nat
    BY <1>1, <1>2
  <2>3. Cardinality(1..(Len(q) - 1)) = Len(q) - 1
    BY <2>2, UpTo
  <2> QED
    BY <1>2, <2>1, <2>3 DEF Unstopped
<1>3. CASE ~(q # <<>> /\ q[Len(q)] = Stop)
  <2>1. {i \in DOMAIN q : q[i] # Stop} = 1..Len(q)
    BY <1>1, <1>3 DEF StopLast
  <2> QED
    BY <1>1, <1>3, <2>1, UpTo DEF Unstopped
<1> QED
  BY <1>2, <1>3

LEMMA SpeechInit == S!Init => SpeechInv
<1> SUFFICES ASSUME S!Init PROVE SpeechInv
  OBVIOUS
<1>1. /\ reader = "reads" /\ stop = "no" /\ queue = <<>> /\ worker \in {"waits", "none"} /\ busy = 0
      /\ disabled = FALSE /\ stats = [k \in S!Counters |-> 0] /\ nextIdx = 0 /\ turns = <<>> /\ shown = <<>>
      /\ silent = [c \in Channels |-> 0] /\ alerted = [c \in Channels |-> FALSE]
      /\ alarms = [c \in Channels |-> 0] /\ late = FALSE /\ trouble = MaxTrouble
  BY DEF S!Init, S!None
<1>2. /\ stats.transcribed = 0 /\ stats.errors = 0 /\ stats.skipped = 0 /\ stats.abandoned = 0
      /\ stats.submitted = 0 /\ stats.dropped = 0
  BY <1>1 DEF S!Counters
<1>3. SpeechTyped
  <2>1. stats \in [S!Counters -> 0..MaxSegs] /\ 0 \in 0..MaxSegs /\ MaxTrouble \in 0..MaxTrouble
    BY <1>1, SpeechFacts
  <2>2. queue \in Seq(SegNumbers \cup {Stop}) /\ Len(queue) = 0 /\ turns \in Seq(Spoken) /\ shown \in Seq(Spoken)
    BY <1>1
  <2>3. reader \in {"reads", "flushes", "done"} /\ late \in BOOLEAN /\ disabled \in BOOLEAN
        /\ stop = "no" /\ ~late
    BY <1>1
  <2>4. worker \in {"waits", "busy", "done", "none"} /\ (worker = "busy" <=> busy # 0) /\ busy = 0
    BY <1>1
  <2> QED
    BY <1>1, <2>1, <2>2, <2>3, <2>4, SpeechFacts DEF SpeechTyped
<1>4. Ordered(0)
  BY <1>1, <1>2 DEF Ordered, Higher, Rises, DealtWith
<1>5. Words
  BY <1>1, <1>2, <1>4 DEF Words, S!InOrder, S!Rising, S!ToSet
<1>6. Settled
  <2>1. queue \in Seq({}) /\ StopLast(queue) /\ Len(queue) = 0
    BY <1>1 DEF StopLast
  <2>2. Unstopped(queue) = 0
    BY <1>1, <2>1, UnstoppedIs
  <2> QED
    BY <1>1, <1>2, <2>1, <2>2 DEF Settled, DealtWith, After
<1>7. Levels
  BY <1>1, SpeechFacts DEF Levels, S!OneAlarm
<1> QED
  BY <1>3, <1>5, <1>6, <1>7 DEF SpeechInv

(* Nothing said, taken or dropped: stop() and the reader go on.            *)
LEMMA SpeechGoesOn ==
  ASSUME SpeechInv, Levels', trouble' \in 0..MaxTrouble, late' \in BOOLEAN,
         UNCHANGED <<queue, worker, busy, disabled, stats, nextIdx, turns, shown>>,
         reader' \in {"reads", "flushes", "done"},
         stop' \in {"no", "kill", "reader", "monitor", "put"} \cup After,
         stop' \in {"no", "kill", "reader"} => ~late',
         ~late' => /\ ~late
                   /\ stop' \in {"monitor", "put"} \cup After => reader' = "done"
                   /\ stop \in After => stop' \in After
                   /\ stop' \in {"put", "join", "abort"} => worker # "none"
                   /\ stop' \in After => stop \in After \/ worker = "none"
  PROVE  SpeechInv'
<1>1. SpeechTyped' /\ Words'
  BY DEF SpeechInv, SpeechTyped, Words, Ordered, Higher, Rises, DealtWith, S!InOrder, S!Rising, S!ToSet
<1>2. Settled'
  <2>1. Unstopped(queue)' = Unstopped(queue) /\ DealtWith' = DealtWith /\ (StopLast(queue)' <=> StopLast(queue))
    BY DEF Unstopped, DealtWith, StopLast
  <2> QED
    BY <2>1 DEF SpeechInv, Settled, SpeechTyped
<1> QED
  BY <1>1, <1>2 DEF SpeechInv

LEMMA SpeechControl ==
  ASSUME SpeechInv,
         S!StopIsCalled \/ S!Kills \/ S!JoinsReader \/ S!JoinsMonitor \/ S!JoinsWorker \/ S!GivesUpJoin \/ S!ReaderEnds
  PROVE  SpeechInv'
<1>1. /\ Levels /\ trouble \in 0..MaxTrouble /\ late \in BOOLEAN /\ worker \in {"waits", "busy", "done", "none"}
      /\ reader \in {"reads", "flushes", "done"}
      /\ stop \in {"no", "kill", "reader"} => ~late
      /\ ~late => /\ stop \in {"monitor", "put"} \cup After => reader = "done"
                  /\ stop \in {"put", "join", "abort"} => worker # "none"
                  /\ worker = "done" => stop \in After
  BY DEF SpeechInv, SpeechTyped, Settled
<1> USE <1>1 DEF S!At, S!Goto, S!Rest, S!Kept, S!asr, S!sink, S!levels, S!Trouble, After
<1>0. UNCHANGED <<silent, alerted, alarms>> => Levels'
  BY DEF Levels, S!OneAlarm
<1>2. CASE S!StopIsCalled
  BY <1>0, <1>2, SpeechGoesOn DEF S!StopIsCalled
<1>3. CASE S!Kills
  BY <1>0, <1>3, SpeechGoesOn DEF S!Kills
<1>4. CASE S!JoinsReader
  <2>1. /\ trouble' \in 0..MaxTrouble /\ stop' = "monitor" /\ stop = "reader" /\ Levels'
        /\ UNCHANGED <<reader, queue, worker, busy, disabled, stats, nextIdx, turns, shown>>
    BY <1>0, <1>4, SpeechFacts DEF S!JoinsReader
  <2>2. late' \in BOOLEAN /\ (~late' => reader = "done") /\ ~late
    BY <1>4 DEF S!JoinsReader
  <2> QED
    BY <2>1, <2>2, SpeechGoesOn
<1>5. CASE S!JoinsMonitor
  BY <1>0, <1>5, SpeechGoesOn DEF S!JoinsMonitor
<1>6. CASE S!JoinsWorker
  BY <1>0, <1>6, SpeechFacts, SpeechGoesOn DEF S!JoinsWorker
<1>7. CASE S!GivesUpJoin
  BY <1>0, <1>7, SpeechFacts, SpeechGoesOn DEF S!GivesUpJoin
<1>8. CASE S!ReaderEnds
  <2>1. UNCHANGED <<stop, late, queue, worker, busy, disabled, stats, nextIdx, turns, shown>> /\ Levels'
    BY <1>0, <1>8 DEF S!ReaderEnds
  <2>2. /\ reader \in {"reads", "flushes"} /\ reader' \in {"flushes", "done"}
        /\ trouble' = trouble \/ (trouble > 0 /\ trouble' = trouble - 1)
    BY <1>8 DEF S!ReaderEnds
  <2>3. trouble' \in 0..MaxTrouble
    BY <2>2, SpeechFacts
  <2>4. stop \in {"no", "kill", "reader", "monitor", "put"} \cup After
    BY DEF SpeechInv, SpeechTyped
  <2> QED
    BY <2>1, <2>2, <2>3, <2>4, SpeechGoesOn
<1> QED
  BY <1>2, <1>3, <1>4, <1>5, <1>6, <1>7, <1>8

(* The levels, the monitor and the helper.                                 *)
LEMMA SpeechBeside ==
  ASSUME SpeechInv,
         \/ \E c \in Channels : S!Hears(c)
         \/ S!Tick \/ S!CheckSilence \/ S!LooksStopping \/ S!Polls \/ S!HelperEnds \/ UNCHANGED S!vars
  PROVE  SpeechInv'
<1>1. /\ Levels /\ trouble \in 0..MaxTrouble /\ late \in BOOLEAN
      /\ reader \in {"reads", "flushes", "done"}
      /\ stop \in {"no", "kill", "reader", "monitor", "put"} \cup After
      /\ stop \in {"no", "kill", "reader"} => ~late
      /\ ~late => /\ stop \in {"monitor", "put"} \cup After => reader = "done"
                  /\ stop \in {"put", "join", "abort"} => worker # "none"
  BY DEF SpeechInv, SpeechTyped, Settled
<1>2. ASSUME UNCHANGED <<reader, stop, queue, worker, busy, disabled, stats, nextIdx, turns, shown, late>>,
             Levels', trouble' \in 0..MaxTrouble
      PROVE  SpeechInv'
  BY <1>1, <1>2, SpeechGoesOn
<1> USE DEF S!asr, S!sink, S!levels
<1>3. UNCHANGED <<silent, alerted, alarms>> => Levels'
  BY <1>1 DEF Levels, S!OneAlarm
<1>4. ASSUME NEW c \in Channels, S!Hears(c) PROVE SpeechInv'
  <2>1. Levels'
    BY <1>1, <1>4, SpeechFacts DEF Levels, S!OneAlarm, S!Hears, S!Sound
  <2> QED
    BY <1>1, <1>2, <1>4, <2>1 DEF S!Hears
<1>5. CASE S!Tick
  <2>1. Levels'
    BY <1>1, <1>5, SpeechFacts DEF Levels, S!OneAlarm, S!Tick
  <2> QED
    BY <1>1, <1>2, <1>5, <2>1 DEF S!Tick
<1>6. CASE S!CheckSilence
  <2>1. Levels'
    <3>1. /\ silent' = silent /\ silent \in [Channels -> 0..Threshold]
          /\ alerted' = [c \in Channels |-> alerted[c] \/ S!Due(c)]
          /\ alarms' = [c \in Channels |-> IF S!Due(c) THEN alarms[c] + 1 ELSE alarms[c]]
      BY <1>1, <1>6 DEF Levels, S!CheckSilence
    <3>2. ASSUME NEW c \in Channels
          PROVE  /\ alarms[c] \in Nat /\ alarms[c] <= 1 /\ (alarms[c] = 1 <=> alerted[c])
                 /\ alerted[c] \in BOOLEAN /\ (S!Due(c) => ~alerted[c])
      BY <1>1 DEF Levels, S!OneAlarm, S!Due
    <3>3. ASSUME NEW c \in Channels
          PROVE  /\ alarms'[c] \in Nat /\ alarms'[c] <= 1 /\ alerted'[c] \in BOOLEAN
                 /\ alarms'[c] = 1 <=> alerted'[c]
      <4>1. CASE S!Due(c)
        <5>1. alarms[c] = 0
          BY <3>2, <4>1
        <5>2. alarms'[c] = alarms[c] + 1
          BY <3>1, <4>1
        <5>3. alarms'[c] = 1
          BY <5>1, <5>2
        <5>4. alerted'[c] /\ alerted'[c] \in BOOLEAN
          BY <3>1, <3>2, <4>1, Zenon
        <5> QED
          BY <5>3, <5>4
      <4>2. CASE ~S!Due(c)
        BY <3>1, <3>2, <4>2
      <4> QED
        BY <4>1, <4>2
    <3>4. alerted' \in [Channels -> BOOLEAN] /\ alarms' \in [Channels -> Nat]
      BY <3>1, <3>3
    <3> QED
      BY <3>1, <3>3, <3>4 DEF Levels, S!OneAlarm
  <2> QED
    BY <1>1, <1>2, <1>6, <2>1 DEF S!CheckSilence
<1>7. CASE S!LooksStopping
  BY <1>1, <1>2, <1>3, <1>7 DEF S!LooksStopping
<1>8. CASE S!Polls
  BY <1>1, <1>2, <1>3, <1>8 DEF S!Polls
<1>9. CASE S!HelperEnds
  BY <1>1, <1>2, <1>3, <1>9, SpeechFacts DEF S!HelperEnds, S!Trouble
<1>10. CASE UNCHANGED S!vars
  BY <1>1, <1>2, <1>3, <1>10 DEF S!vars
<1> QED
  BY <1>4, <1>5, <1>6, <1>7, <1>8, <1>9, <1>10

(* The queue, as what it loses at its head and gets at its end.            *)
LEMMA QueueLoses ==
  ASSUME NEW X, NEW q \in Seq(X), q # <<>>, NEW low, NEW top, Higher(q, low, top), Rises(q)
  PROVE  /\ Higher(Tail(q), low, top) /\ Rises(Tail(q))
         /\ Head(q) # Stop => Higher(q, low, Head(q)) \/ Higher(Tail(q), Head(q), top)
         /\ Head(q) # Stop => low < Head(q) /\ Head(q) <= top
<1>1. /\ Len(q) \in Nat \ {0} /\ Head(q) = q[1]
      /\ DOMAIN q = 1..Len(q) /\ DOMAIN Tail(q) = 1..(Len(q) - 1)
      /\ \A i \in 1..(Len(q) - 1) : Tail(q)[i] = q[i + 1]
  BY TailFacts
<1>2. \A i \in 1..(Len(q) - 1) : i \in Int /\ i + 1 \in 1..Len(q) /\ 1 < i + 1
  BY <1>1
<1>3. 1 \in 1..Len(q)
  BY <1>1
<1>4. Higher(Tail(q), low, top)
  BY <1>1, <1>2 DEF Higher
<1>5. Rises(Tail(q))
  <2> SUFFICES ASSUME NEW i \in DOMAIN Tail(q), NEW j \in DOMAIN Tail(q), i < j,
                      Tail(q)[i] # Stop, Tail(q)[j] # Stop
               PROVE  Tail(q)[i] < Tail(q)[j]
    BY DEF Rises
  <2>1. i + 1 < j + 1
    BY <1>1
  <2> QED
    BY <1>1, <1>2, <2>1 DEF Rises
<1>6. Head(q) # Stop => Higher(Tail(q), Head(q), top)
  BY <1>1, <1>2, <1>3 DEF Higher, Rises
<1>7. Head(q) # Stop => low < Head(q) /\ Head(q) <= top
  BY <1>1, <1>3 DEF Higher
<1> QED
  BY <1>4, <1>5, <1>6, <1>7

LEMMA QueueGets ==
  ASSUME NEW X, NEW q \in Seq(X), NEW x \in X, NEW low \in Int, NEW top \in Int, NEW more \in Int,
         Higher(q, low, top), Rises(q), \A i \in DOMAIN q : q[i] # Stop => q[i] \in Int,
         top <= more, low <= top, x # Stop => x \in Int /\ top < x /\ x <= more
  PROVE  Higher(Append(q, x), low, more) /\ Rises(Append(q, x))
<1>1. /\ Len(q) \in Nat /\ DOMAIN q = 1..Len(q) /\ DOMAIN Append(q, x) = 1..(Len(q) + 1)
      /\ Append(q, x)[Len(q) + 1] = x /\ \A i \in 1..Len(q) : Append(q, x)[i] = q[i]
  BY AppendFacts
<1>2. \A i \in 1..(Len(q) + 1) : i \in 1..Len(q) \/ i = Len(q) + 1
  BY <1>1
<1>3. \A i \in 1..Len(q) : q[i] # Stop => q[i] \in Int /\ low < q[i] /\ q[i] <= top
  BY <1>1 DEF Higher
<1>4. Higher(Append(q, x), low, more)
  <2> SUFFICES ASSUME NEW i \in 1..(Len(q) + 1), Append(q, x)[i] # Stop
               PROVE  low < Append(q, x)[i] /\ Append(q, x)[i] <= more
    BY <1>1 DEF Higher
  <2>1. CASE i \in 1..Len(q)
    BY <1>1, <1>3, <2>1
  <2>2. CASE i = Len(q) + 1
    <3>1. x # Stop /\ Append(q, x)[i] = x
      BY <1>1, <2>2
    <3> QED
      BY <3>1
  <2> QED
    BY <1>2, <2>1, <2>2
<1>5. Rises(Append(q, x))
  <2> SUFFICES ASSUME NEW i \in 1..(Len(q) + 1), NEW j \in 1..(Len(q) + 1), i < j,
                      Append(q, x)[i] # Stop, Append(q, x)[j] # Stop
               PROVE  Append(q, x)[i] < Append(q, x)[j]
    BY <1>1 DEF Rises
  <2>1. i \in 1..Len(q)
    BY <1>1, <1>2
  <2>2. CASE j \in 1..Len(q)
    BY <1>1, <2>1, <2>2 DEF Rises
  <2>3. CASE j = Len(q) + 1
    BY <1>1, <1>3, <2>1, <2>3
  <2> QED
    BY <1>2, <2>2, <2>3
<1> QED
  BY <1>4, <1>5

LEMMA NoneStops ==
  ASSUME NEW X, NEW q \in Seq(X), \A i \in DOMAIN q : q[i] # Stop
  PROVE  StopLast(q) /\ Unstopped(q) = Len(q)
<1>1. DOMAIN q = 1..Len(q) /\ Len(q) \in Nat /\ (q # <<>> => Len(q) \in 1..Len(q))
  OBVIOUS
<1>2. StopLast(q) /\ ~(q # <<>> /\ q[Len(q)] = Stop)
  BY <1>1 DEF StopLast
<1> QED
  BY <1>2, UnstoppedIs

LEMMA SpeaksKeeps == ASSUME SpeechInv, S!Speaks PROVE SpeechInv'
<1> DEFINE n == stats.submitted + 1
           q == IF Len(queue) = MaxQueue THEN Tail(queue) ELSE queue
           lost1 == IF Len(queue) = MaxQueue THEN stats.dropped + 1 ELSE stats.dropped
           X == SegNumbers \cup {Stop}
<1>1. /\ reader \in {"reads", "flushes"} /\ worker # "none" /\ stats.submitted < MaxSegs
      /\ queue' = Append(q, n)
      /\ stats' = [stats EXCEPT !.submitted = n, !.dropped = lost1]
      /\ UNCHANGED <<worker, busy, disabled, reader, stop, late, nextIdx, turns, shown, silent, alerted, alarms, trouble>>
  <2>1. stats' = [stats EXCEPT !.submitted = stats.submitted + 1,
                               !.dropped = IF Len(queue) = MaxQueue THEN stats.dropped + 1 ELSE stats.dropped]
    BY DEF S!Speaks, S!Submit
  <2> QED
    BY <2>1 DEF S!Speaks, S!Submit, S!sink, S!levels
<1>2. SpeechTyped /\ Words /\ Settled /\ Levels
  BY DEF SpeechInv
<1>3. /\ stats \in [S!Counters -> 0..MaxSegs] /\ MaxSegs \in Nat
      /\ stats.submitted \in 0..MaxSegs /\ stats.dropped \in 0..MaxSegs /\ stats.dropped <= stats.submitted
      /\ stats.transcribed \in Nat /\ stats.errors \in Nat /\ stats.skipped \in Nat /\ stats.abandoned \in Nat
  BY <1>2, SpeechFacts DEF SpeechTyped, S!Counters, Words
<1>4. n \in SegNumbers /\ n \in X /\ n # Stop /\ lost1 \in 0..MaxSegs /\ lost1 <= n
  <2>1. n \in SegNumbers /\ n # Stop
    BY <1>1, <1>3, SpeechFacts DEF SegNumbers
  <2>2. lost1 \in 0..MaxSegs /\ lost1 <= n
    BY <1>1, <1>3
  <2> QED
    BY <2>1, <2>2
<1>5. /\ stats' \in [S!Counters -> 0..MaxSegs] /\ stats'.submitted = n /\ stats'.dropped = lost1
      /\ stats'.transcribed = stats.transcribed /\ stats'.errors = stats.errors
      /\ stats'.skipped = stats.skipped /\ stats'.abandoned = stats.abandoned
  <2> DEFINE one == [stats EXCEPT !["submitted"] = n]
  <2>1. "submitted" \in S!Counters /\ "dropped" \in S!Counters /\ "transcribed" \in S!Counters
        /\ "errors" \in S!Counters /\ "skipped" \in S!Counters /\ "abandoned" \in S!Counters
    BY DEF S!Counters
  <2>2. n \in 0..MaxSegs
    BY <1>4, SpeechFacts DEF SegNumbers
  <2>3. one \in [S!Counters -> 0..MaxSegs] /\ one["submitted"] = n
        /\ \A k \in S!Counters : k # "submitted" => one[k] = stats[k]
    BY <1>3, <2>1, <2>2
  <2>4. stats' = [one EXCEPT !["dropped"] = lost1]
    BY <1>1
  <2> HIDE DEF one
  <2>5. stats' \in [S!Counters -> 0..MaxSegs] /\ stats'["dropped"] = lost1
        /\ \A k \in S!Counters : k # "dropped" => stats'[k] = one[k]
    BY <1>4, <2>1, <2>3, <2>4
  <2> QED
    BY <2>1, <2>3, <2>5
<1>6. queue \in Seq(X) /\ Len(queue) \in Nat /\ Len(queue) <= MaxQueue /\ MaxQueue \in Nat \ {0}
  BY <1>2, SpeechFacts DEF SpeechTyped
<1>7. /\ q \in Seq(X) /\ Len(q) \in Nat /\ Len(q) < MaxQueue
      /\ Len(q) + lost1 = Len(queue) + stats.dropped
      /\ \A low, top : Higher(queue, low, top) /\ Rises(queue) => Higher(q, low, top) /\ Rises(q)
      /\ (\A i \in DOMAIN queue : queue[i] # Stop) => (\A i \in DOMAIN q : q[i] # Stop)
  <2>1. CASE Len(queue) = MaxQueue
    <3>1. queue # <<>> /\ q = Tail(queue)
      BY <1>6, <2>1
    <3>2. /\ Tail(queue) \in Seq(X) /\ Len(Tail(queue)) = Len(queue) - 1 /\ Len(queue) \in Nat \ {0}
          /\ DOMAIN queue = 1..Len(queue) /\ DOMAIN Tail(queue) = 1..(Len(queue) - 1)
          /\ \A i \in 1..(Len(queue) - 1) : Tail(queue)[i] = queue[i + 1]
      BY <1>6, <3>1, TailFacts
    <3>3. \A low, top : Higher(queue, low, top) /\ Rises(queue) => Higher(q, low, top) /\ Rises(q)
      BY <1>6, <3>1, QueueLoses
    <3>4. \A i \in 1..(Len(queue) - 1) : i + 1 \in 1..Len(queue)
      BY <3>2
    <3> QED
      BY <1>3, <1>6, <2>1, <3>1, <3>2, <3>3, <3>4
  <2>2. CASE Len(queue) # MaxQueue
    BY <1>3, <1>6, <2>2
  <2> QED
    BY <2>1, <2>2
<1> HIDE DEF q, lost1, n, X
<1>8. SpeechTyped'
  <2>1. queue' \in Seq(X) /\ Len(queue') = Len(q) + 1
    BY <1>1, <1>4, <1>7, AppendFacts
  <2>2. Len(queue') <= MaxQueue
    BY <1>6, <1>7, <2>1
  <2> QED
    BY <1>1, <1>2, <1>5, <2>1, <2>2 DEF SpeechTyped, X
<1>9. Words'
  <2>1. PICK low \in Nat : Ordered(low)
    BY <1>2 DEF Words
  <2>2. \A i \in DOMAIN q : q[i] # Stop => q[i] \in Int
    BY <1>7 DEF X, SegNumbers
  <2>3. /\ n \in Int /\ n = stats.submitted + 1 /\ stats.submitted \in Int
        /\ low <= stats.submitted /\ Higher(q, low, stats.submitted) /\ Rises(q)
    BY <1>3, <1>7, <2>1 DEF Ordered, n
  <2>4. Higher(queue', low, n) /\ Rises(queue')
    BY <1>1, <1>4, <1>7, <2>2, <2>3, QueueGets
  <2>5. DealtWith' = DealtWith
    BY <1>1, <1>5 DEF DealtWith
  <2>6. Ordered(low)'
    BY <1>1, <1>5, <2>1, <2>3, <2>4, <2>5 DEF Ordered, Higher, Rises
  <2>7. S!InOrder'
    BY <1>1, <1>2 DEF Words, S!InOrder, S!Rising, S!ToSet
  <2> QED
    BY <1>4, <1>5, <2>6, <2>7 DEF Words
<1>10. Settled'
  <2> SUFFICES ASSUME ~late PROVE Settled'
    BY <1>1 DEF Settled
  <2>1. /\ stop \in {"no", "kill", "reader"} /\ worker # "done" /\ \A i \in DOMAIN queue : queue[i] # Stop
        /\ stats.submitted = DealtWith + stats.dropped + Unstopped(queue)
    BY <1>1, <1>2 DEF Settled, SpeechTyped, After
  <2>2. Unstopped(queue) = Len(queue)
    BY <1>6, <2>1, NoneStops
  <2>3. queue' \in Seq(X) /\ Len(queue') = Len(q) + 1 /\ \A i \in DOMAIN queue' : queue'[i] # Stop
    <3>1. /\ queue' \in Seq(X) /\ Len(queue') = Len(q) + 1 /\ DOMAIN q = 1..Len(q)
          /\ DOMAIN queue' = 1..(Len(q) + 1) /\ queue'[Len(q) + 1] = n
          /\ \A i \in 1..Len(q) : queue'[i] = q[i]
      BY <1>1, <1>4, <1>7, AppendFacts
    <3>2. \A i \in 1..(Len(q) + 1) : i \in 1..Len(q) \/ i = Len(q) + 1
      BY <1>7
    <3> QED
      BY <1>4, <1>7, <2>1, <3>1, <3>2
  <2>4. StopLast(queue') /\ Unstopped(queue') = Len(q) + 1
    BY <2>3, NoneStops
  <2>5. DealtWith' = DealtWith
    BY <1>1, <1>5 DEF DealtWith
  <2>8. DealtWith \in Nat
    BY <1>3 DEF DealtWith
  <2>6. n = DealtWith + lost1 + (Len(q) + 1)
    <3>1. n = stats.submitted + 1 /\ stats.submitted = DealtWith + stats.dropped + Len(queue)
      BY <2>1, <2>2 DEF n
    <3>2. /\ stats.dropped \in Int /\ lost1 \in Int /\ Len(q) \in Int /\ Len(queue) \in Int
          /\ Len(q) + lost1 = Len(queue) + stats.dropped
      BY <1>3, <1>4, <1>6, <1>7
    <3> QED
      BY <2>8, <3>1, <3>2
  <2>7. Unstopped(queue)' = Unstopped(queue') /\ StopLast(queue)' = StopLast(queue')
    BY DEF Unstopped, StopLast
  <2> QED
    BY <1>1, <1>5, <2>1, <2>3, <2>4, <2>5, <2>6, <2>7 DEF Settled, After
<1>11. Levels'
  BY <1>1, <1>2 DEF Levels, S!OneAlarm
<1> QED
  BY <1>8, <1>9, <1>10, <1>11 DEF SpeechInv

LEMMA SpeechHas ==
  ASSUME SpeechInv
  PROVE  /\ SpeechTyped /\ Words /\ Settled /\ Levels
         /\ queue \in Seq(SegNumbers \cup {Stop}) /\ stats \in [S!Counters -> 0..MaxSegs]
         /\ stats.submitted \in 0..MaxSegs /\ stats.dropped \in Nat
         /\ stats.transcribed \in Nat /\ stats.errors \in Nat /\ stats.skipped \in Nat /\ stats.abandoned \in Nat
         /\ DealtWith \in Nat
<1>1. SpeechTyped /\ Words /\ Settled /\ Levels
  BY DEF SpeechInv
<1>2. queue \in Seq(SegNumbers \cup {Stop}) /\ stats \in [S!Counters -> 0..MaxSegs]
  BY <1>1 DEF SpeechTyped
<1>3. /\ stats.submitted \in 0..MaxSegs /\ stats.dropped \in Nat
      /\ stats.transcribed \in Nat /\ stats.errors \in Nat /\ stats.skipped \in Nat /\ stats.abandoned \in Nat
  BY <1>2, SpeechFacts DEF S!Counters
<1>4. DealtWith \in Nat
  BY <1>3 DEF DealtWith
<1> QED
  BY <1>1, <1>2, <1>3, <1>4

LEMMA PutsStopKeeps == ASSUME SpeechInv, S!PutsStop PROVE SpeechInv'
<1> DEFINE X == SegNumbers \cup {Stop}
<1>1. /\ stop = "put" /\ stop' = "join" /\ Len(queue) < MaxQueue /\ queue' = Append(queue, Stop)
      /\ UNCHANGED <<reader, worker, busy, disabled, stats, trouble, late, nextIdx, turns, shown>>
      /\ UNCHANGED <<silent, alerted, alarms>>
  BY DEF S!PutsStop, S!At, S!Goto, S!Kept, S!Rest, S!sink, S!levels
<1>2. SpeechTyped /\ Words /\ Settled /\ Levels /\ queue \in Seq(X) /\ Stop \in X /\ stats.submitted \in Int
  BY SpeechHas
<1>3. /\ queue' \in Seq(X) /\ Len(queue) \in Nat /\ Len(queue') = Len(queue) + 1
      /\ DOMAIN queue = 1..Len(queue) /\ DOMAIN queue' = 1..(Len(queue) + 1)
      /\ queue'[Len(queue) + 1] = Stop /\ \A i \in 1..Len(queue) : queue'[i] = queue[i]
  BY <1>1, <1>2, AppendFacts
<1>4. SpeechTyped'
  <2>1. Len(queue') <= MaxQueue
    BY <1>1, <1>3, SpeechFacts
  <2> QED
    BY <1>1, <1>2, <1>3, <2>1 DEF SpeechTyped, After
<1>5. Words'
  <2>1. PICK low \in Nat : Ordered(low)
    BY <1>2 DEF Words
  <2>2. /\ low \in Int /\ low <= stats.submitted /\ Higher(queue, low, stats.submitted) /\ Rises(queue)
        /\ \A i \in DOMAIN queue : queue[i] # Stop => queue[i] \in Int
    BY <1>2, <1>3, <2>1 DEF Ordered, SegNumbers
  <2>3. Higher(queue', low, stats.submitted) /\ Rises(queue')
    BY <1>1, <1>2, <2>2, QueueGets
  <2>4. Ordered(low)'
    BY <1>1, <2>1, <2>3 DEF Ordered, DealtWith, Higher, Rises
  <2> QED
    BY <1>1, <1>2, <2>4 DEF Words, S!InOrder, S!Rising, S!ToSet
<1>6. Settled'
  <2> SUFFICES ASSUME ~late PROVE Settled'
    BY <1>1 DEF Settled
  <2>1. /\ reader = "done" /\ worker # "none" /\ worker # "done" /\ \A i \in DOMAIN queue : queue[i] # Stop
        /\ stats.submitted = DealtWith + stats.dropped + Unstopped(queue)
    BY <1>1, <1>2 DEF Settled, After
  <2>2. Unstopped(queue) = Len(queue)
    BY <1>2, <2>1, NoneStops
  <2>3. \A i \in 1..(Len(queue) + 1) : i \in 1..Len(queue) \/ i = Len(queue) + 1
    BY <1>3
  <2>4. StopLast(queue')
    BY <1>3, <2>1, <2>3 DEF StopLast
  <2>5. queue' # <<>> /\ queue'[Len(queue')] = Stop /\ Len(queue') - 1 = Len(queue)
    BY <1>3
  <2>6. Unstopped(queue') = Len(queue)
    BY <1>3, <2>4, <2>5, UnstoppedIs
  <2>7. DealtWith' = DealtWith /\ Unstopped(queue)' = Unstopped(queue') /\ StopLast(queue)' = StopLast(queue')
    BY <1>1 DEF DealtWith, Unstopped, StopLast
  <2> QED
    BY <1>1, <2>1, <2>2, <2>4, <2>5, <2>6, <2>7 DEF Settled, After
<1>7. Levels'
  BY <1>1, <1>2 DEF Levels, S!OneAlarm
<1> QED
  BY <1>4, <1>5, <1>6, <1>7 DEF SpeechInv

LEMMA CountFacts ==
  ASSUME stats \in [S!Counters -> 0..MaxSegs], NEW k \in S!Counters, stats[k] < MaxSegs,
         stats' = [stats EXCEPT ![k] = @ + 1]
  PROVE  /\ stats' \in [S!Counters -> 0..MaxSegs] /\ stats'[k] = stats[k] + 1
         /\ \A j \in S!Counters : j # k => stats'[j] = stats[j]
<1>1. stats[k] + 1 \in 0..MaxSegs
  BY SpeechFacts
<1> QED
  BY <1>1

(* A segment is taken from the queue, and is now among those dealt with.   *)
LEMMA TakenKeeps ==
  ASSUME SpeechInv, worker = "waits", queue # <<>>, Head(queue) # Stop, queue' = Tail(queue),
         stats' \in [S!Counters -> 0..MaxSegs],
         stats'.submitted = stats.submitted, stats'.dropped = stats.dropped,
         DealtWith' = DealtWith + 1,
         \/ worker' = "waits" /\ busy' = busy
         \/ worker' = "busy" /\ busy' = Head(queue) /\ ~disabled,
         UNCHANGED <<reader, stop, late, disabled, trouble, nextIdx, turns, shown, silent, alerted, alarms>>
  PROVE  SpeechInv'
<1> DEFINE X == SegNumbers \cup {Stop}
<1>1. /\ SpeechTyped /\ Words /\ Settled /\ Levels /\ queue \in Seq(X)
      /\ stats.submitted \in 0..MaxSegs /\ DealtWith \in Nat
  BY SpeechHas
<1>2. busy = 0 /\ Len(queue) <= MaxQueue /\ MaxQueue \in Nat
  BY <1>1, SpeechFacts DEF SpeechTyped
<1>3. /\ Tail(queue) \in Seq(X) /\ Len(queue) \in Nat \ {0} /\ Len(Tail(queue)) = Len(queue) - 1
      /\ Head(queue) = queue[1] /\ Head(queue) \in X /\ DOMAIN queue = 1..Len(queue)
      /\ DOMAIN Tail(queue) = 1..(Len(queue) - 1)
      /\ \A i \in 1..(Len(queue) - 1) : Tail(queue)[i] = queue[i + 1]
  BY <1>1, TailFacts
<1>4. Head(queue) \in 1..MaxSegs /\ Head(queue) \in 0..MaxSegs /\ Head(queue) # 0 /\ MaxSegs \in Nat
  BY <1>3, SpeechFacts DEF SegNumbers
<1>5. SpeechTyped'
  <2>1. Len(queue') <= MaxQueue
    BY <1>2, <1>3
  <2>2. busy' \in 0..MaxSegs /\ (worker' = "busy" <=> busy' # 0) /\ (busy' # 0 => ~disabled)
        /\ worker' \in {"waits", "busy", "done", "none"}
    BY <1>2, <1>4
  <2> QED
    BY <1>1, <1>3, <2>1, <2>2 DEF SpeechTyped
<1>6. Words'
  <2>1. PICK low \in Nat : Ordered(low)
    BY <1>1 DEF Words
  <2>10. PICK h : h = Head(queue)
    OBVIOUS
  <2>2. Higher(queue, low, stats.submitted) /\ Rises(queue)
    BY <2>1 DEF Ordered
  <2>3. /\ Rises(Tail(queue)) /\ low < h /\ h <= stats.submitted
    BY <1>1, <2>2, <2>10, QueueLoses
  <2>4. Higher(Tail(queue), h, stats.submitted)
    <3>1. \A i \in 1..(Len(queue) - 1) : i + 1 \in 1..Len(queue) /\ 1 < i + 1 /\ 1 \in 1..Len(queue)
      BY <1>3
    <3> QED
      BY <1>3, <2>2, <2>10, <3>1 DEF Higher, Rises
  <2>5. h \in Nat /\ h \in 0..stats.submitted /\ DealtWith' <= h /\ busy' <= h
    BY <1>1, <1>2, <1>4, <2>1, <2>3, <2>10 DEF Ordered
  <2>6. \A k \in DOMAIN shown : /\ shown[k].idx < nextIdx /\ shown[k].seg <= h
                                /\ busy' # 0 => shown[k].seg < busy'
    <3> SUFFICES ASSUME NEW k \in DOMAIN shown
                 PROVE  /\ shown[k].idx < nextIdx /\ shown[k].seg <= h
                        /\ busy' # 0 => shown[k].seg < busy'
      OBVIOUS
    <3>1. shown[k] \in Spoken
      BY <1>1 DEF SpeechTyped
    <3>2. shown[k].seg \in Int
      BY <3>1 DEF Spoken, SegNumbers
    <3>3. shown[k].idx < nextIdx /\ shown[k].seg <= low
      BY <2>1 DEF Ordered
    <3> QED
      BY <1>2, <2>3, <2>5, <2>10, <3>2, <3>3
  <2>7. Ordered(h)'
    <3>1. Higher(queue, h, stats.submitted)' /\ Rises(queue)'
      BY <2>3, <2>4 DEF Higher, Rises
    <3> QED
      BY <2>5, <2>6, <3>1 DEF Ordered
  <2>9. \E l \in Nat : Ordered(l)'
    BY <2>5, <2>7
  <2> QED
    BY <1>1, <2>9 DEF Words, S!InOrder, S!Rising, S!ToSet
<1>7. Settled'
  <2> SUFFICES ASSUME ~late PROVE Settled'
    BY DEF Settled
  <2>1. StopLast(queue) /\ stats.submitted = DealtWith + stats.dropped + Unstopped(queue)
    BY <1>1 DEF Settled
  <2>2. \A i \in DOMAIN Tail(queue) : /\ i + 1 \in DOMAIN queue /\ Tail(queue)[i] = queue[i + 1]
                                      /\ i + 1 = Len(queue) => i = Len(Tail(queue))
    BY <1>1, TailEnds
  <2>3. /\ StopLast(Tail(queue))
        /\ (\A i \in DOMAIN queue : queue[i] # Stop) => \A i \in DOMAIN Tail(queue) : Tail(queue)[i] # Stop
    <3>1. StopLast(Tail(queue))
      <4> SUFFICES ASSUME NEW i \in DOMAIN Tail(queue), Tail(queue)[i] = Stop PROVE i = Len(Tail(queue))
        BY DEF StopLast
      <4>1. i + 1 \in DOMAIN queue /\ queue[i + 1] = Stop /\ (i + 1 = Len(queue) => i = Len(Tail(queue)))
        BY <2>2, Zenon
      <4> QED
        BY <2>1, <4>1, Zenon DEF StopLast
    <3>2. (\A i \in DOMAIN queue : queue[i] # Stop) => \A i \in DOMAIN Tail(queue) : Tail(queue)[i] # Stop
      BY <2>2, Zenon
    <3> QED
      BY <3>1, <3>2
  <2>11. Len(queue) # 1 => Tail(queue)[Len(Tail(queue))] = queue[Len(queue)] /\ Tail(queue) # <<>>
    BY <1>1, TailEnds
  <2>12. Len(queue) = 1 => Tail(queue) = <<>> /\ queue[Len(queue)] # Stop
    BY <1>1, TailEnds
  <2>4. queue[Len(queue)] = Stop => Tail(queue) # <<>> /\ Tail(queue)[Len(Tail(queue))] = Stop
    BY <2>11, <2>12
  <2>5. Tail(queue) # <<>> /\ Tail(queue)[Len(Tail(queue))] = Stop => queue[Len(queue)] = Stop
    BY <2>11, <2>12
  <2>6. Unstopped(queue) = Unstopped(Tail(queue)) + 1
    <3>1. CASE queue[Len(queue)] = Stop
      <4>1. Unstopped(queue) = Len(queue) - 1
        BY <1>1, <2>1, <3>1, UnstoppedIs
      <4>2. Unstopped(Tail(queue)) = Len(queue) - 1 - 1
        BY <1>3, <2>3, <2>4, <3>1, UnstoppedIs
      <4> QED
        BY <1>3, <4>1, <4>2
    <3>2. CASE queue[Len(queue)] # Stop
      <4>1. Unstopped(queue) = Len(queue)
        BY <1>1, <2>1, <3>2, UnstoppedIs
      <4>2. Unstopped(Tail(queue)) = Len(queue) - 1
        BY <1>3, <2>3, <2>5, <3>2, UnstoppedIs
      <4> QED
        BY <1>3, <4>1, <4>2
    <3> QED
      BY <3>1, <3>2
  <2>7. Unstopped(Tail(queue)) \in Int
    <3>1. Unstopped(Tail(queue)) = Len(queue) - 1 \/ Unstopped(Tail(queue)) = Len(queue) - 1 - 1
      BY <1>3, <2>3, UnstoppedIs
    <3> QED
      BY <1>3, <3>1
  <2>8. stats'.submitted = DealtWith' + stats'.dropped + Unstopped(Tail(queue))
    <3>1. stats.dropped \in Int /\ DealtWith \in Int
      BY SpeechHas
    <3>2. \A a, b, c \in Int : a + b + (c + 1) = a + 1 + b + c
      OBVIOUS
    <3>3. DealtWith + stats.dropped + (Unstopped(Tail(queue)) + 1) = DealtWith + 1 + stats.dropped + Unstopped(Tail(queue))
      BY <2>7, <3>1, <3>2, Zenon
    <3> QED
      BY <2>1, <2>6, <3>3
  <2>9. /\ stop \in {"monitor", "put"} \cup After => reader = "done"
        /\ stop \notin After => \A i \in DOMAIN queue : queue[i] # Stop
        /\ stop \in {"put", "join", "abort"} => worker # "none"
        /\ stop \in After => queue # <<>> /\ queue[Len(queue)] = Stop
    BY <1>1 DEF Settled
  <2>10. Unstopped(queue)' = Unstopped(queue') /\ (StopLast(queue)' <=> StopLast(queue'))
    BY DEF Unstopped, StopLast
  <2> QED
    BY <2>3, <2>4, <2>8, <2>9, <2>10 DEF Settled
<1>8. Levels'
  BY <1>1 DEF Levels, S!OneAlarm
<1> QED
  BY <1>5, <1>6, <1>7, <1>8 DEF SpeechInv

(* What is counted, as long as no more was dealt with than submitted.      *)
LEMMA CountsMore ==
  ASSUME SpeechInv, NEW k \in {"transcribed", "errors", "skipped", "abandoned"}, S!Count(k),
         DealtWith < MaxSegs \/ worker = "busy"
  PROVE  /\ stats' \in [S!Counters -> 0..MaxSegs]
         /\ stats'.submitted = stats.submitted /\ stats'.dropped = stats.dropped
         /\ stats'.transcribed + stats'.errors + stats'.skipped + stats'.abandoned
            = stats.transcribed + stats.errors + stats.skipped + stats.abandoned + 1
         /\ stats'.transcribed \in Nat /\ stats'.errors \in Nat /\ stats'.skipped \in Nat /\ stats'.abandoned \in Nat
<1> DEFINE sum == stats.transcribed + stats.errors + stats.skipped + stats.abandoned
<1>1. /\ SpeechTyped /\ Words /\ stats \in [S!Counters -> 0..MaxSegs] /\ stats.submitted \in 0..MaxSegs
      /\ stats.transcribed \in Nat /\ stats.errors \in Nat /\ stats.skipped \in Nat /\ stats.abandoned \in Nat
  BY SpeechHas
<1>2. /\ "transcribed" \in S!Counters /\ "errors" \in S!Counters /\ "skipped" \in S!Counters
      /\ "abandoned" \in S!Counters /\ "submitted" \in S!Counters /\ "dropped" \in S!Counters /\ k \in S!Counters
  BY DEF S!Counters
<1>3. MaxSegs \in Nat /\ sum < MaxSegs
  <2>1. CASE DealtWith < MaxSegs
    BY <1>1, <2>1, SpeechFacts DEF DealtWith
  <2>2. CASE worker = "busy"
    <3>1. busy # 0
      BY <1>1, <2>2 DEF SpeechTyped
    <3>2. PICK low \in Nat : low \in 0..stats.submitted /\ DealtWith <= low
      BY <1>1 DEF Words, Ordered
    <3> QED
      BY <1>1, <3>1, <3>2, SpeechFacts DEF DealtWith
  <2> QED
    BY <2>1, <2>2
<1>4. stats[k] <= sum
  BY <1>1
<1>5. stats[k] \in Int /\ sum \in Int
  BY <1>1, <1>2
<1>6. stats[k] < MaxSegs /\ stats' = [stats EXCEPT ![k] = @ + 1]
  BY <1>3, <1>4, <1>5 DEF S!Count
<1>7. /\ stats' \in [S!Counters -> 0..MaxSegs] /\ stats'[k] = stats[k] + 1
      /\ \A j \in S!Counters : j # k => stats'[j] = stats[j]
  BY <1>1, <1>2, <1>6, CountFacts
<1>8. stats'.submitted = stats.submitted /\ stats'.dropped = stats.dropped
  BY <1>2, <1>7
<1>9. stats'.transcribed + stats'.errors + stats'.skipped + stats'.abandoned = sum + 1
  <2>1. CASE k = "transcribed"
    BY <1>1, <1>2, <1>7, <2>1
  <2>2. CASE k = "errors"
    BY <1>1, <1>2, <1>7, <2>2
  <2>3. CASE k = "skipped"
    BY <1>1, <1>2, <1>7, <2>3
  <2>4. CASE k = "abandoned"
    BY <1>1, <1>2, <1>7, <2>4
  <2> QED
    BY <2>1, <2>2, <2>3, <2>4
<1>10. /\ stats'.transcribed \in Nat /\ stats'.errors \in Nat
       /\ stats'.skipped \in Nat /\ stats'.abandoned \in Nat
  BY <1>2, <1>3, <1>7
<1> QED
  BY <1>7, <1>8, <1>9, <1>10

LEMMA GetsKeeps == ASSUME SpeechInv, S!Gets PROVE SpeechInv'
<1> DEFINE X == SegNumbers \cup {Stop}
<1>1. /\ worker = "waits" /\ queue # <<>> /\ queue' = Tail(queue)
      /\ UNCHANGED <<reader, stop, late, disabled, trouble, nextIdx, turns, shown, silent, alerted, alarms>>
  BY DEF S!Gets, S!sink, S!levels
<1>2. /\ SpeechTyped /\ Words /\ Settled /\ Levels /\ queue \in Seq(X) /\ stats \in [S!Counters -> 0..MaxSegs]
      /\ stats.transcribed \in Nat /\ stats.errors \in Nat /\ stats.skipped \in Nat /\ stats.abandoned \in Nat
      /\ stats.submitted \in 0..MaxSegs /\ DealtWith \in Nat
  BY SpeechHas
<1>3. busy = 0 /\ busy \in 0..MaxSegs
  BY <1>1, <1>2 DEF SpeechTyped
<1>4. PICK low \in Nat : Ordered(low)
  BY <1>2 DEF Words
<1>5. Higher(queue, low, stats.submitted) /\ Rises(queue)
  BY <1>4 DEF Ordered
<1>6. CASE Head(queue) = Stop
  <2>1. worker' = "done" /\ UNCHANGED <<busy, stats>>
    BY <1>6 DEF S!Gets
  <2>2. /\ Tail(queue) \in Seq(X) /\ Len(queue) \in Nat \ {0} /\ Len(Tail(queue)) = Len(queue) - 1
        /\ Head(queue) = queue[1] /\ DOMAIN queue = 1..Len(queue)
    BY <1>1, <1>2, TailFacts
  <2>3. SpeechTyped'
    <3>1. Len(queue') <= MaxQueue
      BY <1>1, <1>2, <2>2, SpeechFacts DEF SpeechTyped
    <3> QED
      BY <1>1, <1>2, <1>3, <2>1, <2>2, <3>1 DEF SpeechTyped
  <2>4. Words'
    <3>1. Higher(Tail(queue), low, stats.submitted) /\ Rises(Tail(queue))
      BY <1>1, <1>2, <1>5, QueueLoses
    <3>2. Ordered(low)'
      BY <1>1, <1>4, <2>1, <3>1 DEF Ordered, DealtWith, Higher, Rises
    <3> QED
      BY <1>1, <1>2, <2>1, <3>2 DEF Words, S!InOrder, S!Rising, S!ToSet
  <2>5. Settled'
    <3> SUFFICES ASSUME ~late PROVE Settled'
      BY <1>1 DEF Settled
    <3>1. StopLast(queue) /\ stop \in After /\ stats.submitted = DealtWith + stats.dropped + Unstopped(queue)
      <4>1. 1 \in DOMAIN queue /\ queue[1] = Stop
        BY <1>6, <2>2
      <4> QED
        BY <1>2, <4>1 DEF Settled
    <3>2. Len(queue) = 1 /\ queue[Len(queue)] = Stop
      BY <1>6, <2>2, <3>1 DEF StopLast
    <3>3. Tail(queue) = <<>>
      BY <1>1, <1>2, <3>2, TailEnds
    <3>4. Unstopped(queue) = 0
      BY <1>1, <1>2, <3>1, <3>2, UnstoppedIs
    <3>5. /\ StopLast(<<>>) /\ <<>> \in Seq(X) /\ Len(<<>>) = 0
          /\ \A i \in DOMAIN <<>> : <<>>[i] # Stop
      BY DEF StopLast
    <3>6. Unstopped(<<>>) = 0
      BY <3>5, UnstoppedIs
    <3>7. Unstopped(queue)' = Unstopped(queue') /\ (StopLast(queue)' <=> StopLast(queue')) /\ DealtWith' = DealtWith
      BY <1>1, <2>1 DEF Unstopped, StopLast, DealtWith
    <3>8. reader = "done" /\ DOMAIN queue' = {}
      BY <1>1, <1>2, <3>1, <3>3 DEF Settled
    <3> QED
      BY <1>1, <2>1, <3>1, <3>3, <3>4, <3>5, <3>6, <3>7, <3>8 DEF Settled
  <2>6. Levels'
    BY <1>1, <1>2 DEF Levels, S!OneAlarm
  <2> QED
    BY <2>3, <2>4, <2>5, <2>6 DEF SpeechInv
<1>7. CASE Head(queue) # Stop
  <2>1. DealtWith < MaxSegs
    <3>1. low < Head(queue) /\ Head(queue) <= stats.submitted /\ Head(queue) \in X
      BY <1>1, <1>2, <1>5, <1>7, QueueLoses, TailFacts
    <3>2. Head(queue) \in Int /\ MaxSegs \in Int
      BY <1>7, <3>1, SpeechFacts DEF SegNumbers
    <3>3. DealtWith <= low
      BY <1>4 DEF Ordered
    <3> QED
      BY <1>2, <3>1, <3>2, <3>3
  <2>2. ASSUME NEW k \in {"abandoned", "skipped"}, S!Count(k), worker' = "waits", busy' = busy PROVE SpeechInv'
    <3>1. /\ stats' \in [S!Counters -> 0..MaxSegs]
          /\ stats'.submitted = stats.submitted /\ stats'.dropped = stats.dropped
          /\ stats'.transcribed + stats'.errors + stats'.skipped + stats'.abandoned
             = stats.transcribed + stats.errors + stats.skipped + stats.abandoned + 1
      BY <2>1, <2>2, CountsMore
    <3>2. DealtWith' = DealtWith + 1
      <4> DEFINE sum == stats.transcribed + stats.errors + stats.skipped + stats.abandoned
                 off == IF disabled THEN 1 ELSE 0
      <4>1. DealtWith = sum + off /\ sum \in Nat /\ off \in Nat
        BY <1>2, <1>3 DEF DealtWith
      <4>2. sum' = sum + 1
        BY <3>1
      <4>3. busy' = 0 /\ disabled' = disabled
        BY <1>1, <1>3, <2>2
      <4>4. DealtWith' = sum' + off
        <5>1. DealtWith' = sum' + 0 + off
          BY <4>3 DEF DealtWith
        <5> QED
          BY <4>1, <4>2, <5>1
      <4> QED
        BY <4>1, <4>2, <4>4
    <3> QED
      BY <1>1, <1>7, <2>2, <3>1, <3>2, TakenKeeps
  <2>3. CASE abort
    BY <1>1, <1>7, <2>2, <2>3 DEF S!Gets
  <2>4. CASE ~abort /\ disabled
    BY <1>1, <1>7, <2>2, <2>4 DEF S!Gets, S!GivesUp
  <2>5. CASE ~abort /\ ~disabled
    <3>1. worker' = "busy" /\ busy' = Head(queue) /\ UNCHANGED stats
      BY <1>7, <2>5 DEF S!Gets
    <3>2. busy' # 0
      <4>1. Head(queue) \in X
        BY <1>1, <1>2, TailFacts
      <4> QED
        BY <1>7, <3>1, <4>1, SpeechFacts DEF SegNumbers
    <3>3. DealtWith' = DealtWith + 1
      BY <1>1, <1>2, <1>3, <2>5, <3>1, <3>2 DEF DealtWith
    <3> QED
      BY <1>1, <1>2, <1>7, <2>5, <3>1, <3>3, TakenKeeps
  <2> QED
    BY <2>3, <2>4, <2>5
<1> QED
  BY <1>6, <1>7

(* The worker is through with a segment: it was counted, or it showed that *)
(* there is no model; what was shown of it comes after all that was.       *)
LEMMA ThroughKeeps ==
  ASSUME SpeechInv, worker = "busy", worker' = "waits", busy' = 0,
         stats' \in [S!Counters -> 0..MaxSegs],
         stats'.submitted = stats.submitted, stats'.dropped = stats.dropped,
         DealtWith' = DealtWith, disabled' \in BOOLEAN, trouble' \in 0..MaxTrouble,
         \/ UNCHANGED <<nextIdx, turns, shown>>
         \/ /\ nextIdx' = nextIdx + 1 /\ shown' = Append(shown, [idx |-> nextIdx, seg |-> busy])
            /\ turns' = turns \/ turns' = Append(turns, [idx |-> nextIdx, seg |-> busy]),
         UNCHANGED <<queue, reader, stop, late, silent, alerted, alarms>>
  PROVE  SpeechInv'
<1> DEFINE new == [idx |-> nextIdx, seg |-> busy]
<1>1. /\ SpeechTyped /\ Words /\ Settled /\ Levels
      /\ stats.submitted \in 0..MaxSegs /\ DealtWith \in Nat
  BY SpeechHas
<1>2. /\ busy # 0 /\ busy \in Nat /\ busy \in SegNumbers /\ nextIdx \in Nat /\ shown \in Seq(Spoken) /\ turns \in Seq(Spoken)
      /\ queue \in Seq(SegNumbers \cup {Stop}) /\ Len(queue) <= MaxQueue
  BY <1>1, SpeechFacts DEF SpeechTyped, SegNumbers
<1>3. new \in Spoken /\ new.idx = nextIdx /\ new.seg = busy
  BY <1>2 DEF Spoken
<1> HIDE DEF new
<1>4. PICK low \in Nat : Ordered(low)
  BY <1>1 DEF Words
<1>5. busy <= low /\ low \in 0..stats.submitted /\ DealtWith <= low
      /\ \A k \in DOMAIN shown : shown[k].idx < nextIdx /\ shown[k].seg <= low /\ shown[k].seg < busy
  BY <1>2, <1>4 DEF Ordered
<1>6. /\ DOMAIN Append(shown, new) = 1..(Len(shown) + 1) /\ DOMAIN shown = 1..Len(shown) /\ Len(shown) \in Nat
      /\ Append(shown, new)[Len(shown) + 1] = new /\ Len(Append(shown, new)) = Len(shown) + 1
      /\ \A k \in 1..Len(shown) : Append(shown, new)[k] = shown[k]
      /\ Append(shown, new) \in Seq(Spoken)
  BY <1>2, <1>3, AppendFacts
<1>7. /\ DOMAIN Append(turns, new) = 1..(Len(turns) + 1) /\ DOMAIN turns = 1..Len(turns) /\ Len(turns) \in Nat
      /\ Append(turns, new)[Len(turns) + 1] = new
      /\ \A k \in 1..Len(turns) : Append(turns, new)[k] = turns[k]
      /\ Append(turns, new) \in Seq(Spoken)
  BY <1>2, <1>3, AppendFacts
<1>8. UNCHANGED <<nextIdx, turns, shown>> \/ (nextIdx' = nextIdx + 1 /\ shown' = Append(shown, new)
                                              /\ (turns' = turns \/ turns' = Append(turns, new)))
  BY DEF new
<1>9. SpeechTyped'
  <2>1. nextIdx' \in Nat /\ turns' \in Seq(Spoken) /\ shown' \in Seq(Spoken)
    <3>1. nextIdx + 1 \in Nat /\ Append(shown, new) \in Seq(Spoken) /\ Append(turns, new) \in Seq(Spoken)
      BY <1>2, <1>6, <1>7
    <3> QED
      BY <1>2, <1>8, <3>1, Zenon
  <2>2. 0 \in 0..MaxSegs /\ worker' # "none" /\ stop \in {"no", "kill", "reader", "monitor", "put"} \cup After
    BY <1>1, SpeechFacts DEF SpeechTyped
  <2> QED
    BY <1>1, <1>2, <2>1, <2>2 DEF SpeechTyped
<1>10. Words'
  <2>1. \A k \in DOMAIN shown' : shown'[k].idx < nextIdx' /\ shown'[k].seg <= low
    <3>1. CASE UNCHANGED <<nextIdx, turns, shown>>
      BY <1>5, <3>1
    <3>2. CASE nextIdx' = nextIdx + 1 /\ shown' = Append(shown, new)
      <4> SUFFICES ASSUME NEW k \in 1..(Len(shown) + 1)
                   PROVE  shown'[k].idx < nextIdx + 1 /\ shown'[k].seg <= low
        BY <1>6, <3>2
      <4>1. CASE k \in 1..Len(shown)
        <5>0. shown[k] \in Spoken
          BY <1>2, <1>6, <4>1
        <5>1. shown'[k] = shown[k]
          BY <1>6, <3>2, <4>1
        <5>4. shown[k].idx \in Int
          BY <5>0 DEF Spoken
        <5>2. shown[k].idx < nextIdx /\ shown[k].seg <= low /\ shown[k].idx \in Int
          BY <1>5, <1>6, <4>1, <5>4
        <5>3. shown[k].idx < nextIdx + 1
          BY <1>2, <5>2
        <5> QED
          BY <5>1, <5>2, <5>3
      <4>2. CASE k = Len(shown) + 1
        <5>1. shown'[k] = new
          BY <1>6, <3>2, <4>2
        <5> QED
          BY <1>2, <1>3, <1>5, <5>1
      <4> QED
        BY <1>6, <4>1, <4>2
    <3> QED
      BY <1>8, <3>1, <3>2
  <2>2. Ordered(low)'
    <3>1. Higher(queue, low, stats.submitted)' /\ Rises(queue)'
      BY <1>4 DEF Ordered, Higher, Rises
    <3> QED
      BY <1>5, <2>1, <3>1 DEF Ordered
  <2>3. S!InOrder'
    <3>1. S!Rising(shown) /\ \A k \in DOMAIN turns : \E l \in DOMAIN shown : turns[k] = shown[l]
      BY <1>1 DEF Words, S!InOrder, S!ToSet
    <3>2. CASE UNCHANGED <<nextIdx, turns, shown>>
      BY <1>1, <3>2 DEF Words, S!InOrder, S!Rising, S!ToSet
    <3>3. CASE shown' = Append(shown, new) /\ (turns' = turns \/ turns' = Append(turns, new))
      <4>1. S!Rising(Append(shown, new))
        <5> SUFFICES ASSUME NEW i \in 2..(Len(shown) + 1)
                     PROVE  /\ Append(shown, new)[i - 1].idx < Append(shown, new)[i].idx
                            /\ Append(shown, new)[i - 1].seg < Append(shown, new)[i].seg
          BY <1>6 DEF S!Rising
        <5>1. i - 1 \in 1..Len(shown) /\ (i \in 1..Len(shown) \/ i = Len(shown) + 1)
          BY <1>6
        <5>2. CASE i \in 1..Len(shown)
          <6>1. i \in 2..Len(shown) /\ Append(shown, new)[i] = shown[i] /\ Append(shown, new)[i - 1] = shown[i - 1]
            BY <1>6, <5>1, <5>2
          <6> QED
            BY <3>1, <6>1 DEF S!Rising
        <5>3. CASE i = Len(shown) + 1
          <6>1. Append(shown, new)[i] = new /\ Append(shown, new)[i - 1] = shown[i - 1]
            BY <1>6, <5>1, <5>3
          <6>2. shown[i - 1].idx < nextIdx /\ shown[i - 1].seg < busy
            BY <1>5, <1>6, <5>1
          <6> QED
            BY <1>3, <6>1, <6>2
        <5> QED
          BY <5>1, <5>2, <5>3
      <4>2. ASSUME NEW k \in DOMAIN turns' PROVE \E l \in DOMAIN Append(shown, new) : turns'[k] = Append(shown, new)[l]
        <5>0. Len(shown) + 1 \in DOMAIN Append(shown, new) /\ \A l \in DOMAIN shown : l \in DOMAIN Append(shown, new)
          BY <1>6
        <5>1. CASE k \in DOMAIN turns /\ turns'[k] = turns[k]
          <6>1. PICK l \in DOMAIN shown : turns[k] = shown[l]
            BY <3>1, <5>1
          <6>2. Append(shown, new)[l] = shown[l] /\ l \in DOMAIN Append(shown, new)
            BY <1>6, <5>0, <6>1
          <6> QED
            BY <5>1, <6>1, <6>2, Zenon
        <5>2. CASE turns'[k] = new
          BY <1>6, <5>0, <5>2, Zenon
        <5>3. (k \in DOMAIN turns /\ turns'[k] = turns[k]) \/ turns'[k] = new
          <6>1. CASE turns' = turns
            BY <4>2, <6>1
          <6>2. CASE turns' = Append(turns, new)
            <7>0. k \in 1..(Len(turns) + 1)
              BY <1>7, <4>2, <6>2, Zenon
            <7>1. k \in 1..Len(turns) \/ k = Len(turns) + 1
              BY <1>7, <7>0
            <7> QED
              BY <1>7, <6>2, <7>1
          <6> QED
            BY <3>3, <6>1, <6>2
        <5> QED
          BY <5>1, <5>2, <5>3
      <4> QED
        <5>1. S!Rising(shown')
          BY <3>3, <4>1
        <5>2. S!ToSet(turns') \subseteq S!ToSet(shown')
          BY <3>3, <4>2 DEF S!ToSet
        <5> QED
          BY <5>1, <5>2 DEF S!InOrder, S!Rising, S!ToSet
    <3> QED
      BY <1>8, <3>2, <3>3
  <2>4. \E l \in Nat : Ordered(l)'
    BY <2>2
  <2> QED
    BY <1>1, <2>3, <2>4 DEF Words
<1>11. Settled'
  <2>1. Unstopped(queue)' = Unstopped(queue) /\ (StopLast(queue)' <=> StopLast(queue))
    BY DEF Unstopped, StopLast
  <2> QED
    BY <1>1, <2>1 DEF Settled
<1>12. Levels'
  BY <1>1 DEF Levels, S!OneAlarm
<1> QED
  BY <1>9, <1>10, <1>11, <1>12 DEF SpeechInv

LEMMA TranscribesKeeps == ASSUME SpeechInv, S!Transcribes PROVE SpeechInv'
<1>1. /\ worker = "busy" /\ worker' = "waits" /\ busy' = 0
      /\ UNCHANGED <<queue, reader, stop, late, silent, alerted, alarms>>
  BY DEF S!Transcribes, S!levels, S!None
<1>2. /\ SpeechTyped /\ stats \in [S!Counters -> 0..MaxSegs]
      /\ stats.transcribed \in Nat /\ stats.errors \in Nat /\ stats.skipped \in Nat /\ stats.abandoned \in Nat
  BY SpeechHas
<1>3. busy # 0 /\ ~disabled /\ disabled \in BOOLEAN /\ trouble \in 0..MaxTrouble
  BY <1>1, <1>2 DEF SpeechTyped
<1>4. S!Trouble => trouble' \in 0..MaxTrouble
  BY <1>3, SpeechFacts DEF S!Trouble
<1>5. ASSUME NEW k \in {"transcribed", "errors"}, S!Count(k), UNCHANGED disabled
      PROVE  /\ stats' \in [S!Counters -> 0..MaxSegs] /\ DealtWith' = DealtWith
             /\ stats'.submitted = stats.submitted /\ stats'.dropped = stats.dropped
  <2>1. /\ stats' \in [S!Counters -> 0..MaxSegs]
        /\ stats'.submitted = stats.submitted /\ stats'.dropped = stats.dropped
        /\ stats'.transcribed + stats'.errors + stats'.skipped + stats'.abandoned
           = stats.transcribed + stats.errors + stats.skipped + stats.abandoned + 1
    BY <1>1, <1>5, CountsMore
  <2>2. DealtWith' = DealtWith
    BY <1>1, <1>2, <1>3, <1>5, <2>1 DEF DealtWith
  <2> QED
    BY <2>1, <2>2
<1>6. CASE S!Count("transcribed") /\ UNCHANGED <<disabled, trouble>> /\ UNCHANGED <<nextIdx, turns, shown>>
  BY <1>1, <1>3, <1>5, <1>6, ThroughKeeps
<1>7. CASE /\ S!Count("transcribed") /\ UNCHANGED disabled
           /\ \E ok \in BOOLEAN :
                 /\ IF ok THEN trouble' = trouble ELSE S!Trouble
                 /\ nextIdx' = S!NextIdx(ok)
                 /\ turns' = IF ok THEN Append(turns, [idx |-> nextIdx, seg |-> busy]) ELSE turns
                 /\ shown' = Append(shown, [idx |-> nextIdx, seg |-> busy])
  <2>1. /\ nextIdx' = nextIdx + 1 /\ shown' = Append(shown, [idx |-> nextIdx, seg |-> busy])
        /\ turns' = turns \/ turns' = Append(turns, [idx |-> nextIdx, seg |-> busy])
        /\ trouble' \in 0..MaxTrouble
    BY <1>3, <1>4, <1>7 DEF S!NextIdx
  <2> QED
    BY <1>1, <1>3, <1>5, <1>7, <2>1, ThroughKeeps
<1>8. CASE S!Trouble /\ S!Count("errors") /\ UNCHANGED <<disabled, nextIdx, turns, shown>>
  BY <1>1, <1>3, <1>4, <1>5, <1>8, ThroughKeeps
<1>9. CASE S!Trouble /\ disabled' = TRUE /\ UNCHANGED <<stats, nextIdx, turns, shown>>
  <2>1. DealtWith' = DealtWith
    BY <1>1, <1>2, <1>3, <1>9 DEF DealtWith
  <2> QED
    BY <1>1, <1>2, <1>4, <1>9, <2>1, ThroughKeeps
<1> QED
  BY <1>6, <1>7, <1>8, <1>9 DEF S!Transcribes, S!sink

LEMMA SpeechStep == SpeechInv /\ [S!Next]_(S!vars) => SpeechInv'
  BY SpeechControl, SpeechBeside, SpeaksKeeps, PutsStopKeeps, GetsKeeps, TranscribesKeeps
     DEF S!Next, S!Stopping, S!Reading, S!Working

LEMMA SpeechHolds == SpeechInv => S!TypeOK /\ S!Accounted /\ S!InOrder /\ S!OneAlarm /\ S!NeverStuck
<1> SUFFICES ASSUME SpeechInv PROVE S!TypeOK /\ S!Accounted /\ S!InOrder /\ S!OneAlarm /\ S!NeverStuck
  OBVIOUS
<1>1. /\ SpeechTyped /\ Words /\ Settled /\ Levels /\ DealtWith \in Nat /\ stats.dropped \in Nat
      /\ queue \in Seq(SegNumbers \cup {Stop})
      /\ stats.transcribed \in Nat /\ stats.errors \in Nat /\ stats.skipped \in Nat /\ stats.abandoned \in Nat
  BY SpeechHas
<1>2. S!TypeOK
  BY <1>1 DEF SpeechTyped, Levels, S!TypeOK
<1>3. S!InOrder /\ S!OneAlarm
  BY <1>1 DEF Words, Levels
<1>4. ASSUME ~late
      PROVE  stats.submitted = stats.transcribed + stats.dropped + stats.errors + stats.skipped + stats.abandoned
                               + S!Waiting + (IF disabled THEN 1 ELSE 0)
  <2>1. stats.submitted = DealtWith + stats.dropped + Unstopped(queue) /\ StopLast(queue)
    BY <1>1, <1>4 DEF Settled
  <2>2. Unstopped(queue) \in Int
    <3>1. Unstopped(queue) = Len(queue) \/ Unstopped(queue) = Len(queue) - 1
      BY <1>1, <2>1, UnstoppedIs
    <3>2. Len(queue) \in Nat
      BY <1>1
    <3> QED
      BY <3>1, <3>2
  <2>3. S!Waiting = Unstopped(queue) + (IF busy = 0 THEN 0 ELSE 1)
    BY Zenon DEF S!Waiting, S!None, Unstopped, S!Cardinality, Cardinality
  <2>4. PICK u \in Int : u = Unstopped(queue)
    BY <2>2
  <2>5. /\ u \in Int /\ stats.submitted = DealtWith + stats.dropped + u
        /\ S!Waiting = u + (IF busy = 0 THEN 0 ELSE 1)
    BY <2>1, <2>3, <2>4
  <2>6. PICK b \in Int, d \in Int : b = (IF busy = 0 THEN 0 ELSE 1) /\ d = (IF disabled THEN 1 ELSE 0)
    OBVIOUS
  <2>8. DealtWith = stats.transcribed + stats.errors + stats.skipped + stats.abandoned + b + d
    BY <2>6, Zenon DEF DealtWith
  <2>9. /\ stats.transcribed \in Int /\ stats.errors \in Int /\ stats.skipped \in Int
        /\ stats.abandoned \in Int /\ stats.dropped \in Int
    BY <1>1
  <2>10. stats.submitted = stats.transcribed + stats.errors + stats.skipped + stats.abandoned + b + d
                           + stats.dropped + u
    BY <2>5, <2>8, Zenon
  <2>11. stats.submitted = stats.transcribed + stats.dropped + stats.errors + stats.skipped + stats.abandoned
                           + (u + b) + d
    BY <2>6, <2>9, <2>10
  <2> QED
    BY <2>5, <2>6, <2>11, Zenon
<1>5. S!Accounted
  BY <1>4 DEF S!Accounted
<1>6. S!NeverStuck
  <2> SUFFICES ASSUME ~late
               PROVE  /\ stop = "put" => Len(queue) < MaxQueue \/ worker \in {"busy", "waits"}
                      /\ stop = "join" => worker \in {"busy", "done"} \/ queue # <<>>
    BY DEF S!NeverStuck, S!At
  <2>1. worker \in {"waits", "busy", "done", "none"}
    BY <1>1 DEF SpeechTyped
  <2> QED
    BY <1>1, <2>1 DEF Settled, After
<1> QED
  BY <1>2, <1>3, <1>5, <1>6

(* Live words come in the order they were spoken and every segment is      *)
(* accounted for, a silence is reported once until there is a sound, and   *)
(* the end of a call waits for nothing that does not come                  *)
(* (stream_asr.LiveTranscriber, levels.Levels, supervisor.CaptureSession). *)
THEOREM WordsAreTrue == AllSpec => []WordsTrue
<1> DEFINE Inv == part = "speech" => SpeechInv
<1>1. AllInit => Inv
  BY SpeechInit DEF AllInit
<1>2. Inv /\ [AllNext]_<<part, vars, vvars, svars>> => Inv'
  <2> SUFFICES ASSUME Inv, [AllNext]_<<part, vars, vvars, svars>>, part' = "speech" PROVE SpeechInv'
    OBVIOUS
  <2>1. part = "speech" /\ [S!Next]_(S!vars)
    BY DEF AllNext, svars, S!vars, S!asr, S!sink, S!levels
  <2> QED
    BY <2>1, SpeechStep
<1>3. Inv => WordsTrue
  BY SpeechHolds DEF WordsTrue
<1> QED
  BY <1>1, <1>2, <1>3, PTL DEF AllSpec

----------------------------------------------------------------------------
(* Every set of numbers has a least one: what induction is done with here, *)
(* over an index into blocks.                                              *)
LEMMA LeastOne == ASSUME NEW T \in SUBSET Nat, T # {} PROVE \E m \in T : \A k \in T : m <= k
<1> DEFINE R == {p \in Nat \X Nat : p[1] < p[2]}
<1>1. IsWellFoundedOn(R, Nat)
  BY NatLessThanWellFounded DEF OpToRel
<1>2. \A x, y \in Nat : x < y => <<x, y>> \in R
  OBVIOUS
<1> HIDE DEF R
<1>3. PICK m \in T : \A y \in T : ~ (<<y, m>> \in R)
  BY <1>1, WFMin
<1>4. ASSUME NEW y \in T, y < m PROVE FALSE
  <2>1. <<y, m>> \in R
    BY <1>2, <1>4
  <2> QED
    BY <1>3, <2>1
<1> QED
  BY <1>4

(* Induction over the numbers from a to N, from the least one a set lacks. *)
LEMMA Upwards ==
  ASSUME NEW a \in Nat, NEW N \in Nat, NEW Ix, a \in Ix, \A n \in (a + 1)..N : n - 1 \in Ix => n \in Ix
  PROVE  a..N \subseteq Ix
<1> SUFFICES ASSUME (a..N) \ Ix # {} PROVE FALSE
  OBVIOUS
<1>1. PICK m \in (a..N) \ Ix : \A k \in (a..N) \ Ix : m <= k
  <2>1. (a..N) \ Ix \in SUBSET Nat
    OBVIOUS
  <2> QED
    BY <2>1, LeastOne
<1>2. m \in (a + 1)..N /\ m - 1 \in a..N /\ ~(m <= m - 1)
  BY <1>1
<1> QED
  BY <1>1, <1>2

(* The largest of some numbers that have a bound, and the smallest.        *)
LEMMA MaxIs ==
  ASSUME NEW T, NEW p \in Nat, T \subseteq 0..p, T # {}
  PROVE  V!Max(T) \in T /\ \A x \in T : x <= V!Max(T)
<1> DEFINE U == {p - x : x \in T}
<1>1. U \in SUBSET Nat /\ U # {}
  <2>1. \A x \in T : p - x \in Nat
    OBVIOUS
  <2> QED
    BY <2>1
<1>2. PICK u \in U : \A k \in U : u <= k
  BY <1>1, LeastOne
<1>3. PICK x \in T : u = p - x
  BY <1>2
<1>4. \A y \in T : y <= x
  BY <1>2, <1>3
<1>5. \E z \in T : \A y \in T : z >= y
  BY <1>4
<1>6. V!Max(T) \in T /\ \A y \in T : V!Max(T) >= y
  BY <1>5 DEF V!Max
<1> QED
  BY <1>6

LEMMA MinIs ==
  ASSUME NEW T \in SUBSET Nat, T # {}
  PROVE  V!Min(T) \in T /\ \A x \in T : V!Min(T) <= x
BY LeastOne DEF V!Min

LEMMA Pair ==
  ASSUME NEW a \in Int, NEW b \in Int
  PROVE  /\ V!Min({a, b}) = IF a <= b THEN a ELSE b
         /\ V!Max({a, b}) = IF a >= b THEN a ELSE b
BY DEF V!Min, V!Max

(* The numbers of the detector.                                            *)
LEMMA BlockSize ==
  Block \in Nat /\ Block >= 1 /\ 0 \in 0..Block - 1 /\ \A x \in 0..Block - 1 : x \in Nat /\ x < Block
BY PartsConstants DEF V!VadConstants

LEMMA Lengths ==
  /\ Block \in Nat \ {0} /\ Onset \in Nat \ {0} /\ MinSegment \in Nat /\ MaxSegment \in Nat
  /\ Silence \in Nat \ {0} /\ MinSpeech \in Nat \ {0} /\ SplitSearch \in Nat
  /\ Preroll \in Nat /\ KeepTail \in Nat /\ MaxFeed \in Nat /\ MaxGap \in Nat /\ End \in Nat
  /\ (Preroll + Onset) * Block <= MaxSegment
  /\ 2 * (MinSpeech + Block) <= SplitSearch + 2
  /\ 2 * MinSpeech + Block <= MaxSegment + 1
BY PartsConstants DEF V!VadConstants

----------------------------------------------------------------------------
(* Blocks that follow each other, up to p; but for the last one of a call  *)
(* they are whole.                                                         *)
Blks == {b \in [start : Nat, len : 1..Block, speech : BOOLEAN, db : 0..2] : b.speech <=> b.db > 0}
Whole(bs) == \A k \in DOMAIN bs : bs[k].len = Block
Run(bs, p) ==
    /\ bs \in Seq(Blks) /\ V!Gapless(bs)
    /\ \A k \in DOMAIN bs : k < Len(bs) => bs[k].len = Block
    /\ bs # <<>> => V!BlockEnd(bs[Len(bs)]) = p

LEMMA BlkFacts ==
  ASSUME NEW b \in Blks
  PROVE  /\ b.start \in Nat /\ b.len \in Nat /\ 1 <= b.len /\ b.len <= Block
         /\ b.speech \in BOOLEAN /\ b.db \in 0..2 /\ (b.speech <=> b.db > 0)
         /\ V!BlockEnd(b) \in Nat /\ V!BlockEnd(b) = b.start + b.len
BY Lengths DEF Blks, V!BlockEnd

LEMMA BlockIs ==
  ASSUME NEW start \in Nat, NEW len \in 1..Block, NEW kind \in V!Kinds
  PROVE  /\ V!BlockAt(start, len, kind) \in Blks
         /\ V!BlockAt(start, len, kind).start = start
         /\ V!BlockEnd(V!BlockAt(start, len, kind)) = start + len
<1>1. /\ kind.speech \in BOOLEAN /\ kind.db \in 0..2 /\ (kind.speech <=> kind.db > 0)
  <2>1. \/ kind = [speech |-> FALSE, db |-> 0] \/ kind = [speech |-> TRUE, db |-> 1]
        \/ kind = [speech |-> TRUE, db |-> 2]
    BY DEF V!Kinds, V!Quiet
  <2>2. (kind.speech = FALSE /\ kind.db = 0) \/ (kind.speech = TRUE /\ kind.db \in {1, 2})
    BY <2>1
  <2>3. kind.speech \in BOOLEAN
    BY <2>2, Zenon
  <2>4. kind.db \in 0..2
    BY <2>2
  <2>5. (kind.speech = FALSE /\ ~(kind.db > 0)) \/ (kind.speech = TRUE /\ kind.db > 0)
    BY <2>2
  <2> QED
    BY <2>3, <2>4, <2>5, Zenon
<1>2. V!BlockAt(start, len, kind) \in [start : Nat, len : 1..Block, speech : BOOLEAN, db : 0..2]
  BY <1>1 DEF V!BlockAt
<1>3. /\ V!BlockAt(start, len, kind).speech = kind.speech /\ V!BlockAt(start, len, kind).db = kind.db
      /\ V!BlockAt(start, len, kind).start = start /\ V!BlockAt(start, len, kind).len = len
  BY DEF V!BlockAt
<1> QED
  BY <1>1, <1>2, <1>3 DEF Blks, V!BlockEnd

(* What comes earlier in a run ends earlier; n blocks are as long as n.    *)
LEMMA RunOrder ==
  ASSUME NEW p, NEW bs, Run(bs, p), NEW i \in DOMAIN bs, NEW j \in DOMAIN bs, i < j
  PROVE  V!BlockEnd(bs[i]) <= bs[j].start
<1> DEFINE N == Len(bs)
           Ix == {n \in (i + 1)..N : V!BlockEnd(bs[i]) <= bs[n].start}
<1>1. /\ N \in Nat /\ DOMAIN bs = 1..N /\ \A n \in 1..N : bs[n] \in Blks
      /\ \A n \in 2..N : bs[n].start = V!BlockEnd(bs[n - 1])
  BY DEF Run, V!Gapless
<1>2. \A n \in 1..N : /\ V!BlockEnd(bs[n]) \in Nat /\ bs[n].start \in Nat
                      /\ bs[n].start <= V!BlockEnd(bs[n])
  BY <1>1, BlkFacts
<1> HIDE DEF N
<1>3. i + 1 \in Ix
  <2>1. i \in 1..N /\ i + 1 \in 2..N /\ i + 1 \in 1..N /\ i + 1 \in (i + 1)..N
    BY <1>1
  <2>2. PICK a \in 2..N : a = i + 1
    BY <2>1
  <2>3. bs[a].start = V!BlockEnd(bs[a - 1]) /\ a - 1 = i
    BY <1>1, <2>1, <2>2
  <2>4. V!BlockEnd(bs[i]) <= bs[a].start
    BY <1>2, <2>1, <2>3
  <2> QED
    BY <2>1, <2>2, <2>4
<1>4. ASSUME NEW n \in (i + 1 + 1)..N, n - 1 \in Ix PROVE n \in Ix
  <2>1. n \in 2..N /\ n - 1 \in 1..N /\ n \in 1..N /\ n \in (i + 1)..N
    BY <1>1
  <2>2. V!BlockEnd(bs[i]) <= bs[n - 1].start /\ bs[n].start = V!BlockEnd(bs[n - 1])
    BY <1>1, <1>4, <2>1
  <2>3. /\ V!BlockEnd(bs[i]) \in Nat /\ bs[n].start \in Nat
        /\ bs[n - 1].start \in Nat /\ V!BlockEnd(bs[n - 1]) \in Nat /\ bs[n - 1].start <= V!BlockEnd(bs[n - 1])
    BY <1>1, <1>2, <2>1
  <2>4. V!BlockEnd(bs[i]) <= bs[n].start
    BY <2>2, <2>3
  <2> QED
    BY <2>1, <2>4
<1> HIDE DEF Ix
<1>6. i + 1 \in Nat
  BY <1>1
<1>5. (i + 1)..N \subseteq Ix
  BY <1>1, <1>3, <1>4, <1>6, Upwards
<1> QED
  BY <1>1, <1>5 DEF Ix

LEMMA RunLength ==
  ASSUME NEW p \in Nat, NEW bs, Run(bs, p), bs # <<>>
  PROVE  p - bs[1].start <= Len(bs) * Block
<1> DEFINE N == Len(bs)
           Ix == {n \in 1..N : V!BlockEnd(bs[n]) - bs[1].start <= n * Block}
<1>1. /\ N \in Nat \ {0} /\ DOMAIN bs = 1..N /\ \A n \in 1..N : bs[n] \in Blks
      /\ \A n \in 2..N : bs[n].start = V!BlockEnd(bs[n - 1])
      /\ V!BlockEnd(bs[N]) = p
  BY DEF Run, V!Gapless
<1>2. \A n \in 1..N : /\ V!BlockEnd(bs[n]) \in Nat /\ bs[n].start \in Nat
                      /\ V!BlockEnd(bs[n]) - bs[n].start <= Block
  <2> SUFFICES ASSUME NEW n \in 1..N
               PROVE  /\ V!BlockEnd(bs[n]) \in Nat /\ bs[n].start \in Nat
                      /\ V!BlockEnd(bs[n]) - bs[n].start <= Block
    OBVIOUS
  <2>1. bs[n] \in Blks
    BY <1>1
  <2> HIDE DEF N
  <2> QED
    BY <2>1, BlkFacts, Lengths
<1> HIDE DEF N
<1>3. 1 \in Ix
  <2>1. 1 \in 1..N /\ 1 * Block = Block
    BY <1>1, Lengths
  <2> QED
    BY <1>2, <2>1
<1>4. ASSUME NEW n \in (1 + 1)..N, n - 1 \in Ix PROVE n \in Ix
  <2>0. n \in 2..N /\ n \in 1..N /\ n - 1 \in 1..N
    BY <1>1
  <2>1. (n - 1) * Block + Block = n * Block
    BY Lengths
  <2>2. V!BlockEnd(bs[n - 1]) - bs[1].start <= (n - 1) * Block
    BY <1>4
  <2>3. (n - 1) * Block \in Int /\ n * Block \in Int
    BY Lengths
  <2> QED
    <3>1. bs[n].start = V!BlockEnd(bs[n - 1])
      BY <1>1, <2>0
    <3>2. /\ V!BlockEnd(bs[n]) - bs[n].start <= Block /\ V!BlockEnd(bs[n]) \in Nat
          /\ V!BlockEnd(bs[n - 1]) \in Nat /\ bs[1].start \in Nat
      BY <1>1, <1>2, <2>0
    <3>3. V!BlockEnd(bs[n]) - bs[1].start <= n * Block
      <4> DEFINE x == (n - 1) * Block
                 y == n * Block
      <4>1. x + Block = y /\ V!BlockEnd(bs[n - 1]) - bs[1].start <= x /\ x \in Int /\ y \in Int
        BY <2>1, <2>2, <2>3
      <4> HIDE DEF x, y
      <4> QED
        BY <3>1, <3>2, <4>1, BlockSize DEF y
    <3> QED
      BY <2>0, <3>3
<1> HIDE DEF Ix
<1>5. 1..N \subseteq Ix
  BY <1>1, <1>3, <1>4, Upwards
<1> QED
  BY <1>1, <1>5 DEF Ix, N

(* A part of a run is a run.                                               *)
LEMMA PartOfRun ==
  ASSUME NEW p, NEW bs, Run(bs, p), NEW i \in 1..Len(bs) + 1, NEW j \in 0..Len(bs), i <= j + 1
  PROVE  /\ SubSeq(bs, i, j) \in Seq(Blks) /\ Len(SubSeq(bs, i, j)) = j - i + 1
         /\ \A k \in 1..(j - i + 1) : SubSeq(bs, i, j)[k] = bs[k + i - 1]
         /\ \A k \in i..j : k - i + 1 \in 1..(j - i + 1) /\ SubSeq(bs, i, j)[k - i + 1] = bs[k]
         /\ i <= j => Run(SubSeq(bs, i, j), V!BlockEnd(bs[j])) /\ SubSeq(bs, i, j) # <<>>
         /\ i = j + 1 => SubSeq(bs, i, j) = <<>>
         /\ Run(SubSeq(bs, i, Len(bs)), p)
<1> DEFINE N == Len(bs)
<1>1. /\ N \in Nat /\ bs \in Seq(Blks) /\ \A k \in 2..N : bs[k].start = V!BlockEnd(bs[k - 1])
      /\ \A k \in 1..N : k < N => bs[k].len = Block
  BY DEF Run, V!Gapless
<1>2. ASSUME NEW a \in 1..N + 1, NEW b \in 0..N, a <= b + 1
      PROVE  /\ SubSeq(bs, a, b) \in Seq(Blks) /\ Len(SubSeq(bs, a, b)) = b - a + 1
             /\ \A k \in 1..(b - a + 1) : SubSeq(bs, a, b)[k] = bs[k + a - 1]
  <2>1. \A k \in a..b : bs[k] \in Blks
    BY <1>1
  <2>2. Len(SubSeq(bs, a, b)) = b - a + 1
    BY <1>1, <1>2
  <2>3. \A k \in 1..(b - a + 1) : SubSeq(bs, a, b)[k] = bs[k + a - 1]
    BY <1>1, <1>2
  <2>4. SubSeq(bs, a, b) \in Seq(Blks)
    BY <2>1, SubSeqProperties, <1>1, <1>2
  <2> QED
    BY <2>2, <2>3, <2>4
<1>3. ASSUME NEW a \in 1..N + 1, NEW b \in 0..N, a <= b + 1
      PROVE  V!Gapless(SubSeq(bs, a, b))
  <2> SUFFICES ASSUME NEW k \in 2..(b - a + 1)
               PROVE  SubSeq(bs, a, b)[k].start = V!BlockEnd(SubSeq(bs, a, b)[k - 1])
    BY <1>2, <1>3 DEF V!Gapless
  <2>1. k \in 1..(b - a + 1) /\ k - 1 \in 1..(b - a + 1) /\ k + a - 1 \in 2..N /\ (k - 1) + a - 1 = (k + a - 1) - 1
    BY <1>1, <1>3
  <2> HIDE DEF N
  <2> QED
    BY <1>1, <1>2, <1>3, <2>1
<1>4. ASSUME NEW a \in 1..N + 1, NEW b \in 0..N, a <= b
      PROVE  Run(SubSeq(bs, a, b), V!BlockEnd(bs[b])) /\ SubSeq(bs, a, b) # <<>>
  <2>1. /\ a <= b + 1 /\ Len(SubSeq(bs, a, b)) = b - a + 1 /\ b - a + 1 \in 1..(b - a + 1)
        /\ b - a + 1 + a - 1 = b /\ b - a + 1 # 0
    BY <1>1, <1>2, <1>4
  <2>2. ASSUME NEW k \in 1..(b - a + 1), k < b - a + 1 PROVE SubSeq(bs, a, b)[k].len = Block
    <3>1. SubSeq(bs, a, b)[k] = bs[k + a - 1] /\ k + a - 1 \in 1..N /\ k + a - 1 < N
      BY <1>1, <1>2, <1>4, <2>1, <2>2
    <3> QED
      BY <1>1, <3>1
  <2>3. SubSeq(bs, a, b)[b - a + 1] = bs[b]
    BY <1>1, <1>2, <1>4, <2>1
  <2> HIDE DEF N
  <2>4. /\ SubSeq(bs, a, b) \in Seq(Blks) /\ V!Gapless(SubSeq(bs, a, b))
        /\ DOMAIN SubSeq(bs, a, b) = 1..(b - a + 1)
    BY <1>2, <1>3, <1>4, <2>1
  <2> QED
    BY <2>1, <2>2, <2>3, <2>4 DEF Run
<1>5. ASSUME NEW a \in 1..N + 1, NEW b \in 0..N, a = b + 1 PROVE SubSeq(bs, a, b) = <<>>
  BY <1>1, <1>2, <1>5
<1>6. Run(SubSeq(bs, i, N), p)
  <2>1. CASE i <= N
    <3>1. V!BlockEnd(bs[N]) = p
      BY <1>1, <2>1 DEF Run
    <3> QED
      BY <1>1, <1>4, <2>1, <3>1
  <2>2. CASE i = N + 1
    <3>1. SubSeq(bs, i, N) = <<>>
      BY <1>1, <1>5, <2>2
    <3> QED
      BY <3>1 DEF Run, V!Gapless
  <2> QED
    BY <1>1, <2>1, <2>2
<1>7. \A k \in i..j : k - i + 1 \in 1..(j - i + 1) /\ (k - i + 1) + i - 1 = k
  BY <1>1
<1>8. i <= j => Run(SubSeq(bs, i, j), V!BlockEnd(bs[j])) /\ SubSeq(bs, i, j) # <<>>
  BY <1>4
<1>9. i = j + 1 => SubSeq(bs, i, j) = <<>>
  BY <1>5
<1>10. /\ SubSeq(bs, i, j) \in Seq(Blks) /\ Len(SubSeq(bs, i, j)) = j - i + 1
       /\ \A k \in 1..(j - i + 1) : SubSeq(bs, i, j)[k] = bs[k + i - 1]
  BY <1>2
<1>11. \A k \in i..j : k - i + 1 \in 1..(j - i + 1) /\ SubSeq(bs, i, j)[k - i + 1] = bs[k]
  BY <1>7, <1>10
<1> HIDE DEF N
<1> QED
  BY <1>6, <1>8, <1>9, <1>10, <1>11 DEF N

LEMMA LongerRun ==
  ASSUME NEW p, NEW bs, Run(bs, p), Whole(bs), NEW b \in Blks, b.start = p
  PROVE  /\ Run(Append(bs, b), V!BlockEnd(b)) /\ Append(bs, b) # <<>>
         /\ b.len = Block => Whole(Append(bs, b))
         /\ Len(Append(bs, b)) = Len(bs) + 1 /\ Append(bs, b)[Len(bs) + 1] = b
         /\ \A k \in 1..Len(bs) : Append(bs, b)[k] = bs[k]
         /\ Len(bs) \in Nat
<1>1. /\ Append(bs, b) \in Seq(Blks) /\ Len(bs) \in Nat
      /\ Len(Append(bs, b)) = Len(bs) + 1 /\ Append(bs, b)[Len(bs) + 1] = b
      /\ \A k \in 1..Len(bs) : Append(bs, b)[k] = bs[k]
  BY DEF Run
<1>2. V!Gapless(Append(bs, b))
  <2> SUFFICES ASSUME NEW k \in 2..(Len(bs) + 1)
               PROVE  Append(bs, b)[k].start = V!BlockEnd(Append(bs, b)[k - 1])
    BY <1>1 DEF V!Gapless
  <2>1. CASE k <= Len(bs)
    <3>1. k \in 1..Len(bs) /\ k - 1 \in 1..Len(bs) /\ k \in 2..Len(bs)
      BY <1>1, <2>1
    <3> QED
      BY <1>1, <3>1 DEF Run, V!Gapless
  <2>2. CASE k = Len(bs) + 1
    <3>1. k - 1 = Len(bs) /\ Len(bs) \in 1..Len(bs) /\ bs # <<>>
      BY <1>1, <2>2
    <3> QED
      BY <1>1, <2>2, <3>1 DEF Run
  <2> QED
    BY <1>1, <2>1, <2>2
<1>3. Append(bs, b) # <<>> /\ DOMAIN Append(bs, b) = 1..(Len(bs) + 1)
  BY <1>1
<1>4. ASSUME NEW k \in 1..(Len(bs) + 1) PROVE k = Len(bs) + 1 \/ Append(bs, b)[k].len = Block
  <2>1. k = Len(bs) + 1 \/ (k \in 1..Len(bs) /\ k \in DOMAIN bs)
    BY <1>1 DEF Run
  <2> QED
    BY <1>1, <2>1 DEF Whole
<1> QED
  BY <1>1, <1>2, <1>3, <1>4 DEF Run, Whole

(* The speech of a run is at least that of any stretch in it.              *)
Sums(bs, N, f) ==
    f = [i \in 0..N |-> IF i = 0 THEN 0 ELSE IF bs[i].speech THEN f[i - 1] + bs[i].len ELSE f[i - 1]]

LEMMA SumSteps ==
  ASSUME NEW bs, NEW N \in Nat, NEW f, Sums(bs, N, f)
  PROVE  /\ f[0] = 0
         /\ \A n \in 1..N : f[n] = IF bs[n].speech THEN f[n - 1] + bs[n].len ELSE f[n - 1]
<1> DEFINE Entry(i) == IF i = 0 THEN 0
                       ELSE IF bs[i].speech THEN f[i - 1] + bs[i].len ELSE f[i - 1]
<1>1. f = [i \in 0..N |-> Entry(i)]
  BY DEF Sums
<1> HIDE DEF Entry
<1>2. \A i \in 0..N : f[i] = Entry(i)
  BY <1>1
<1>3. 0 \in 0..N /\ \A n \in 1..N : n \in 0..N /\ n # 0
  OBVIOUS
<1> QED
  BY <1>2, <1>3, Zenon DEF Entry

LEMMA SumExists == ASSUME NEW bs, NEW N \in Nat PROVE \E f : Sums(bs, N, f)
<1> DEFINE Ix == {n \in 0..N : \E f : Sums(bs, n, f)}
<1>1. 0 \in Ix
  <2> DEFINE z == [i \in 0..0 |-> 0]
  <2>1. z = [i \in 0..0 |-> z[i]] /\ \A i \in 0..0 : z[i] = 0 /\ i = 0
    OBVIOUS
  <2> HIDE DEF z
  <2>2. \A i \in 0..0 : z[i] = IF i = 0 THEN 0 ELSE IF bs[i].speech THEN z[i - 1] + bs[i].len ELSE z[i - 1]
    BY <2>1
  <2>3. Sums(bs, 0, z)
    BY <2>1, <2>2 DEF Sums
  <2> QED
    BY <2>3
<1>2. ASSUME NEW n \in (0 + 1)..N, n - 1 \in Ix PROVE n \in Ix
  <2>1. PICK f : Sums(bs, n - 1, f)
    BY <1>2
  <2> DEFINE last == IF bs[n].speech THEN f[n - 1] + bs[n].len ELSE f[n - 1]
             g == [i \in 0..n |-> IF i = n THEN last ELSE f[i]]
  <2>2. n - 1 \in Nat /\ n \in Nat /\ n # 0
    OBVIOUS
  <2>3. /\ f[0] = 0
        /\ \A i \in 1..(n - 1) : f[i] = IF bs[i].speech THEN f[i - 1] + bs[i].len ELSE f[i - 1]
    BY <2>1, <2>2, SumSteps
  <2>4. g[n] = last /\ \A i \in 0..(n - 1) : g[i] = f[i]
    BY <2>2
  <2>5. g = [i \in 0..n |-> g[i]]
    OBVIOUS
  <2> HIDE DEF g
  <2>6. ASSUME NEW i \in 0..n
        PROVE  g[i] = IF i = 0 THEN 0 ELSE IF bs[i].speech THEN g[i - 1] + bs[i].len ELSE g[i - 1]
    <3>1. CASE i = 0
      BY <2>2, <2>3, <2>4, <3>1
    <3>2. CASE i \in 1..(n - 1)
      <4>1. i \in 0..(n - 1) /\ i - 1 \in 0..(n - 1) /\ i # 0
        BY <2>2, <3>2
      <4> QED
        BY <2>3, <2>4, <3>2, <4>1, Zenon
    <3>3. CASE i = n
      <4>1. i - 1 \in 0..(n - 1) /\ i # 0
        BY <2>2, <3>3
      <4> QED
        BY <2>4, <3>3, <4>1, Zenon
    <3> QED
      BY <2>2, <3>1, <3>2, <3>3
  <2>7. Sums(bs, n, g)
    BY <2>5, <2>6 DEF Sums
  <2> QED
    BY <2>2, <2>7
<1> HIDE DEF Ix
<1>3. 0..N \subseteq Ix
  BY <1>1, <1>2, Upwards
<1> QED
  BY <1>3 DEF Ix

LEMMA SpokenIs ==
  ASSUME NEW p, NEW bs, Run(bs, p), NEW i \in DOMAIN bs, NEW j \in DOMAIN bs, i <= j,
         \A k \in i..j : bs[k].speech
  PROVE  V!Spoken(bs) \in Nat /\ V!Spoken(bs) >= V!BlockEnd(bs[j]) - bs[i].start
<1> DEFINE N == Len(bs)
           f == CHOOSE f : Sums(bs, N, f)
<1>1. /\ N \in Nat /\ DOMAIN bs = 1..N /\ \A n \in 1..N : bs[n] \in Blks
      /\ \A n \in 2..N : bs[n].start = V!BlockEnd(bs[n - 1])
  BY DEF Run, V!Gapless
<1>2. Sums(bs, N, f)
  BY <1>1, SumExists
<1>3. V!Spoken(bs) = f[N]
  BY DEF V!Spoken, Sums
<1> HIDE DEF f, N
<1>0. N \in Nat
  BY <1>1
<1>4. /\ f[0] = 0
      /\ \A n \in 1..N : f[n] = IF bs[n].speech THEN f[n - 1] + bs[n].len ELSE f[n - 1]
  <2>1. f[0] = 0
    BY <1>0, <1>2, SumSteps
  <2>2. \A n \in 1..N : f[n] = IF bs[n].speech THEN f[n - 1] + bs[n].len ELSE f[n - 1]
    BY <1>0, <1>2, SumSteps
  <2> QED
    BY <2>1, <2>2
<1>5. ASSUME NEW n \in 1..N PROVE bs[n].start \in Nat /\ bs[n].len \in Nat /\ V!BlockEnd(bs[n]) = bs[n].start + bs[n].len
  <2>1. bs[n] \in Blks
    BY <1>1
  <2> QED
    BY <2>1, BlkFacts
<1> DEFINE Ix == {n \in 0..N : f[n] \in Nat}
<1>6. 0..N \subseteq Ix
  <2>1. 0 \in Ix
    BY <1>1, <1>4
  <2>2. ASSUME NEW n \in (0 + 1)..N, n - 1 \in Ix PROVE n \in Ix
    <3>1. n \in 1..N /\ f[n - 1] \in Nat
      BY <1>1, <2>2
    <3>2. f[n] = f[n - 1] + bs[n].len \/ f[n] = f[n - 1]
      BY <1>4, <3>1
    <3> QED
      BY <1>1, <1>5, <3>1, <3>2
  <2> HIDE DEF Ix
  <2> QED
    BY <1>1, <2>1, <2>2, Upwards
<1> DEFINE T == {n \in i..j : f[n] >= V!BlockEnd(bs[n]) - bs[i].start}
<1>7. i..j \subseteq T
  <2>1. i \in T
    <3>1. i \in 1..N /\ i \in i..j /\ i - 1 \in 0..N
      BY <1>1
    <3>2. f[i] = f[i - 1] + bs[i].len /\ f[i - 1] \in Nat
      BY <1>4, <1>6, <3>1
    <3> QED
      BY <1>5, <3>1, <3>2
  <2>2. ASSUME NEW n \in (i + 1)..j, n - 1 \in T PROVE n \in T
    <3>1. n \in 1..N /\ n \in 2..N /\ n - 1 \in 1..N /\ n \in i..j /\ n - 1 \in 0..N
      BY <1>1
    <3>2. f[n] = f[n - 1] + bs[n].len /\ f[n - 1] \in Nat
      BY <1>4, <1>6, <3>1
    <3>3. bs[n].start = V!BlockEnd(bs[n - 1]) /\ f[n - 1] >= V!BlockEnd(bs[n - 1]) - bs[i].start
      BY <1>1, <2>2, <3>1
    <3>4. i \in 1..N
      BY <1>1
    <3> QED
      BY <1>5, <3>1, <3>2, <3>3, <3>4
  <2>3. i \in Nat /\ j \in Nat
    BY <1>1
  <2> HIDE DEF T
  <2> QED
    BY <2>1, <2>2, <2>3, Upwards
<1> DEFINE U == {n \in j..N : f[n] >= f[j]}
<1>8. j..N \subseteq U
  <2>1. j \in U
    <3>1. j \in 0..N /\ j \in j..N
      BY <1>1
    <3> QED
      BY <1>6, <3>1
  <2>2. ASSUME NEW n \in (j + 1)..N, n - 1 \in U PROVE n \in U
    <3>1. n \in 1..N /\ n - 1 \in 0..N /\ j \in 0..N /\ n \in j..N /\ n \in 0..N
      BY <1>1
    <3>2. f[n] = f[n - 1] + bs[n].len \/ f[n] = f[n - 1]
      BY <1>4, <3>1
    <3>3. f[n - 1] \in Nat /\ f[j] \in Nat /\ f[n - 1] >= f[j]
      BY <1>6, <2>2, <3>1
    <3> QED
      BY <1>5, <3>1, <3>2, <3>3
  <2>3. j \in Nat
    BY <1>1
  <2> HIDE DEF U
  <2> QED
    BY <1>1, <2>1, <2>2, <2>3, Upwards
<1>9. N \in j..N /\ j \in i..j /\ j \in 0..N /\ N \in 0..N /\ j \in 1..N /\ i \in 1..N
  BY <1>1
<1>10. f[N] >= f[j] /\ f[j] >= V!BlockEnd(bs[j]) - bs[i].start /\ f[N] \in Nat /\ f[j] \in Nat
  BY <1>6, <1>7, <1>8, <1>9
<1> QED
  BY <1>3, <1>5, <1>9, <1>10

(* The blocks a segment may start with are the last ones of the ring.      *)
Fits(ring, prev, N, f) ==
    f = [i \in 0..N |-> IF i = 0 THEN <<>>
                        ELSE IF ring[i].start >= prev THEN Append(f[i - 1], ring[i]) ELSE f[i - 1]]

Fills(ring, prev, N, f) ==
    /\ f[0] = <<>>
    /\ \A n \in 1..N : f[n] = IF ring[n].start >= prev THEN Append(f[n - 1], ring[n]) ELSE f[n - 1]

LEMMA FitSteps ==
  ASSUME NEW ring, NEW prev, NEW N \in Nat, NEW f, Fits(ring, prev, N, f)
  PROVE  Fills(ring, prev, N, f)
<1> DEFINE Entry(i) == IF i = 0 THEN <<>>
                       ELSE IF ring[i].start >= prev THEN Append(f[i - 1], ring[i]) ELSE f[i - 1]
<1>1. f = [i \in 0..N |-> Entry(i)]
  BY DEF Fits
<1> HIDE DEF Entry
<1>2. \A i \in 0..N : f[i] = Entry(i)
  BY <1>1
<1>3. 0 \in 0..N /\ \A n \in 1..N : n \in 0..N /\ n # 0
  OBVIOUS
<1> QED
  BY <1>2, <1>3, Zenon DEF Entry, Fills

LEMMA FitExists == ASSUME NEW ring, NEW prev, NEW N \in Nat PROVE \E f : Fits(ring, prev, N, f)
<1> DEFINE Ix == {n \in 0..N : \E f : Fits(ring, prev, n, f)}
<1>1. 0 \in Ix
  <2> DEFINE z == [i \in 0..0 |-> <<>>]
  <2>1. z = [i \in 0..0 |-> z[i]] /\ \A i \in 0..0 : z[i] = <<>> /\ i = 0
    OBVIOUS
  <2> HIDE DEF z
  <2>2. \A i \in 0..0 : z[i] = IF i = 0 THEN <<>>
                        ELSE IF ring[i].start >= prev THEN Append(z[i - 1], ring[i]) ELSE z[i - 1]
    BY <2>1
  <2>3. Fits(ring, prev, 0, z)
    BY <2>1, <2>2 DEF Fits
  <2> QED
    BY <2>3
<1>2. ASSUME NEW n \in (0 + 1)..N, n - 1 \in Ix PROVE n \in Ix
  <2>1. PICK f : Fits(ring, prev, n - 1, f)
    BY <1>2
  <2> DEFINE last == IF ring[n].start >= prev THEN Append(f[n - 1], ring[n]) ELSE f[n - 1]
             g == [i \in 0..n |-> IF i = n THEN last ELSE f[i]]
  <2>2. n - 1 \in Nat /\ n \in Nat /\ n # 0
    OBVIOUS
  <2>3. /\ f[0] = <<>>
        /\ \A i \in 1..(n - 1) : f[i] = IF ring[i].start >= prev THEN Append(f[i - 1], ring[i]) ELSE f[i - 1]
    <3>1. PICK m \in Nat : m = n - 1
      BY <2>2
    <3>2. Fits(ring, prev, m, f)
      BY <2>1, <3>1
    <3>3. /\ f[0] = <<>>
          /\ \A i \in 1..m : f[i] = IF ring[i].start >= prev THEN Append(f[i - 1], ring[i]) ELSE f[i - 1]
      <4>1. Fills(ring, prev, m, f)
        BY <3>2, FitSteps
      <4> QED
        BY <4>1, Zenon DEF Fills
    <3> QED
      BY <3>1, <3>3, Zenon
  <2>4. g[n] = last /\ \A i \in 0..(n - 1) : g[i] = f[i]
    BY <2>2
  <2>5. g = [i \in 0..n |-> g[i]]
    OBVIOUS
  <2> HIDE DEF g
  <2>6. ASSUME NEW i \in 0..n
        PROVE  g[i] = IF i = 0 THEN <<>>
                      ELSE IF ring[i].start >= prev THEN Append(g[i - 1], ring[i]) ELSE g[i - 1]
    <3>1. CASE i = 0
      BY <2>2, <2>3, <2>4, <3>1
    <3>2. CASE i \in 1..(n - 1)
      <4>1. i \in 0..(n - 1) /\ i - 1 \in 0..(n - 1) /\ i # 0
        BY <2>2, <3>2
      <4> QED
        BY <2>3, <2>4, <3>2, <4>1, Zenon
    <3>3. CASE i = n
      <4>1. i - 1 \in 0..(n - 1) /\ i # 0
        BY <2>2, <3>3
      <4> QED
        BY <2>4, <3>3, <4>1, Zenon
    <3> QED
      BY <2>2, <3>1, <3>2, <3>3
  <2>7. Fits(ring, prev, n, g)
    BY <2>5, <2>6 DEF Fits
  <2> QED
    BY <2>2, <2>7
<1> HIDE DEF Ix
<1>3. 0..N \subseteq Ix
  BY <1>1, <1>2, Upwards
<1> QED
  BY <1>3 DEF Ix

LEMMA FromRingIs ==
  ASSUME NEW p, NEW ring, Run(ring, p), NEW prev \in Nat
  PROVE  \E m \in 1..Len(ring) + 1 :
             /\ V!FromRing(ring, prev) = SubSeq(ring, m, Len(ring))
             /\ \A k \in 1..Len(ring) : k >= m <=> ring[k].start >= prev
<1> DEFINE N == Len(ring)
           f == CHOOSE f : Fits(ring, prev, N, f)
<1>1. /\ N \in Nat /\ DOMAIN ring = 1..N /\ ring \in Seq(Blks) /\ \A n \in 1..N : ring[n] \in Blks
  BY DEF Run
<1>2. Fits(ring, prev, N, f)
  BY <1>1, FitExists
<1>3. V!FromRing(ring, prev) = f[N]
  BY DEF V!FromRing, Fits
<1> HIDE DEF f, N
<1>0. N \in Nat
  BY <1>1
<1>4. f[0] = <<>>
  BY <1>0, <1>2, FitSteps DEF Fills
<1>5. \A n \in 1..N : f[n] = IF ring[n].start >= prev THEN Append(f[n - 1], ring[n]) ELSE f[n - 1]
  BY <1>0, <1>2, FitSteps DEF Fills
<1>6. \A i, j \in 1..N : i < j => ring[i].start <= ring[j].start
  <2> SUFFICES ASSUME NEW i \in 1..N, NEW j \in 1..N, i < j PROVE ring[i].start <= ring[j].start
    OBVIOUS
  <2>1. V!BlockEnd(ring[i]) <= ring[j].start
    BY <1>1, RunOrder
  <2>2. ring[i] \in Blks /\ ring[j] \in Blks
    BY <1>1
  <2>3. ring[i].start \in Nat /\ ring[j].start \in Nat /\ V!BlockEnd(ring[i]) \in Nat /\ ring[i].start <= V!BlockEnd(ring[i])
    BY <2>2, BlkFacts
  <2> QED
    BY <2>1, <2>3
<1>7. \A k \in 1..N : ring[k].start \in Nat
  BY <1>1, BlkFacts
<1> DEFINE Bears(n, m) == /\ f[n] = SubSeq(ring, m, n)
                          /\ \A k \in 1..n : k >= m <=> ring[k].start >= prev
           Ix == {n \in 0..N : \E m \in 1..(n + 1) : Bears(n, m)}
<1>8. 0..N \subseteq Ix
  <2>1. 0 \in Ix
    <3>1. SubSeq(ring, 1, 0) = <<>>
      BY <1>1
    <3>2. Bears(0, 1)
      BY <1>4, <3>1
    <3>3. 1 \in 1..(0 + 1) /\ 0 \in 0..N
      BY <1>0
    <3> QED
      BY <3>2, <3>3
  <2>2. ASSUME NEW n \in (0 + 1)..N, n - 1 \in Ix PROVE n \in Ix
    <3>0. n \in 1..N /\ n \in 0..N /\ n \in Nat /\ (n - 1) + 1 = n /\ n - 1 \in 0..N
      BY <1>0
    <3>1. PICK m \in 1..n : Bears(n - 1, m)
      BY <2>2, <3>0
    <3>2. CASE ring[n].start >= prev
      <4>1. f[n] = Append(SubSeq(ring, m, n - 1), ring[n])
        BY <1>5, <3>0, <3>1, <3>2
      <4>2. Append(SubSeq(ring, m, n - 1), ring[n]) = SubSeq(ring, m, n)
        BY <1>1, <3>0, <3>1, SubSeqRecursiveSecond
      <4>3. ASSUME NEW k \in 1..n PROVE k >= m <=> ring[k].start >= prev
        <5>1. CASE k = n
          BY <3>0, <3>1, <3>2, <5>1
        <5>2. CASE k \in 1..(n - 1)
          BY <3>1, <5>2
        <5> QED
          BY <3>0, <5>1, <5>2
      <4>4. m \in 1..(n + 1) /\ Bears(n, m)
        BY <3>0, <4>1, <4>2, <4>3
      <4> HIDE DEF Bears
      <4> QED
        BY <3>0, <4>4
    <3>3. CASE ~(ring[n].start >= prev)
      <4>1. f[n] = SubSeq(ring, m, n - 1)
        BY <1>5, <3>0, <3>1, <3>3
      <4>2. \A k \in 1..(n - 1) : ~(ring[k].start >= prev)
        <5> SUFFICES ASSUME NEW k \in 1..(n - 1), ring[k].start >= prev PROVE FALSE
          OBVIOUS
        <5>1. k \in 1..N /\ k < n
          BY <1>0, <3>0
        <5>2. ring[k].start <= ring[n].start
          BY <1>6, <3>0, <5>1
        <5> QED
          BY <1>7, <3>0, <3>3, <5>1, <5>2
      <4>3. m = n
        <5> SUFFICES ASSUME m # n PROVE FALSE
          OBVIOUS
        <5>0. m \in 1..n
          BY <3>1
        <5>1. m \in 1..(n - 1) /\ m >= m
          BY <3>0, <5>0
        <5> QED
          BY <3>1, <4>2, <5>1
      <4>4. f[n] = <<>>
        BY <1>1, <3>0, <4>1, <4>3
      <4>5. SubSeq(ring, n + 1, n) = <<>>
        BY <1>1, <3>0
      <4>6. ASSUME NEW k \in 1..n PROVE k >= n + 1 <=> ring[k].start >= prev
        <5>1. k = n \/ k \in 1..(n - 1)
          BY <3>0
        <5>2. ~(k >= n + 1)
          BY <3>0
        <5> QED
          BY <3>3, <4>2, <5>1, <5>2
      <4>7. n + 1 \in 1..(n + 1) /\ Bears(n, n + 1)
        BY <3>0, <4>4, <4>5, <4>6
      <4> HIDE DEF Bears
      <4> QED
        BY <3>0, <4>7
    <3> QED
      BY <3>2, <3>3
  <2> HIDE DEF Ix
  <2> QED
    BY <1>0, <2>1, <2>2, Upwards
<1>9. N \in 0..N
  BY <1>0
<1>10. PICK m \in 1..(N + 1) : Bears(N, m)
  BY <1>8, <1>9
<1> QED
  BY <1>3, <1>10 DEF N

----------------------------------------------------------------------------
(* The detector after the blocks up to p, of which no more than `room' is  *)
(* in the open segment; and the segments returned so far.                  *)
Detector == [ring : Seq(Blks), onset : Nat, seg : Seq(Blks), last : Nat, prev : Nat,
             carry : 0..Block - 1, at : Nat]
DetectorOK(v, p, room) ==
    /\ v \in Detector /\ p \in Nat
    /\ Run(v.ring, p) /\ Len(v.ring) <= Preroll + Onset
    /\ Run(v.seg, p)
    /\ v.onset < Onset /\ v.last <= p /\ v.prev <= p
    /\ v.seg # <<>> => /\ v.onset = 0
                       /\ v.prev <= v.seg[1].start /\ v.seg[1].start <= v.last
                       /\ p - v.seg[1].start <= room
                       /\ \A k \in DOMAIN v.seg : v.seg[k].speech => V!BlockEnd(v.seg[k]) <= v.last

Piece == [start : Nat, end : Nat, audio : Seq(Blks)]
Good(s) ==
    /\ s \in Piece /\ s.start < s.end /\ V!Gapless(s.audio) /\ s.audio # <<>>
    /\ s.end <= V!BlockEnd(s.audio[Len(s.audio)]) /\ s.end - s.start <= MaxSegment + Block
ReturnsOK(o, prev) ==
    /\ o \in Seq(Piece)
    /\ \A k \in DOMAIN o : Good(o[k]) /\ o[k].end <= prev
    /\ \A k \in 2..Len(o) : o[k - 1].end <= o[k].start

(* A stretch of speech is met by a segment returned, or it is held by the  *)
(* open one: enough of it, if it has ended, and all of it or enough, if it *)
(* goes on; or it is counted and may yet open one.                         *)
Met(o, s) == \E k \in DOMAIN o : V!Meets(s, o[k])
Held(seg, s) ==
    \E i, j \in DOMAIN seg :
        /\ i <= j /\ \A k \in i..j : seg[k].speech
        /\ V!BlockEnd(seg[j]) = s.end /\ (j < Len(seg) => ~seg[j + 1].speech)
        /\ s.start <= seg[i].start /\ V!BlockEnd(seg[j]) - seg[i].start >= MinSpeech
HeldSoFar(seg, from) ==
    \E i \in DOMAIN seg :
        /\ \A k \in i..Len(seg) : seg[k].speech
        /\ from <= seg[i].start
        /\ seg[i].start = from \/ V!BlockEnd(seg[Len(seg)]) - seg[i].start >= MinSpeech
Counts(ring, onset, prev, from, p) ==
    /\ onset \in 1..Len(ring) /\ prev <= from
    /\ ring[Len(ring) - onset + 1].start = from
    /\ \A k \in (Len(ring) - onset + 1)..Len(ring) : ring[k].speech
    /\ p - from <= onset * Block
Counted(v, from, p) == v.seg = <<>> /\ Counts(v.ring, v.onset, v.prev, from, p)

Stretch == [start : Nat, end : Nat]
Now(h) == [start |-> h.from, end |-> h.end]
History(h, p) ==
    /\ h.owed \subseteq Stretch /\ \A s \in h.owed : s.start < s.end /\ s.end < p
    /\ h.from # V!None => h.from \in Nat /\ h.end \in Nat /\ h.from < h.end /\ h.end <= p
Remembered(h, v, p, o) ==
    /\ History(h, p)
    /\ \A s \in h.owed : Met(o, s) \/ (v.seg # <<>> /\ Held(v.seg, s))
    /\ v.seg = <<>> /\ (h.from = V!None \/ h.end < p) => v.onset = 0
    /\ h.from # V!None => \/ Met(o, Now(h))
                          \/ h.end = p /\ v.seg # <<>> /\ HeldSoFar(v.seg, h.from)
                          \/ h.end = p /\ Counted(v, h.from, p)
                          \/ h.end < p /\ v.seg = <<>> /\ ~V!Long(Now(h))
    /\ h.from # V!None /\ h.end < p => v.seg = <<>>

(* With no segment open and no stretch that could open one.                *)
AllMet(h, p, o) ==
    /\ History(h, p)
    /\ \A s \in h.owed : Met(o, s)
    /\ h.from # V!None => Met(o, Now(h)) \/ ~V!Long(Now(h))

LEMMA LongIs == ASSUME NEW s \in Stretch PROVE V!Long(s) <=> s.end - s.start >= MinSpeech /\ s.end - s.start >= Onset * Block
<1>1. /\ s.start \in Nat /\ s.end \in Nat /\ Onset * Block \in Nat /\ MinSpeech \in Nat
  BY Lengths DEF Stretch
<1> DEFINE ob == Onset * Block
<1>2. ob \in Nat
  BY <1>1
<1>3. V!Long(s) <=> s.end - s.start >= V!Max({MinSpeech, ob})
  BY DEF V!Long
<1> HIDE DEF ob
<1>4. V!Max({MinSpeech, ob}) = IF MinSpeech >= ob THEN MinSpeech ELSE ob
  <2>1. MinSpeech \in Int /\ ob \in Int
    BY <1>1, <1>2
  <2> QED
    BY <2>1, Pair, Zenon
<1>5. V!Long(s) <=> s.end - s.start >= MinSpeech /\ s.end - s.start >= ob
  BY <1>1, <1>2, <1>3, <1>4
<1> QED
  BY <1>5 DEF ob

LEMMA LaterReturns ==
  ASSUME NEW o, NEW prev \in Nat, ReturnsOK(o, prev), NEW next \in Nat, prev <= next
  PROVE  ReturnsOK(o, next)
BY DEF ReturnsOK, Good, Piece

LEMMA OneMore ==
  ASSUME NEW o, NEW prev \in Nat, ReturnsOK(o, prev), NEW s, Good(s), prev <= s.start,
         NEW next \in Nat, s.end <= next
  PROVE  /\ ReturnsOK(Append(o, s), next)
         /\ \A t : Met(Append(o, s), t) <=> Met(o, t) \/ V!Meets(t, s)
<1>1. /\ o \in Seq(Piece) /\ s \in Piece /\ Len(o) \in Nat /\ DOMAIN o = 1..Len(o)
      /\ Append(o, s) \in Seq(Piece) /\ Len(Append(o, s)) = Len(o) + 1
      /\ DOMAIN Append(o, s) = 1..(Len(o) + 1)
      /\ \A k \in 1..Len(o) : Append(o, s)[k] = o[k]
      /\ Append(o, s)[Len(o) + 1] = s
  BY DEF ReturnsOK, Good
<1>2. ASSUME NEW k \in 1..(Len(o) + 1) PROVE Good(Append(o, s)[k]) /\ Append(o, s)[k].end <= next
  <2>1. CASE k \in 1..Len(o)
    <3>1. o[k].end <= prev /\ Good(o[k]) /\ o[k].end \in Nat
      BY <1>1, <2>1 DEF ReturnsOK, Good, Piece
    <3>2. prev <= next
      BY <1>1 DEF Good, Piece
    <3> QED
      BY <1>1, <2>1, <3>1, <3>2
  <2>2. CASE k = Len(o) + 1
    BY <1>1, <2>2
  <2> QED
    BY <1>1, <2>1, <2>2
<1>3. ASSUME NEW k \in 2..(Len(o) + 1) PROVE Append(o, s)[k - 1].end <= Append(o, s)[k].start
  <2>1. CASE k \in 2..Len(o)
    <3>1. k \in 1..Len(o) /\ k - 1 \in 1..Len(o)
      BY <1>1, <2>1
    <3> QED
      BY <1>1, <2>1, <3>1 DEF ReturnsOK
  <2>2. CASE k = Len(o) + 1
    <3>1. k - 1 \in 1..Len(o)
      BY <1>1, <2>2
    <3>2. o[k - 1].end <= prev /\ o[k - 1].end \in Nat /\ s.start \in Nat
      BY <1>1, <3>1 DEF ReturnsOK, Good, Piece
    <3> QED
      BY <1>1, <2>2, <3>1, <3>2
  <2> QED
    BY <1>1, <2>1, <2>2
<1>4. \A t : Met(Append(o, s), t) <=> Met(o, t) \/ V!Meets(t, s)
  <2> SUFFICES ASSUME NEW t PROVE Met(Append(o, s), t) <=> Met(o, t) \/ V!Meets(t, s)
    OBVIOUS
  <2>1. \A k \in 1..(Len(o) + 1) : k \in 1..Len(o) \/ k = Len(o) + 1
    BY <1>1
  <2>2. Len(o) + 1 \in 1..(Len(o) + 1) /\ \A k \in 1..Len(o) : k \in 1..(Len(o) + 1)
    BY <1>1
  <2> QED
    BY <1>1, <2>1, <2>2, Zenon DEF Met
<1> QED
  BY <1>1, <1>2, <1>3, <1>4 DEF ReturnsOK

LEMMA RunSpan ==
  ASSUME NEW p, NEW bs, Run(bs, p), NEW i \in DOMAIN bs
  PROVE  /\ Len(bs) \in Nat /\ DOMAIN bs = 1..Len(bs) /\ 1 \in DOMAIN bs /\ Len(bs) \in DOMAIN bs
         /\ bs[i] \in Blks /\ bs[i].start \in Nat /\ V!BlockEnd(bs[i]) \in Nat
         /\ bs[1].start \in Nat /\ p \in Nat /\ V!BlockEnd(bs[Len(bs)]) = p
         /\ bs[1].start <= bs[i].start /\ bs[i].start < V!BlockEnd(bs[i]) /\ V!BlockEnd(bs[i]) <= p
<1> DEFINE N == Len(bs)
<1>1. /\ N \in Nat /\ DOMAIN bs = 1..N /\ 1 \in 1..N /\ N \in 1..N /\ i \in 1..N
      /\ \A k \in 1..N : bs[k] \in Blks
      /\ V!BlockEnd(bs[N]) = p
  BY DEF Run
<1> HIDE DEF N
<1>2. ASSUME NEW k \in 1..N PROVE /\ bs[k].start \in Nat /\ V!BlockEnd(bs[k]) \in Nat
                                  /\ bs[k].start < V!BlockEnd(bs[k])
  <2>1. bs[k] \in Blks
    BY <1>1
  <2> QED
    BY <2>1, BlkFacts
<1>3. bs[1].start <= bs[i].start
  <2>1. CASE i = 1
    BY <1>1, <1>2, <2>1
  <2>2. CASE 1 < i
    <3>1. V!BlockEnd(bs[1]) <= bs[i].start
      BY <1>1, <2>2, RunOrder
    <3> QED
      BY <1>1, <1>2, <3>1
  <2> QED
    BY <1>1, <2>1, <2>2
<1>4. V!BlockEnd(bs[i]) <= p
  <2>1. CASE i = N
    BY <1>1, <1>2, <2>1
  <2>2. CASE i < N
    <3>1. V!BlockEnd(bs[i]) <= bs[N].start
      BY <1>1, <2>2, RunOrder
    <3> QED
      BY <1>1, <1>2, <3>1
  <2> QED
    BY <1>1, <2>1, <2>2
<1> QED
  BY <1>1, <1>2, <1>3, <1>4 DEF N

(* _close returns what the open segment holds of a stretch.                *)
LEMMA CloseKeeps ==
  ASSUME NEW p, NEW v, DetectorOK(v, p, MaxSegment + Block), v.seg # <<>>,
         NEW o, ReturnsOK(o, v.prev), NEW h, Remembered(h, v, p, o),
         NEW end, end = V!ClosedEnd(v, p), NEW o2,
         o2 = IF V!Enough(v.seg) /\ end > v.seg[1].start THEN Append(o, V!Segment(v.seg, end)) ELSE o
  PROVE  /\ end \in Nat /\ end <= p /\ v.prev <= end
         /\ ReturnsOK(o2, end) /\ AllMet(h, p, o2)
<1> DEFINE seg == v.seg
           N == Len(seg)
<1>1. /\ v \in Detector /\ p \in Nat /\ Run(seg, p) /\ v.last <= p /\ seg # <<>>
      /\ v.prev <= seg[1].start /\ seg[1].start <= v.last /\ p - seg[1].start <= MaxSegment + Block
      /\ \A k \in DOMAIN seg : seg[k].speech => V!BlockEnd(seg[k]) <= v.last
  BY DEF DetectorOK
<1>2. v.last \in Nat /\ v.prev \in Nat /\ seg \in Seq(Blks)
  BY <1>1 DEF Detector
<1>3. 1 \in DOMAIN seg
  BY <1>1, <1>2
<1>4. N \in Nat /\ DOMAIN seg = 1..N /\ N \in 1..N /\ seg[1].start \in Nat /\ V!BlockEnd(seg[N]) = p
  BY <1>1, <1>3, RunSpan
<1>5. end \in Nat /\ v.last <= end /\ end <= p
  <2>1. p \in Int /\ v.last + KeepTail \in Int /\ KeepTail \in Nat
    BY <1>1, <1>2, Lengths
  <2>2. end = IF p <= v.last + KeepTail THEN p ELSE v.last + KeepTail
    BY <2>1, Pair DEF V!ClosedEnd
  <2> QED
    BY <1>1, <1>2, <2>1, <2>2
<1>6. v.prev <= end
  BY <1>1, <1>2, <1>4, <1>5
<1> HIDE DEF seg, N
<1> DEFINE new == V!Segment(seg, end)
<1>7. new.start = seg[1].start /\ new.end = end /\ new.audio = seg
  BY DEF V!Segment
<1>8. ASSUME end > seg[1].start PROVE Good(new)
  <2>1. new \in Piece
    BY <1>2, <1>4, <1>5 DEF V!Segment, Piece
  <2>2. end - seg[1].start <= MaxSegment + Block
    BY <1>1, <1>4, <1>5, Lengths
  <2>3. V!Gapless(seg)
    BY <1>1 DEF Run
  <2> HIDE DEF new
  <2> QED
    BY <1>1, <1>4, <1>5, <1>7, <1>8, <2>1, <2>2, <2>3 DEF Good, N
<1>9. ReturnsOK(o2, end)
  <2>1. CASE V!Enough(seg) /\ end > seg[1].start
    <3>1. o2 = Append(o, new)
      BY <2>1 DEF seg
    <3>2. Good(new) /\ v.prev <= new.start /\ new.end <= end
      BY <1>1, <1>5, <1>7, <1>8, <2>1
    <3> HIDE DEF new
    <3> QED
      BY <1>2, <1>5, <3>1, <3>2, OneMore
  <2>2. CASE ~(V!Enough(seg) /\ end > seg[1].start)
    <3>1. o2 = o
      BY <2>2 DEF seg
    <3> QED
      BY <1>2, <1>5, <1>6, <3>1, LaterReturns
  <2> QED
    BY <2>1, <2>2
<1>10. ASSUME NEW s, Met(o, s) PROVE Met(o2, s)
  <2>1. CASE V!Enough(seg) /\ end > seg[1].start
    <3>1. o2 = Append(o, new)
      BY <2>1 DEF seg
    <3>2. Good(new) /\ v.prev <= new.start /\ new.end <= end
      BY <1>1, <1>5, <1>7, <1>8, <2>1
    <3> HIDE DEF new
    <3> QED
      BY <1>2, <1>5, <1>10, <3>1, <3>2, OneMore
  <2>2. CASE ~(V!Enough(seg) /\ end > seg[1].start)
    BY <1>10, <2>2 DEF seg
  <2> QED
    BY <2>1, <2>2
<1>11. ASSUME NEW s, NEW i \in 1..N, NEW j \in 1..N, i <= j, \A k \in i..j : seg[k].speech,
              V!BlockEnd(seg[j]) - seg[i].start >= MinSpeech, s.start <= seg[i].start, s.end = V!BlockEnd(seg[j]),
              s.start \in Nat
       PROVE  Met(o2, s)
  <2>1. V!Spoken(seg) \in Nat /\ V!Spoken(seg) >= V!BlockEnd(seg[j]) - seg[i].start
    BY <1>1, <1>4, <1>11, SpokenIs
  <2>2. /\ seg[i].start \in Nat /\ V!BlockEnd(seg[j]) \in Nat /\ V!BlockEnd(seg[i]) \in Nat
        /\ seg[1].start <= seg[i].start /\ seg[i].start < V!BlockEnd(seg[i]) /\ V!BlockEnd(seg[j]) <= p
    BY <1>1, <1>4, RunSpan
  <2>3. V!Enough(seg)
    <3>1. V!BlockEnd(seg[j]) - seg[i].start >= MinSpeech
      BY <1>11
    <3>2. V!Spoken(seg) >= MinSpeech
      BY <2>1, <2>2, <3>1, Lengths
    <3> QED
      BY <3>2 DEF V!Enough
  <2>4. seg[i].start < V!BlockEnd(seg[j])
    BY <1>11, <2>2, Lengths
  <2>5. V!BlockEnd(seg[j]) <= v.last
    <3>1. j \in i..j
      BY <1>4, <1>11
    <3> QED
      BY <1>1, <1>4, <1>11, <3>1
  <2>6. end > seg[1].start
    BY <1>2, <1>4, <1>5, <2>2, <2>4, <2>5
  <2>7. o2 = Append(o, new)
    BY <2>3, <2>6 DEF seg
  <2>8. Good(new) /\ v.prev <= new.start /\ new.end <= end
    BY <1>1, <1>5, <1>7, <1>8, <2>6
  <2>9. V!Meets(s, new)
    BY <1>2, <1>4, <1>5, <1>7, <1>11, <2>2, <2>4, <2>5 DEF V!Meets
  <2> HIDE DEF new
  <2> QED
    BY <1>2, <1>5, <2>7, <2>8, <2>9, OneMore
<1>12. ASSUME NEW s \in h.owed PROVE Met(o2, s)
  <2>1. CASE Met(o, s)
    BY <1>10, <2>1
  <2>2. CASE Held(seg, s)
    <3>1. PICK i \in 1..N, j \in 1..N :
              /\ i <= j /\ \A k \in i..j : seg[k].speech
              /\ V!BlockEnd(seg[j]) = s.end
              /\ s.start <= seg[i].start /\ V!BlockEnd(seg[j]) - seg[i].start >= MinSpeech
      BY <1>4, <2>2 DEF Held
    <3>2. s.start \in Nat
      BY <1>12 DEF Remembered, History, Stretch
    <3> QED
      BY <1>11, <3>1, <3>2
  <2> QED
    BY <2>1, <2>2 DEF Remembered, seg
<1>13. ASSUME h.from # V!None PROVE Met(o2, Now(h)) \/ ~V!Long(Now(h))
  <2>1. Met(o, Now(h)) \/ (h.end = p /\ HeldSoFar(seg, h.from))
    BY <1>1, <1>13 DEF Remembered, Counted, seg
  <2>2. Now(h).start = h.from /\ Now(h).end = h.end /\ h.from \in Nat /\ h.end \in Nat /\ Now(h) \in Stretch
    BY <1>13 DEF Now, Remembered, History, Stretch
  <2>3. CASE Met(o, Now(h))
    BY <1>10, <2>3
  <2>4. CASE h.end = p /\ HeldSoFar(seg, h.from)
    <3> SUFFICES ASSUME V!Long(Now(h)) PROVE Met(o2, Now(h))
      OBVIOUS
    <3>1. p - h.from >= MinSpeech
      BY <2>2, <2>4, LongIs
    <3>2. PICK i \in 1..N : /\ \A k \in i..N : seg[k].speech
                            /\ h.from <= seg[i].start
                            /\ seg[i].start = h.from \/ p - seg[i].start >= MinSpeech
      BY <1>4, <2>4 DEF HeldSoFar, N
    <3>3. i <= N
      BY <1>4
    <3>4. V!BlockEnd(seg[N]) - seg[i].start >= MinSpeech
      BY <1>4, <3>1, <3>2
    <3> HIDE DEF new
    <3> QED
      BY <1>4, <1>11, <2>2, <2>4, <3>2, <3>3, <3>4
  <2> QED
    BY <2>1, <2>3, <2>4
<1>14. AllMet(h, p, o2)
  BY <1>12, <1>13 DEF AllMet, Remembered
<1> QED
  BY <1>5, <1>6, <1>9, <1>14

(* _split cuts at a pause if there is one late enough; if not, it cuts a   *)
(* stretch that is long enough for one of the two parts to be speech.      *)
LEMMA CutIs ==
  ASSUME NEW p \in Nat, NEW bs, Run(bs, p), 2 \in DOMAIN bs, p - bs[1].start >= MaxSegment
  PROVE  /\ V!Cut(bs) \in 1..Len(bs) - 1
         /\ bs[V!Cut(bs)].speech =>
                \E lo \in 1..V!Cut(bs) :
                    /\ \A k \in lo..Len(bs) - 1 : bs[k].speech
                    /\ V!BlockEnd(bs[Len(bs) - 1]) - bs[lo].start >= 2 * MinSpeech - 1
<1> DEFINE N == Len(bs)
           near == {i \in 1..N - 1 : bs[i].start >= V!BlockEnd(V!Last(bs)) - SplitSearch}
           best == {i \in near : \A j \in near : bs[i].db <= bs[j].db}
<1>1. /\ N \in Nat /\ N >= 2 /\ DOMAIN bs = 1..N /\ \A n \in 1..N : bs[n] \in Blks
      /\ \A n \in 2..N : bs[n].start = V!BlockEnd(bs[n - 1])
      /\ \A n \in 1..N - 1 : bs[n].len = Block
      /\ V!BlockEnd(V!Last(bs)) = p /\ V!BlockEnd(bs[N]) = p
  BY DEF Run, V!Gapless, V!Last
<1>2. V!Cut(bs) = IF near = {} THEN N ELSE V!Min(best)
  BY DEF V!Cut
<1>3. near \subseteq 1..N - 1 /\ best \subseteq near
  OBVIOUS
<1>4. \A n \in 1..N - 1 : n \in near <=> bs[n].start >= p - SplitSearch
  BY <1>1
<1>5. \A n \in near : n \in best <=> \A j \in near : bs[n].db <= bs[j].db
  OBVIOUS
<1> HIDE DEF N, near, best
<1>6. \A n \in 1..N : /\ bs[n].start \in Nat /\ V!BlockEnd(bs[n]) \in Nat /\ bs[n].len <= Block
                      /\ V!BlockEnd(bs[n]) = bs[n].start + bs[n].len /\ bs[n].len \in Nat
  BY <1>1, BlkFacts
<1>7. \A n \in 1..N : bs[n].db \in Nat /\ (bs[n].speech <=> bs[n].db > 0)
  <2> SUFFICES ASSUME NEW n \in 1..N PROVE bs[n].db \in Nat /\ (bs[n].speech <=> bs[n].db > 0)
    OBVIOUS
  <2>1. bs[n] \in Blks
    BY <1>1
  <2>2. bs[n].db \in 0..2 /\ (bs[n].speech <=> bs[n].db > 0)
    BY <2>1, BlkFacts
  <2>3. bs[n].db \in Nat
    BY <2>2
  <2> QED
    BY <2>2, <2>3, Zenon
<1>8. N - 1 \in 1..N - 1 /\ N \in 2..N /\ N \in 1..N /\ N - 1 \in 1..N
  BY <1>1
<1>0. /\ Block \in Nat /\ SplitSearch \in Nat /\ MinSpeech \in Nat /\ MinSpeech >= 1 /\ MaxSegment \in Nat
      /\ MinSpeech + Block + MinSpeech + Block <= SplitSearch + 2
      /\ MinSpeech + MinSpeech + Block <= MaxSegment + 1
      /\ 2 * MinSpeech = MinSpeech + MinSpeech
  BY Lengths
<1>9. V!BlockEnd(bs[N - 1]) >= p - Block /\ bs[N - 1].start >= p - Block - Block
  <2>1. bs[N].start = V!BlockEnd(bs[N - 1]) /\ bs[N - 1].len = Block /\ V!BlockEnd(bs[N]) = p
    BY <1>1, <1>8
  <2>2. /\ bs[N].start \in Nat /\ bs[N].len \in Nat /\ bs[N].len <= Block
        /\ V!BlockEnd(bs[N]) = bs[N].start + bs[N].len
        /\ V!BlockEnd(bs[N - 1]) = bs[N - 1].start + bs[N - 1].len /\ bs[N - 1].start \in Nat
    BY <1>6, <1>8
  <2>3. bs[N].start >= p - Block
    BY <1>0, <2>1, <2>2
  <2>4. bs[N].start = bs[N - 1].start + Block
    BY <1>0, <2>1, <2>2
  <2>5. p \in Nat
    OBVIOUS
  <2> QED
    BY <1>0, <2>1, <2>2, <2>3, <2>4, <2>5
<1>10. N - 1 \in near
  BY <1>0, <1>4, <1>6, <1>8, <1>9
<1>11. best # {}
  <2> DEFINE D == {bs[n].db : n \in near}
  <2>1. D \in SUBSET Nat /\ D # {}
    <3>1. \A n \in near : bs[n].db \in Nat
      <4>1. \A n \in near : n \in 1..N
        BY <1>1, <1>3
      <4> QED
        BY <1>7, <4>1
    <3> QED
      BY <1>10, <3>1
  <2>2. PICK m \in D : \A k \in D : m <= k
    BY <2>1, LeastOne
  <2>3. PICK n \in near : m = bs[n].db
    BY <2>2
  <2>4. \A j \in near : bs[n].db <= bs[j].db
    BY <2>2, <2>3
  <2> QED
    BY <1>5, <2>3, <2>4
<1>12. V!Cut(bs) = V!Min(best) /\ V!Min(best) \in best
  <2>1. best \in SUBSET Nat
    BY <1>1, <1>3
  <2> QED
    BY <1>2, <1>10, <1>11, <2>1, MinIs
<1> DEFINE i == V!Cut(bs)
<1>15. i \in best
  BY <1>12, Zenon
<1> HIDE DEF i
<1>13. i \in near /\ i \in 1..N - 1 /\ i \in 1..N /\ \A j \in near : bs[i].db <= bs[j].db
  <2>1. i \in near
    BY <1>3, <1>15
  <2>2. i \in 1..N - 1
    BY <1>3, <2>1
  <2>3. i \in 1..N
    BY <1>8, <2>2
  <2>4. \A j \in near : bs[i].db <= bs[j].db
    BY <1>5, <1>15, <2>1
  <2> QED
    BY <2>1, <2>2, <2>3, <2>4
<1>16. p \in Nat /\ bs[1].start \in Nat /\ p - bs[1].start >= MaxSegment
  BY <1>1, <1>6, <1>8
<1>14. ASSUME bs[i].speech
       PROVE  \E lo \in 1..i : /\ \A k \in lo..N - 1 : bs[k].speech
                               /\ V!BlockEnd(bs[N - 1]) - bs[lo].start >= 2 * MinSpeech - 1
  <2>1. ASSUME NEW k \in near PROVE bs[k].speech
    <3>1. k \in 1..N
      BY <1>1, <1>3
    <3>2. bs[i].db > 0 /\ bs[i].db <= bs[k].db /\ bs[i].db \in Nat /\ bs[k].db \in Nat
      BY <1>7, <1>13, <1>14, <3>1
    <3>3. bs[k].db > 0
      BY <3>2
    <3> QED
      BY <1>7, <3>1, <3>3
  <2>2. PICK lo \in near : \A k \in near : lo <= k
    <3>1. near \in SUBSET Nat /\ near # {}
      BY <1>1, <1>3, <1>10
    <3> QED
      BY <3>1, LeastOne
  <2>3. lo \in 1..i /\ lo \in 1..N - 1 /\ lo \in 1..N
    BY <1>1, <1>3, <1>13, <2>2
  <2>4. ASSUME NEW k \in lo..N - 1 PROVE bs[k].speech
    <3>1. k \in 1..N - 1 /\ k \in 1..N
      BY <1>1, <2>3
    <3>2. bs[lo].start <= bs[k].start
      <4>1. CASE k = lo
        BY <1>6, <3>1, <4>1
      <4>2. CASE lo < k
        <5>1. V!BlockEnd(bs[lo]) <= bs[k].start
          BY <1>1, <2>3, <3>1, <4>2, RunOrder
        <5> QED
          BY <1>6, <2>3, <3>1, <5>1
      <4> QED
        BY <1>1, <2>3, <4>1, <4>2
    <3>3. k \in near
      BY <1>0, <1>4, <1>6, <1>16, <2>2, <2>3, <3>1, <3>2
    <3> QED
      BY <2>1, <3>3
  <2>5. V!BlockEnd(bs[N - 1]) - bs[lo].start >= 2 * MinSpeech - 1
    <3>1. CASE lo = 1
      BY <1>0, <1>6, <1>8, <1>9, <1>16, <3>1
    <3>2. CASE lo # 1
      <4>1. lo - 1 \in 1..N - 1 /\ lo - 1 \in 1..N /\ lo \in 2..N /\ ~(lo <= lo - 1)
        BY <1>1, <2>3, <3>2
      <4>2. bs[lo - 1].start < p - SplitSearch
        <5>1. ~(lo - 1 \in near)
          BY <2>2, <4>1
        <5> QED
          BY <1>0, <1>4, <1>6, <1>16, <4>1, <5>1
      <4>3. bs[lo].start = bs[lo - 1].start + Block
        BY <1>1, <1>6, <4>1
      <4> QED
        <5>1. /\ bs[lo].start \in Nat /\ V!BlockEnd(bs[N - 1]) \in Nat /\ bs[lo - 1].start \in Nat
          BY <1>6, <1>8, <2>3, <4>1
        <5> QED
          BY <1>0, <1>9, <1>16, <4>2, <4>3, <5>1
    <3> QED
      BY <3>1, <3>2
  <2> QED
    BY <2>3, <2>4, <2>5
<1> QED
  BY <1>13, <1>14 DEF i, N

LEMMA HeadIs ==
  ASSUME NEW p \in Nat, NEW bs, Run(bs, p), NEW q \in 1..Len(bs)
  PROVE  /\ Run(SubSeq(bs, 1, q), V!BlockEnd(bs[q])) /\ Len(SubSeq(bs, 1, q)) = q
         /\ SubSeq(bs, 1, q) \in Seq(Blks) /\ SubSeq(bs, 1, q) # <<>>
         /\ \A k \in 1..q : SubSeq(bs, 1, q)[k] = bs[k]
<1> DEFINE head == SubSeq(bs, 1, q)
<1>1. Len(bs) \in Nat /\ 1 \in 1..Len(bs) + 1 /\ q \in 0..Len(bs) /\ 1 <= q /\ 1 <= q + 1 /\ q - 1 + 1 = q
  BY DEF Run
<1>2. \A k \in 1..q : k + 1 - 1 = k
  OBVIOUS
<1>3. Run(head, V!BlockEnd(bs[q])) /\ head \in Seq(Blks)
  BY <1>1, PartOfRun
<1>4. Len(head) = q - 1 + 1 /\ \A k \in 1..(q - 1 + 1) : head[k] = bs[k + 1 - 1]
  BY <1>1, PartOfRun
<1> HIDE DEF head
<1>5. Len(head) = q /\ \A k \in 1..q : head[k] = bs[k]
  BY <1>1, <1>2, <1>4
<1>6. head # <<>>
  BY <1>1, <1>3, <1>5
<1> QED
  BY <1>3, <1>5, <1>6 DEF head

(* What a head of a run holds of speech.                                   *)
LEMMA HeadHas ==
  ASSUME NEW p \in Nat, NEW bs, Run(bs, p), NEW q \in 1..Len(bs), NEW a \in 1..q, NEW b \in a..q,
         \A k \in a..b : bs[k].speech, V!BlockEnd(bs[b]) - bs[a].start >= MinSpeech
  PROVE  V!Enough(SubSeq(bs, 1, q))
<1> DEFINE head == SubSeq(bs, 1, q)
<1>1. /\ Run(head, V!BlockEnd(bs[q])) /\ Len(head) = q /\ head \in Seq(Blks)
      /\ \A k \in 1..q : head[k] = bs[k]
  BY HeadIs
<1> HIDE DEF head
<1>2. DOMAIN head = 1..q /\ a \in 1..q /\ b \in 1..q /\ a <= b /\ \A k \in a..b : k \in 1..q
  BY <1>1
<1>3. \A k \in a..b : head[k].speech
  BY <1>1, <1>2
<1>4. V!Spoken(head) \in Nat /\ V!Spoken(head) >= V!BlockEnd(head[b]) - head[a].start
  BY <1>1, <1>2, <1>3, SpokenIs
<1>5. head[a] = bs[a] /\ head[b] = bs[b] /\ V!BlockEnd(bs[b]) \in Nat /\ bs[a].start \in Nat
  <2>1. bs[a] \in Blks /\ bs[b] \in Blks
    BY <1>2 DEF Run
  <2> QED
    BY <1>1, <1>2, <2>1, BlkFacts
<1>6. V!Spoken(head) >= MinSpeech
  <2>1. V!BlockEnd(head[b]) - head[a].start >= MinSpeech
    BY <1>5
  <2>2. V!BlockEnd(head[b]) \in Nat /\ head[a].start \in Nat /\ MinSpeech \in Nat
    BY <1>5, Lengths
  <2> QED
    BY <1>4, <2>1, <2>2
<1> QED
  BY <1>6 DEF V!Enough, head

(* _split returns what the head holds of a stretch and keeps the rest of   *)
(* it, however it was cut.                                                 *)
RestOf(v) == SubSeq(v.seg, V!Cut(v.seg) + 1, Len(v.seg))
EndsOf(v) == {V!BlockEnd(b) : b \in {b \in V!ToSet(RestOf(v)) : b.speech}}
SplitOf(v) == [v EXCEPT !.prev = V!BlockEnd(v.seg[V!Cut(v.seg)]),
                        !.seg = IF EndsOf(v) # {} THEN RestOf(v) ELSE <<>>,
                        !.last = IF EndsOf(v) # {} THEN V!Max(EndsOf(v)) ELSE v.last]
SplitOut(o, v) == IF V!Enough(SubSeq(v.seg, 1, V!Cut(v.seg)))
                  THEN Append(o, V!Segment(SubSeq(v.seg, 1, V!Cut(v.seg)), V!BlockEnd(v.seg[V!Cut(v.seg)]))) ELSE o

LEMMA SplitKeeps ==
  ASSUME NEW p \in Nat, NEW v, DetectorOK(v, p, MaxSegment + Block), 2 \in DOMAIN v.seg,
         p - v.seg[1].start >= MaxSegment,
         NEW o, ReturnsOK(o, v.prev), NEW h, Remembered(h, v, p, o)
  PROVE  /\ DetectorOK(SplitOf(v), p, MaxSegment) /\ (Whole(v.seg) => Whole(SplitOf(v).seg))
         /\ ReturnsOK(SplitOut(o, v), SplitOf(v).prev) /\ Remembered(h, SplitOf(v), p, SplitOut(o, v))
         /\ SplitOf(v).ring = v.ring /\ SplitOf(v).carry = v.carry /\ SplitOf(v).at = v.at
<1> DEFINE seg == v.seg
           N == Len(seg)
           q == V!Cut(seg)
           c == V!BlockEnd(seg[q])
           head == SubSeq(seg, 1, q)
           rest == RestOf(v)
           spoken == EndsOf(v)
           v2 == SplitOf(v)
           o2 == SplitOut(o, v)
<1>0. 2 \in DOMAIN seg /\ p - seg[1].start >= MaxSegment
  OBVIOUS
<1>1. /\ v \in Detector /\ p \in Nat /\ Run(seg, p) /\ v.last <= p /\ seg # <<>> /\ v.onset = 0
      /\ v.prev <= seg[1].start /\ seg[1].start <= v.last /\ p - seg[1].start <= MaxSegment + Block
      /\ Run(v.ring, p) /\ Len(v.ring) <= Preroll + Onset
  BY DEF DetectorOK
<1>2. v.last \in Nat /\ v.prev \in Nat /\ seg \in Seq(Blks)
  BY <1>1 DEF Detector
<1>3. N \in Nat /\ DOMAIN seg = 1..N /\ N >= 2 /\ 1 \in 1..N /\ N \in 1..N
  BY <1>0, <1>2
<1> HIDE DEF seg
<1>4. /\ q \in 1..N - 1
      /\ seg[q].speech => \E lo \in 1..q : /\ \A k \in lo..N - 1 : seg[k].speech
                                           /\ V!BlockEnd(seg[N - 1]) - seg[lo].start >= 2 * MinSpeech - 1
  BY <1>0, <1>1, CutIs
<1> HIDE DEF q, rest, spoken, v2, o2, head
<1>5. /\ \A k \in 1..N : /\ seg[k] \in Blks /\ seg[k].start \in Nat /\ V!BlockEnd(seg[k]) \in Nat
                         /\ seg[1].start <= seg[k].start /\ seg[k].start < V!BlockEnd(seg[k])
                         /\ V!BlockEnd(seg[k]) <= p
      /\ V!BlockEnd(seg[N]) = p
  BY <1>1, <1>3, RunSpan
<1>6. \A k, m \in 1..N : k < m => V!BlockEnd(seg[k]) <= seg[m].start
  BY <1>1, <1>3, RunOrder
<1>7. \A k \in 1..N : k < N => seg[k].len = Block
  BY <1>1, <1>3 DEF Run
<1> HIDE DEF N
<1>8. q \in 1..N /\ q + 1 \in 1..N /\ q + 1 \in 1..N + 1 /\ q < N
  BY <1>3, <1>4
<1>9. c \in Nat /\ c <= p /\ seg[1].start + Block <= c /\ seg[1].start < c
  <2>1. seg[1].len = Block /\ V!BlockEnd(seg[1]) = seg[1].start + Block
    BY <1>3, <1>7 DEF V!BlockEnd
  <2>3. /\ seg[1].start \in Nat /\ V!BlockEnd(seg[1]) \in Nat /\ seg[q].start \in Nat /\ c \in Nat
        /\ seg[q].start < c /\ c <= p
    BY <1>3, <1>5, <1>8
  <2> HIDE DEF c
  <2>2. V!BlockEnd(seg[1]) <= c
    <3>1. CASE q = 1
      BY <2>3, <3>1 DEF c
    <3>2. CASE 1 < q
      <4>1. V!BlockEnd(seg[1]) <= seg[q].start
        BY <1>3, <1>6, <1>8, <3>2
      <4> QED
        BY <2>3, <4>1
    <3> QED
      BY <1>8, <3>1, <3>2
  <2>4. Block \in Nat /\ Block >= 1
    BY Lengths
  <2> QED
    BY <2>1, <2>2, <2>3, <2>4
<1>10. /\ Run(rest, p) /\ Len(rest) = N - q /\ DOMAIN rest = 1..N - q /\ rest \in Seq(Blks)
       /\ \A k \in 1..N - q : rest[k] = seg[k + q]
       /\ \A k \in q + 1..N : k - q \in 1..N - q /\ rest[k - q] = seg[k]
       /\ rest # <<>> /\ 1 \in 1..N - q
  <2>1. N \in 0..N /\ q + 1 <= N + 1 /\ N - (q + 1) + 1 = N - q
    BY <1>3, <1>8
  <2>6. rest = SubSeq(seg, q + 1, Len(seg)) /\ Len(seg) = N
    BY DEF seg, N, rest, RestOf, q
  <2>7. q + 1 \in 1..Len(seg) + 1 /\ Len(seg) \in 0..Len(seg) /\ q + 1 <= Len(seg) + 1
    BY <1>8, <2>1, <2>6
  <2>8. /\ Run(SubSeq(seg, q + 1, Len(seg)), p) /\ SubSeq(seg, q + 1, Len(seg)) \in Seq(Blks)
        /\ Len(SubSeq(seg, q + 1, Len(seg))) = Len(seg) - (q + 1) + 1
        /\ \A k \in 1..(Len(seg) - (q + 1) + 1) : SubSeq(seg, q + 1, Len(seg))[k] = seg[k + (q + 1) - 1]
    BY <1>1, <2>7, PartOfRun
  <2> HIDE DEF N
  <2>9. /\ Run(rest, p) /\ Len(rest) = N - q /\ rest \in Seq(Blks)
        /\ \A k \in 1..N - q : rest[k] = seg[k + (q + 1) - 1]
    BY <2>1, <2>6, <2>8
  <2>10. \A k \in 1..N - q : k + (q + 1) - 1 = k + q
    BY <1>8
  <2>2. \A k \in 1..N - q : rest[k] = seg[k + q]
    BY <2>9, <2>10
  <2>4. \A k \in q + 1..N : k - q \in 1..N - q /\ k - q + q = k
    BY <1>3, <1>8
  <2>3. \A k \in q + 1..N : rest[k - q] = seg[k]
    BY <2>2, <2>4
  <2>5. 1 \in 1..N - q /\ N - q # 0
    BY <1>3, <1>4
  <2>11. DOMAIN rest = 1..N - q /\ rest # <<>>
    BY <2>5, <2>9
  <2> QED
    BY <2>2, <2>3, <2>4, <2>5, <2>9, <2>11
<1>11. rest[1].start = c /\ rest[1] \in Blks
  <2>1. rest[1] = seg[q + 1] /\ seg[q + 1].start = V!BlockEnd(seg[q])
    <3>1. 1 + q = q + 1
      BY <1>8
    <3>2. \A k \in 1..N : k < N => seg[k + 1].start = V!BlockEnd(seg[k])
      <4>1. \A k \in 2..N : seg[k].start = V!BlockEnd(seg[k - 1])
        BY <1>1 DEF Run, V!Gapless, N
      <4>2. \A k \in 1..N : k < N => k + 1 \in 2..N /\ k + 1 - 1 = k
        BY <1>3
      <4> QED
        BY <4>1, <4>2
    <3>3. rest[1] = seg[q + 1]
      BY <1>10, <3>1
    <3> QED
      BY <1>8, <3>2, <3>3
  <2> QED
    BY <1>5, <1>8, <2>1
<1> HIDE DEF c
<1>12. p - c <= MaxSegment
  <2>1. seg[1].start \in Nat /\ Block \in Nat /\ MaxSegment \in Nat
    BY <1>3, <1>5, Lengths
  <2> QED
    BY <1>1, <1>9, <2>1
<1>13. /\ spoken \subseteq 0..p
       /\ \A k \in 1..N - q : rest[k].speech => V!BlockEnd(rest[k]) \in spoken
       /\ spoken # {} => \E k \in 1..N - q : rest[k].speech
       /\ \A x \in spoken : c < x
  <2>1. \A x \in spoken : \E k \in 1..N - q : rest[k].speech /\ x = V!BlockEnd(rest[k])
    <3> SUFFICES ASSUME NEW x \in spoken
                 PROVE  \E k \in 1..N - q : rest[k].speech /\ x = V!BlockEnd(rest[k])
      OBVIOUS
    <3>1. PICK b \in V!ToSet(rest) : b.speech /\ x = V!BlockEnd(b)
      BY DEF spoken, EndsOf, rest
    <3>2. PICK k \in 1..N - q : b = rest[k]
      BY <1>10, <3>1 DEF V!ToSet
    <3> QED
      BY <3>1, <3>2
  <2>2. \A k \in 1..N - q : rest[k].speech => V!BlockEnd(rest[k]) \in spoken
    BY <1>10 DEF V!ToSet, spoken, EndsOf, rest
  <2>3. ASSUME NEW k \in 1..N - q PROVE V!BlockEnd(rest[k]) \in 0..p /\ c < V!BlockEnd(rest[k])
    <3>1. k \in DOMAIN rest
      BY <1>10
    <3>2. /\ rest[k].start \in Nat /\ V!BlockEnd(rest[k]) \in Nat /\ rest[1].start <= rest[k].start
          /\ rest[k].start < V!BlockEnd(rest[k]) /\ V!BlockEnd(rest[k]) <= p
      BY <1>10, <3>1, RunSpan
    <3>3. c \in Nat /\ rest[1].start = c
      BY <1>9, <1>11
    <3> QED
      BY <3>2, <3>3
  <2> QED
    BY <2>1, <2>2, <2>3
<1>14. spoken # {} => /\ V!Max(spoken) \in 0..p /\ c < V!Max(spoken)
                      /\ \A k \in 1..N - q : rest[k].speech => V!BlockEnd(rest[k]) <= V!Max(spoken)
  BY <1>1, <1>13, MaxIs
<1>15. /\ v2.ring = v.ring /\ v2.carry = v.carry /\ v2.at = v.at /\ v2.onset = 0 /\ v2.prev = c
       /\ spoken # {} => v2.seg = rest /\ v2.last = V!Max(spoken)
       /\ spoken = {} => v2.seg = <<>> /\ v2.last = v.last
       /\ v2 \in Detector
  <2>1. DOMAIN v = {"ring", "onset", "seg", "last", "prev", "carry", "at"}
    BY <1>1 DEF Detector
  <2>2. /\ v2.ring = v.ring /\ v2.carry = v.carry /\ v2.at = v.at /\ v2.onset = 0 /\ v2.prev = c
        /\ spoken # {} => v2.seg = rest /\ v2.last = V!Max(spoken)
        /\ spoken = {} => v2.seg = <<>> /\ v2.last = v.last
    BY <1>1, <2>1 DEF c, seg, Detector, v2, SplitOf, q, spoken, rest
  <2>3. v2.last \in Nat /\ v2.seg \in Seq(Blks)
    <3>1. <<>> \in Seq(Blks) /\ (spoken # {} => V!Max(spoken) \in Nat)
      BY <1>1, <1>14
    <3> QED
      BY <1>2, <1>10, <2>2, <3>1
  <2>4. v2 \in Detector
    <3> DEFINE s2 == IF spoken # {} THEN rest ELSE <<>>
               l2 == IF spoken # {} THEN V!Max(spoken) ELSE v.last
    <3>1. v2 = [v EXCEPT !.prev = c, !.seg = s2, !.last = l2]
      BY DEF v2, SplitOf, c, seg, q, spoken, rest
    <3>2. s2 \in Seq(Blks) /\ l2 \in Nat
      BY <2>2, <2>3
    <3> HIDE DEF s2, l2
    <3> QED
      BY <1>1, <1>9, <3>1, <3>2 DEF Detector
  <2> QED
    BY <2>2, <2>4
<1>16. DetectorOK(v2, p, MaxSegment) /\ (Whole(seg) => Whole(v2.seg))
  <2>1. CASE spoken = {}
    <3>1. v2.seg = <<>> /\ Run(v2.seg, p) /\ Whole(v2.seg)
      <4>1. v2.seg = <<>>
        BY <1>15, <2>1
      <4>2. v2.seg \in Seq(Blks) /\ DOMAIN v2.seg = {} /\ 2..Len(v2.seg) = {}
        BY <4>1
      <4> QED
        BY <4>1, <4>2 DEF Run, V!Gapless, Whole
    <3> QED
      BY <1>1, <1>9, <1>15, <2>1, <3>1, Lengths DEF DetectorOK
  <2>2. CASE spoken # {}
    <3>1. v2.seg = rest /\ v2.last = V!Max(spoken)
      BY <1>15, <2>2
    <3>2. v2.last <= p /\ c <= v2.last
      BY <1>9, <1>14, <2>2, <3>1
    <3>3. Whole(seg) => Whole(rest)
      <4>1. \A k \in 1..N - q : k + q \in 1..N
        BY <1>3, <1>8
      <4>2. DOMAIN seg = 1..N
        BY <1>3
      <4>3. ASSUME Whole(seg), NEW k \in 1..N - q PROVE rest[k].len = Block
        <5>1. seg[k + q].len = Block
          BY <4>1, <4>2, <4>3 DEF Whole
        <5> QED
          BY <1>10, <5>1
      <4> QED
        BY <1>10, <4>3 DEF Whole
    <3>5. v2.seg[1].start = c /\ v2.prev = c /\ c \in Nat /\ c <= p /\ v2.onset = 0 /\ 0 < Onset
      BY <1>9, <1>11, <1>15, <3>1, Lengths
    <3>6. \A k \in DOMAIN v2.seg : v2.seg[k].speech => V!BlockEnd(v2.seg[k]) <= v2.last
      BY <1>10, <1>14, <2>2, <3>1
    <3>4. /\ v2.prev <= v2.seg[1].start /\ v2.seg[1].start <= v2.last /\ p - v2.seg[1].start <= MaxSegment
          /\ v2.prev <= p /\ v2.onset < Onset
      BY <1>12, <3>2, <3>5
    <3> QED
      BY <1>1, <1>10, <1>15, <3>1, <3>2, <3>3, <3>4, <3>5, <3>6 DEF DetectorOK
  <2> QED
    BY <2>1, <2>2
<1> DEFINE new == V!Segment(head, c)
<1>17. /\ Run(head, c) /\ Len(head) = q /\ head \in Seq(Blks) /\ head # <<>>
       /\ head[1] = seg[1] /\ head[q] = seg[q]
  <2>1. Len(seg) = N
    BY DEF N
  <2>2. q \in 1..Len(seg) /\ 1 \in 1..q /\ q \in 1..q
    BY <1>3, <1>8, <2>1
  <2>3. /\ Run(SubSeq(seg, 1, q), V!BlockEnd(seg[q])) /\ SubSeq(seg, 1, q) # <<>>
        /\ SubSeq(seg, 1, q) \in Seq(Blks) /\ Len(SubSeq(seg, 1, q)) = q
        /\ \A k \in 1..q : SubSeq(seg, 1, q)[k] = seg[k]
    BY <1>1, <2>2, HeadIs
  <2> QED
    BY <2>2, <2>3 DEF head, c
<1>18. /\ new.start = seg[1].start /\ new.end = c /\ Good(new)
  <2>1. new.start = seg[1].start /\ new.end = c /\ new.audio = head
    BY <1>17 DEF V!Segment
  <2>2. new \in Piece
    BY <1>3, <1>5, <1>9, <1>17 DEF V!Segment, Piece
  <2>3. c - seg[1].start <= MaxSegment + Block /\ seg[1].start < c
    <3>1. seg[1].start \in Nat /\ c \in Nat /\ c <= p /\ p - seg[1].start <= MaxSegment + Block /\ seg[1].start < c
      BY <1>1, <1>3, <1>5, <1>9
    <3>2. Block \in Nat /\ MaxSegment \in Nat
      BY Lengths
    <3> QED
      BY <3>1, <3>2
  <2>4. V!Gapless(head) /\ c <= V!BlockEnd(head[Len(head)])
    <3>1. V!BlockEnd(head[Len(head)]) = c
      BY <1>17 DEF c
    <3> QED
      BY <1>9, <1>17, <3>1 DEF Run
  <2> HIDE DEF new
  <2> QED
    BY <1>17, <2>1, <2>2, <2>3, <2>4 DEF Good
<1> HIDE DEF new
<1>19. o2 = IF V!Enough(head) THEN Append(o, new) ELSE o
  BY DEF o2, SplitOut, new, head, c, q, seg
<1>20. /\ ReturnsOK(o2, c)
       /\ \A s : Met(o, s) => Met(o2, s)
       /\ V!Enough(head) => \A s : V!Meets(s, new) => Met(o2, s)
  <2>1. v.prev <= c /\ v.prev <= new.start /\ new.end <= c
    BY <1>1, <1>2, <1>3, <1>5, <1>9, <1>18
  <2>2. CASE V!Enough(head)
    BY <1>2, <1>9, <1>18, <1>19, <2>1, <2>2, OneMore
  <2>3. CASE ~V!Enough(head)
    BY <1>2, <1>9, <1>19, <2>1, <2>3, LaterReturns
  <2> QED
    BY <2>2, <2>3
<1>21. ASSUME NEW a \in 1..q, NEW b \in a..q, \A k \in a..b : seg[k].speech,
              V!BlockEnd(seg[b]) - seg[a].start >= MinSpeech, NEW s, s.start \in Nat, s.end \in Nat,
              s.start < c, seg[1].start < s.end
       PROVE  Met(o2, s)
  <2>1. q \in 1..Len(seg)
    BY <1>8 DEF N
  <2>2. V!Enough(head)
    BY <1>1, <1>21, <2>1, HeadHas DEF head
  <2>3. V!Meets(s, new)
    BY <1>18, <1>21 DEF V!Meets
  <2> QED
    BY <1>20, <2>2, <2>3
<1>22. rest # <<>> /\ (\E k \in 1..N - q : rest[k].speech) => v2.seg = rest
  BY <1>13, <1>15
<1>23. \A k \in q + 1..N : rest[k - q] = seg[k] /\ k - q \in 1..N - q
  BY <1>10
(* A part of a cut stretch is long enough: the head's, or the rest's.      *)
<1>24. ASSUME NEW a \in 1..q, NEW b \in q + 1..N, \A k \in a..b : seg[k].speech,
              b < N => ~seg[b + 1].speech,
              NEW s, s.start \in Nat, s.end \in Nat, s.start <= seg[a].start, s.end = V!BlockEnd(seg[b])
       PROVE  Met(o2, s) \/ V!BlockEnd(seg[b]) - c >= MinSpeech
  <2>1. q \in a..b /\ seg[q].speech
    BY <1>8, <1>24
  <2>2. PICK lo \in 1..q : /\ \A k \in lo..N - 1 : seg[k].speech
                           /\ V!BlockEnd(seg[N - 1]) - seg[lo].start >= 2 * MinSpeech - 1
    BY <1>4, <2>1
  <2>3. b \in {N - 1, N}
    <3> SUFFICES ASSUME b < N - 1 PROVE FALSE
      BY <1>3, <1>8
    <3>1. b + 1 \in lo..N - 1 /\ b < N
      BY <1>3, <1>8
    <3> QED
      BY <1>24, <2>2, <3>1
  <2>4. /\ V!BlockEnd(seg[N - 1]) \in Nat /\ V!BlockEnd(seg[b]) \in Nat /\ seg[lo].start \in Nat
        /\ seg[a].start \in Nat /\ seg[a].start < c /\ seg[1].start < s.end
        /\ V!BlockEnd(seg[N - 1]) <= V!BlockEnd(seg[b])
    <3>1. N - 1 \in 1..N /\ b \in 1..N /\ lo \in 1..N /\ a \in 1..N /\ 1 \in 1..N
      BY <1>3, <1>8
    <3>2. /\ V!BlockEnd(seg[N - 1]) \in Nat /\ V!BlockEnd(seg[b]) \in Nat /\ seg[lo].start \in Nat
          /\ seg[a].start \in Nat /\ V!BlockEnd(seg[N]) = p /\ V!BlockEnd(seg[N - 1]) <= p
          /\ V!BlockEnd(seg[a]) \in Nat /\ seg[a].start < V!BlockEnd(seg[a]) /\ seg[q].start < c
          /\ seg[q].start \in Nat /\ c \in Nat /\ seg[1].start \in Nat
          /\ seg[1].start <= seg[b].start /\ seg[b].start < V!BlockEnd(seg[b]) /\ seg[b].start \in Nat
      BY <1>5, <1>8, <1>9, <3>1 DEF c
    <3>3. seg[a].start < c
      <4>1. CASE a = q
        BY <3>2, <4>1
      <4>2. CASE a < q
        <5>1. V!BlockEnd(seg[a]) <= seg[q].start
          BY <1>6, <1>8, <3>1, <4>2
        <5> QED
          BY <3>2, <5>1
      <4> QED
        BY <1>8, <4>1, <4>2
    <3>4. V!BlockEnd(seg[N - 1]) <= V!BlockEnd(seg[b])
      BY <2>3, <3>2
    <3>5. seg[1].start < s.end
      BY <1>24, <3>2
    <3> QED
      BY <3>2, <3>3, <3>4, <3>5
  <2>5. \A k \in lo..q : seg[k].speech
    BY <1>3, <1>8, <2>2
  <2>6. CASE c - seg[lo].start >= MinSpeech
    <3>1. q \in lo..q /\ s.start < c
      BY <1>8, <1>9, <1>24, <2>4
    <3> QED
      BY <1>21, <1>24, <2>4, <2>5, <2>6, <3>1 DEF c
  <2>7. CASE ~(c - seg[lo].start >= MinSpeech)
    <3>1. 2 * MinSpeech = MinSpeech + MinSpeech /\ MinSpeech \in Nat
      BY Lengths
    <3> QED
      BY <1>9, <2>2, <2>4, <2>7, <3>1
  <2> QED
    BY <2>6, <2>7
<1>26. ASSUME NEW a \in q + 1..N, NEW b \in a..N, \A k \in a..b : seg[k].speech
       PROVE  /\ v2.seg = rest /\ a - q \in 1..N - q /\ b - q \in 1..N - q /\ a - q <= b - q
              /\ rest[a - q] = seg[a] /\ rest[b - q] = seg[b]
              /\ \A k \in (a - q)..(b - q) : rest[k].speech
              /\ b < N => b - q + 1 \in 1..N - q /\ rest[b - q + 1] = seg[b + 1]
  <2>1. /\ a - q \in 1..N - q /\ b - q \in 1..N - q /\ a - q <= b - q /\ b \in q + 1..N
        /\ a \in a..b
    BY <1>3, <1>8
  <2>2. rest[a - q] = seg[a] /\ rest[b - q] = seg[b]
    BY <1>23, <2>1
  <2>3. ASSUME NEW k \in (a - q)..(b - q) PROVE rest[k].speech
    <3>1. k \in 1..N - q /\ k + q \in a..b
      BY <1>3, <1>8
    <3> QED
      BY <1>10, <1>26, <3>1
  <2>4. ASSUME b < N PROVE b - q + 1 \in 1..N - q /\ rest[b - q + 1] = seg[b + 1]
    <3>1. PICK m \in q + 1..N : m = b + 1 /\ m - q = b - q + 1
      BY <1>3, <1>8, <2>4
    <3>2. rest[m - q] = seg[m] /\ m - q \in 1..N - q
      BY <1>23
    <3> QED
      BY <3>1, <3>2, Zenon
  <2>5. v2.seg = rest
    <3>1. rest[a - q].speech
      BY <1>26, <2>1, <2>2
    <3> QED
      BY <1>10, <1>22, <2>1, <3>1
  <2> QED
    BY <2>1, <2>2, <2>3, <2>4, <2>5
<1>27. \A s \in h.owed : s.start \in Nat /\ s.end \in Nat
  BY DEF Remembered, History, Stretch
<1>28. ASSUME NEW s \in h.owed PROVE Met(o2, s) \/ (v2.seg # <<>> /\ Held(v2.seg, s))
  <2>1. CASE Met(o, s)
    BY <1>20, <2>1
  <2>2. CASE Held(seg, s)
    <3>1. PICK i \in 1..N, j \in 1..N :
              /\ i <= j /\ \A k \in i..j : seg[k].speech
              /\ V!BlockEnd(seg[j]) = s.end /\ (j < N => ~seg[j + 1].speech)
              /\ s.start <= seg[i].start /\ V!BlockEnd(seg[j]) - seg[i].start >= MinSpeech
      BY <1>3, <2>2 DEF Held, N
    <3>2. /\ seg[i].start \in Nat /\ V!BlockEnd(seg[j]) \in Nat /\ seg[q].start \in Nat /\ seg[q].start < c
          /\ V!BlockEnd(seg[i]) \in Nat /\ seg[i].start < V!BlockEnd(seg[i])
          /\ seg[1].start < s.end
      <4>1. /\ seg[i].start \in Nat /\ V!BlockEnd(seg[j]) \in Nat /\ seg[q].start \in Nat /\ seg[q].start < c
            /\ V!BlockEnd(seg[i]) \in Nat /\ seg[i].start < V!BlockEnd(seg[i])
            /\ seg[1].start \in Nat /\ seg[1].start <= seg[j].start /\ seg[j].start < V!BlockEnd(seg[j])
            /\ seg[j].start \in Nat
        BY <1>3, <1>5, <1>8 DEF c
      <4> QED
        BY <3>1, <4>1
    <3>3. CASE i > q
      <4>1. i \in q + 1..N /\ j \in i..N
        BY <1>3, <1>8, <3>1, <3>3
      <4>2. /\ v2.seg = rest /\ i - q \in 1..N - q /\ j - q \in 1..N - q /\ i - q <= j - q
            /\ rest[i - q] = seg[i] /\ rest[j - q] = seg[j]
            /\ \A k \in (i - q)..(j - q) : rest[k].speech
            /\ j < N => j - q + 1 \in 1..N - q /\ rest[j - q + 1] = seg[j + 1]
        BY <1>26, <3>1, <4>1
      <4>3. j - q < Len(rest) => ~rest[j - q + 1].speech
        <5>1. j - q < N - q => j < N
          BY <1>3, <1>8
        <5> QED
          BY <1>10, <3>1, <4>2, <5>1
      <4>4. Held(rest, s)
        BY <1>10, <3>1, <4>2, <4>3 DEF Held
      <4> QED
        BY <1>10, <4>2, <4>4
    <3>4. CASE j <= q
      <4>1. i \in 1..q /\ j \in i..q
        BY <1>3, <1>8, <3>1, <3>4
      <4>2. seg[i].start < c
        <5>1. CASE i = q
          BY <3>2, <5>1
        <5>2. CASE i < q
          <6>1. V!BlockEnd(seg[i]) <= seg[q].start
            BY <1>6, <1>8, <5>2
          <6> QED
            BY <1>9, <3>2, <6>1
        <5> QED
          BY <1>8, <4>1, <5>1, <5>2
      <4>3. s.start < c
        BY <1>9, <1>27, <3>1, <3>2, <4>2
      <4> QED
        BY <1>21, <1>27, <3>1, <3>2, <4>1, <4>3
    <3>5. CASE i <= q /\ j > q
      <4>1. i \in 1..q /\ j \in q + 1..N /\ j \in i..N /\ q + 1 \in q + 1..N /\ j \in (q + 1)..N
        BY <1>3, <1>8, <3>1, <3>5
      <4>2. Met(o2, s) \/ V!BlockEnd(seg[j]) - c >= MinSpeech
        BY <1>24, <1>27, <3>1, <4>1
      <4>3. CASE V!BlockEnd(seg[j]) - c >= MinSpeech
        <5>1. \A k \in (q + 1)..j : seg[k].speech
          <6>1. \A k \in (q + 1)..j : k \in i..j
            BY <1>8, <4>1
          <6> QED
            BY <3>1, <6>1
        <5>7. PICK a \in q + 1..N : a = q + 1
          BY <4>1
        <5>8. j \in a..N /\ \A k \in a..j : seg[k].speech
          BY <4>1, <5>1, <5>7
        <5>9. /\ v2.seg = rest /\ a - q \in 1..N - q /\ j - q \in 1..N - q /\ a - q <= j - q
              /\ rest[j - q] = seg[j]
              /\ \A k \in (a - q)..(j - q) : rest[k].speech
              /\ j < N => j - q + 1 \in 1..N - q /\ rest[j - q + 1] = seg[j + 1]
          BY <1>26, <5>8
        <5>3. a - q = 1 /\ (j - q < N - q => j < N)
          BY <1>3, <1>8, <5>7
        <5>2. /\ v2.seg = rest /\ 1 \in 1..N - q /\ j - q \in 1..N - q /\ 1 <= j - q
              /\ rest[j - q] = seg[j]
              /\ \A k \in 1..(j - q) : rest[k].speech
              /\ j < N => j - q + 1 \in 1..N - q /\ rest[j - q + 1] = seg[j + 1]
          BY <5>3, <5>9
        <5>4. j - q < Len(rest) => ~rest[j - q + 1].speech
          BY <1>10, <3>1, <5>2, <5>3
        <5>5. s.start <= c
          <6>1. seg[i].start < c
            <7>1. CASE i = q
              BY <3>2, <7>1
            <7>2. CASE i < q
              <8>1. V!BlockEnd(seg[i]) <= seg[q].start
                BY <1>6, <1>8, <7>2
              <8> QED
                BY <1>9, <3>2, <8>1
            <7> QED
              BY <1>8, <4>1, <7>1, <7>2
          <6> QED
            BY <1>9, <1>27, <3>1, <3>2, <6>1
        <5>6. Held(rest, s)
          BY <1>10, <1>11, <3>1, <4>3, <5>2, <5>3, <5>4, <5>5 DEF Held
        <5> QED
          BY <1>10, <5>2, <5>6
      <4> QED
        BY <4>2, <4>3
    <3> QED
      BY <1>3, <1>8, <3>3, <3>4, <3>5
  <2> QED
    BY <2>1, <2>2 DEF Remembered, seg
<1>29. ASSUME h.from # V!None PROVE Met(o2, Now(h)) \/ (h.end = p /\ v2.seg # <<>> /\ HeldSoFar(v2.seg, h.from))
  <2>1. CASE Met(o, Now(h))
    BY <1>20, <2>1
  <2>2. CASE h.end = p /\ HeldSoFar(seg, h.from)
    <3>1. PICK i \in 1..N : /\ \A k \in i..N : seg[k].speech
                            /\ h.from <= seg[i].start
                            /\ seg[i].start = h.from \/ p - seg[i].start >= MinSpeech
      BY <1>3, <1>5, <2>2 DEF HeldSoFar, N
    <3>2. /\ Now(h).start = h.from /\ Now(h).end = p /\ h.from \in Nat
      BY <1>29, <2>2 DEF Now, Remembered, History
    <3>3. CASE i > q
      <4>1. i \in q + 1..N /\ N \in i..N
        BY <1>3, <1>8, <3>3
      <4>2. /\ v2.seg = rest /\ i - q \in 1..N - q /\ rest[i - q] = seg[i] /\ rest[N - q] = seg[N]
            /\ \A k \in (i - q)..(N - q) : rest[k].speech
        BY <1>26, <3>1, <4>1
      <4>3. HeldSoFar(rest, h.from)
        BY <1>5, <1>10, <3>1, <4>2 DEF HeldSoFar
      <4> QED
        BY <1>10, <2>2, <4>2, <4>3
    <3>4. CASE i <= q
      <4>1. i \in 1..q /\ N \in q + 1..N /\ q + 1 \in q + 1..N /\ N \in (q + 1)..N /\ ~(N < N)
        BY <1>3, <1>8, <3>4
      <4>2. Met(o2, Now(h)) \/ V!BlockEnd(seg[N]) - c >= MinSpeech
        BY <1>1, <1>5, <1>24, <3>1, <3>2, <4>1
      <4>3. CASE V!BlockEnd(seg[N]) - c >= MinSpeech
        <5>1. \A k \in (q + 1)..N : seg[k].speech
          <6>1. \A k \in (q + 1)..N : k \in i..N
            BY <1>8, <4>1
          <6> QED
            BY <3>1, <6>1
        <5>7. PICK a \in q + 1..N : a = q + 1
          BY <4>1
        <5>8. N \in a..N /\ \A k \in a..N : seg[k].speech
          BY <1>3, <4>1, <5>1, <5>7
        <5>9. /\ v2.seg = rest /\ a - q \in 1..N - q /\ rest[N - q] = seg[N]
              /\ \A k \in (a - q)..(N - q) : rest[k].speech
          BY <1>26, <5>8
        <5>3. a - q = 1
          BY <1>8, <5>7
        <5>2. /\ v2.seg = rest /\ 1 \in 1..N - q /\ rest[N - q] = seg[N]
              /\ \A k \in 1..(N - q) : rest[k].speech
          BY <5>3, <5>9
        <5>4. h.from <= c
          <6>1. /\ seg[i].start \in Nat /\ V!BlockEnd(seg[i]) \in Nat /\ seg[i].start < V!BlockEnd(seg[i])
                /\ seg[q].start \in Nat /\ seg[q].start < c
            BY <1>3, <1>5, <1>8 DEF c
          <6>2. CASE i = q
            BY <1>9, <3>1, <3>2, <6>1, <6>2
          <6>3. CASE i < q
            <7>1. V!BlockEnd(seg[i]) <= seg[q].start
              BY <1>6, <1>8, <6>3
            <7> QED
              BY <1>9, <3>1, <3>2, <6>1, <7>1
          <6> QED
            BY <1>8, <4>1, <6>2, <6>3
        <5>5. HeldSoFar(rest, h.from)
          BY <1>5, <1>10, <1>11, <4>3, <5>2, <5>3, <5>4 DEF HeldSoFar
        <5> QED
          BY <1>10, <2>2, <5>2, <5>5
      <4> QED
        BY <4>2, <4>3
    <3> QED
      BY <1>3, <1>8, <3>3, <3>4
  <2> QED
    BY <1>1, <1>29, <2>1, <2>2 DEF Remembered, Counted, seg
<1>30. h.from # V!None => h.end = p
  BY <1>1 DEF Remembered, History, seg
<1>31. Remembered(h, v2, p, o2)
  <2>1. History(h, p)
    BY DEF Remembered
  <2>2. h.from # V!None => h.end <= p /\ h.end \in Nat /\ ~(h.end < p)
    BY <1>1, <1>30
  <2> QED
    BY <1>15, <1>28, <1>29, <1>30, <2>1, <2>2 DEF Remembered
<1> QED
  BY <1>15, <1>16, <1>20, <1>31 DEF v2, o2, seg

----------------------------------------------------------------------------
(* One block.  What the histories are told of it.                          *)
Hist == [from : Int, end : Int, owed : SUBSET Stretch]

(* A block of speech goes on with a stretch that reaches it, or begins one;*)
(* any other block ends the stretch, which is owed a segment if it is long.*)
LEMMA HearsIs ==
  ASSUME NEW p \in Nat, NEW h \in Hist, History(h, p), NEW b \in Blks, b.start = p
  PROVE  /\ V!Hears(h, b) \in Hist /\ History(V!Hears(h, b), V!BlockEnd(b))
         /\ b.speech => /\ V!Hears(h, b).end = V!BlockEnd(b) /\ V!Hears(h, b).from # V!None
                        /\ V!Hears(h, b).from = IF h.from # V!None /\ h.end = p THEN h.from ELSE p
         /\ ~b.speech => V!Hears(h, b).from = V!None
         /\ \A s \in V!Hears(h, b).owed :
                s \in h.owed \/ (s = Now(h) /\ h.from # V!None /\ V!Long(s) /\ (~b.speech \/ h.end < p))
<1> DEFINE over1 == h.from # V!None /\ (~b.speech \/ b.start # h.end)
           g == IF over1 THEN V!Ended(h, h.end) ELSE h
           h2 == V!Hears(h, b)
           p2 == V!BlockEnd(b)
<1>1. p2 \in Nat /\ p < p2 /\ b.speech \in BOOLEAN
  BY BlkFacts
<1>2. /\ h.owed \subseteq Stretch /\ \A s \in h.owed : s.start < s.end /\ s.end < p
      /\ h.from # V!None => h.from \in Nat /\ h.end \in Nat /\ h.from < h.end /\ h.end <= p
      /\ h.from \in Int /\ h.end \in Int /\ V!None = -1
  BY DEF History, Hist, V!None
<1>3. h2 = IF b.speech THEN [g EXCEPT !.from = IF g.from = V!None THEN b.start ELSE g.from, !.end = p2] ELSE g
  BY DEF V!Hears
<1>4. /\ V!Ended(h, h.end).from = V!None /\ V!Ended(h, h.end).end = V!None
      /\ V!Ended(h, h.end).owed = IF h.from # V!None /\ V!Long(Now(h)) THEN h.owed \cup {Now(h)} ELSE h.owed
      /\ h.from # V!None => Now(h) \in Stretch /\ Now(h).start < Now(h).end /\ Now(h).end = h.end
  BY <1>2 DEF V!Ended, Now, Stretch
<1>5. V!Ended(h, h.end) \in Hist
  <2>1. V!Ended(h, h.end).owed \subseteq Stretch
    BY <1>2, <1>4
  <2>2. V!Ended(h, h.end) = [from |-> V!None, end |-> V!None, owed |-> V!Ended(h, h.end).owed]
    BY DEF V!Ended
  <2> QED
    BY <1>2, <2>1, <2>2 DEF Hist
<1>6. /\ g \in Hist
      /\ over1 => g.from = V!None /\ (V!Long(Now(h)) => g.owed = h.owed \cup {Now(h)}) /\ (~V!Long(Now(h)) => g.owed = h.owed)
      /\ ~over1 => g = h
  BY <1>4, <1>5
<1> HIDE DEF h2, g
<1>7. /\ \A s \in g.owed : s \in h.owed \/ (s = Now(h) /\ over1 /\ V!Long(s))
      /\ \A s \in g.owed : s \in Stretch /\ s.start < s.end /\ s.end < p2
  <2>1. CASE over1
    <3>1. Now(h) \in Stretch /\ Now(h).start < Now(h).end /\ Now(h).end < p2
      BY <1>1, <1>2, <1>4, <2>1
    <3>2. \A s \in h.owed : s \in Stretch /\ s.start < s.end /\ s.end < p2
      BY <1>1, <1>2 DEF Stretch
    <3>3. \A s \in g.owed : s \in h.owed \/ (s = Now(h) /\ V!Long(s))
      BY <1>6, <2>1
    <3> QED
      BY <2>1, <3>1, <3>2, <3>3
  <2>2. CASE ~over1
    <3>1. g = h
      BY <1>6, <2>2
    <3> QED
      BY <1>1, <1>2, <3>1 DEF Stretch
  <2> QED
    BY <2>1, <2>2
<1>8. /\ h2 \in Hist /\ h2.owed = g.owed
      /\ b.speech => h2.from = (IF g.from = V!None THEN p ELSE g.from) /\ h2.end = p2
      /\ ~b.speech => h2 = g
  <2>1. CASE b.speech
    <3> DEFINE f1 == IF g.from = V!None THEN p ELSE g.from
    <3>1. h2 = [g EXCEPT !.from = f1, !.end = p2]
      BY <1>3, <2>1
    <3>2. f1 \in Int /\ p2 \in Int
      BY <1>1, <1>6 DEF Hist
    <3>3. h2 \in Hist /\ h2.owed = g.owed /\ h2.from = f1 /\ h2.end = p2
      <4> HIDE DEF f1, p2
      <4> QED
        BY <1>6, <3>1, <3>2 DEF Hist
    <3> QED
      BY <2>1, <3>3
  <2>2. CASE ~b.speech
    BY <1>3, <1>6, <2>2
  <2> QED
    BY <2>1, <2>2
<1>9. CASE b.speech
  <2>1. over1 <=> h.from # V!None /\ h.end < p
    BY <1>2, <1>9
  <2>2. h2.from = IF h.from # V!None /\ h.end = p THEN h.from ELSE p
    BY <1>2, <1>6, <1>8, <1>9, <2>1
  <2>3. h2.end = p2 /\ h2.from \in Nat /\ h2.from < p2 /\ h2.from # V!None
    BY <1>1, <1>2, <1>8, <1>9, <2>2
  <2>4. History(h2, p2)
    BY <1>1, <1>7, <1>8, <2>3 DEF History
  <2>5. \A s \in h2.owed : s \in h.owed \/ (s = Now(h) /\ h.from # V!None /\ V!Long(s) /\ h.end < p)
    BY <1>7, <1>8, <2>1
  <2> QED
    BY <1>8, <1>9, <2>2, <2>3, <2>4, <2>5 DEF h2
<1>10. CASE ~b.speech
  <2>1. over1 <=> h.from # V!None
    BY <1>10
  <2>2. h2.from = V!None
    BY <1>6, <1>8, <1>10, <2>1
  <2>3. History(h2, p2)
    BY <1>7, <1>8, <2>2 DEF History
  <2>4. \A s \in h2.owed : s \in h.owed \/ (s = Now(h) /\ h.from # V!None /\ V!Long(s) /\ ~b.speech)
    BY <1>7, <1>8, <1>10
  <2> QED
    BY <1>8, <1>10, <2>2, <2>3, <2>4 DEF h2
<1> QED
  BY <1>1, <1>9, <1>10

LEMMA RingIs ==
  ASSUME NEW p \in Nat, NEW ring, Run(ring, p), Whole(ring), Len(ring) <= Preroll + Onset,
         NEW b \in Blks, b.start = p
  PROVE  /\ Run(V!Ring(ring, b), V!BlockEnd(b)) /\ V!Ring(ring, b) # <<>>
         /\ Len(V!Ring(ring, b)) <= Preroll + Onset
         /\ V!Ring(ring, b)[Len(V!Ring(ring, b))] = b
         /\ b.len = Block => Whole(V!Ring(ring, b))
         /\ \E d \in 0..Len(ring) : /\ Len(V!Ring(ring, b)) = Len(ring) + 1 - d
                                    /\ d = 0 \/ Len(V!Ring(ring, b)) = Preroll + Onset
                                    /\ \A k \in 1..Len(ring) - d : V!Ring(ring, b)[k] = ring[k + d]
<1> DEFINE r == Append(ring, b)
           L == Len(ring)
           P == Preroll + Onset
           x == L + 1 - Preroll - Onset + 1
           a == V!Max({1, x})
           ring2 == SubSeq(r, a, L + 1)
<1>1. /\ Run(r, V!BlockEnd(b)) /\ (b.len = Block => Whole(r)) /\ Len(r) = L + 1 /\ r[L + 1] = b
      /\ \A k \in 1..L : r[k] = ring[k]
      /\ L \in Nat
  BY LongerRun
<1>2. V!Ring(ring, b) = ring2
  <2>1. V!Ring(ring, b) = SubSeq(r, V!Max({1, Len(r) - Preroll - Onset + 1}), Len(r))
    BY DEF V!Ring
  <2>2. Len(r) = L + 1
    BY <1>1
  <2> HIDE DEF r, L
  <2>3. Len(r) - Preroll - Onset + 1 = x
    BY <1>1, <2>2, Lengths
  <2> HIDE DEF x
  <2>4. V!Ring(ring, b) = SubSeq(r, V!Max({1, x}), Len(r))
    BY <2>1, <2>3
  <2> QED
    BY <2>2, <2>4
<1>3. P \in Nat /\ P >= 1 /\ x \in Int /\ x = L + 2 - P
  BY <1>1, Lengths
<1>4. a = IF 1 >= x THEN 1 ELSE x
  <2> HIDE DEF x
  <2>1. 1 \in Int /\ x \in Int
    BY <1>3
  <2> QED
    BY <2>1, Pair, Zenon
<1> HIDE DEF r, x, a, P, L
<1>5. a \in 1..L + 1 /\ a <= L + 2 /\ L + 1 - a + 1 <= P /\ L + 2 - a \in 1..L + 1 /\ a \in Nat
      /\ L + 1 - a + 1 = L + 2 - a
  BY <1>1, <1>3, <1>4 DEF L, P
<1>6. a \in 1..Len(r) + 1 /\ Len(r) \in 0..Len(r) /\ a <= Len(r) + 1
  BY <1>1, <1>5
<1>7. /\ Run(SubSeq(r, a, Len(r)), V!BlockEnd(b)) /\ SubSeq(r, a, Len(r)) \in Seq(Blks)
      /\ Len(SubSeq(r, a, Len(r))) = Len(r) - a + 1
      /\ \A k \in 1..(Len(r) - a + 1) : SubSeq(r, a, Len(r))[k] = r[k + a - 1]
  BY <1>1, <1>6, PartOfRun
<1>8. /\ Run(ring2, V!BlockEnd(b)) /\ ring2 \in Seq(Blks) /\ Len(ring2) = L + 2 - a
      /\ \A k \in 1..(L + 2 - a) : ring2[k] = r[k + a - 1]
  BY <1>1, <1>5, <1>7
<1> HIDE DEF ring2
<1>9. ring2 # <<>> /\ Len(ring2) <= P /\ DOMAIN ring2 = 1..(L + 2 - a)
  BY <1>5, <1>8
<1>10. ring2[Len(ring2)] = b
  <2>1. L + 2 - a \in 1..(L + 2 - a) /\ L + 2 - a + a - 1 = L + 1
    BY <1>1, <1>5
  <2> QED
    BY <1>1, <1>8, <2>1
<1>11. ASSUME b.len = Block PROVE Whole(ring2)
  <2> SUFFICES ASSUME NEW k \in 1..(L + 2 - a) PROVE ring2[k].len = Block
    BY <1>9 DEF Whole
  <2>1. k + a - 1 \in 1..L + 1
    BY <1>1, <1>5
  <2>2. DOMAIN r = 1..L + 1
    BY <1>1 DEF Run
  <2>3. r[k + a - 1].len = Block
    BY <1>1, <1>11, <2>1, <2>2 DEF Whole
  <2> QED
    BY <1>8, <2>3
<1>12. PICK d \in 0..L : d = a - 1
  BY <1>1, <1>5
<1>13. Len(ring2) = L + 1 - d /\ (d = 0 \/ Len(ring2) = P)
  BY <1>1, <1>3, <1>4, <1>5, <1>8, <1>12
<1>14. ASSUME NEW k \in 1..L - d PROVE ring2[k] = ring[k + d]
  <2>1. k \in 1..(L + 2 - a) /\ k + a - 1 = k + d /\ k + d \in 1..L
    BY <1>1, <1>5, <1>12
  <2> QED
    BY <1>1, <1>8, <2>1
<1>15. Run(ring2, V!BlockEnd(b))
  BY <1>8
<1> HIDE DEF ring2
<1>16. \E e \in 0..L : /\ Len(ring2) = L + 1 - e /\ (e = 0 \/ Len(ring2) = P)
                       /\ \A k \in 1..L - e : ring2[k] = ring[k + e]
  BY <1>13, <1>14
<1> QED
  BY <1>2, <1>9, <1>10, <1>11, <1>15, <1>16, Zenon DEF P, L

(* A longer stretch meets what a shorter one met.                          *)
LEMMA MetLater ==
  ASSUME NEW o, NEW prev, ReturnsOK(o, prev), NEW s, NEW t, s.start \in Nat, s.end \in Nat,
         t.start = s.start, t.end \in Nat, s.end <= t.end, Met(o, s)
  PROVE  Met(o, t)
<1>1. PICK k \in DOMAIN o : V!Meets(s, o[k])
  BY DEF Met
<1>2. o[k].start \in Nat /\ o[k].end \in Nat
  <2>1. o[k] \in Piece
    BY DEF ReturnsOK
  <2> QED
    BY <2>1 DEF Piece
<1>3. V!Meets(t, o[k])
  BY <1>1, <1>2 DEF V!Meets
<1> QED
  BY <1>3 DEF Met

(* A block is added to the open segment.                                   *)
KeptOf(v, b) == [v EXCEPT !.ring = V!Ring(v.ring, b), !.seg = Append(v.seg, b),
                          !.last = IF b.speech THEN V!BlockEnd(b) ELSE v.last]

(* A block joins the open segment: its stretch is held as far as it goes.  *)
LEMMA OpenKeeps ==
  ASSUME NEW p \in Nat, NEW v, DetectorOK(v, p, MaxSegment), Whole(v.ring), Whole(v.seg), v.seg # <<>>,
         NEW o, ReturnsOK(o, v.prev), NEW h \in Hist, Remembered(h, v, p, o), NEW b \in Blks, b.start = p
  PROVE  /\ DetectorOK(KeptOf(v, b), V!BlockEnd(b), MaxSegment + Block)
         /\ b.len = Block => Whole(KeptOf(v, b).ring) /\ Whole(KeptOf(v, b).seg)
         /\ Remembered(V!Hears(h, b), KeptOf(v, b), V!BlockEnd(b), o)
         /\ KeptOf(v, b).ring = V!Ring(v.ring, b) /\ KeptOf(v, b).seg = Append(v.seg, b)
         /\ KeptOf(v, b).prev = v.prev /\ KeptOf(v, b).carry = v.carry /\ KeptOf(v, b).at = v.at
         /\ 2 \in DOMAIN KeptOf(v, b).seg /\ KeptOf(v, b).seg[1] = v.seg[1]
<1> DEFINE seg == v.seg
           N == Len(seg)
           p2 == V!BlockEnd(b)
           seg2 == Append(seg, b)
           ring2 == V!Ring(v.ring, b)
           last2 == IF b.speech THEN p2 ELSE v.last
           v2 == KeptOf(v, b)
           h2 == V!Hears(h, b)
<1>1. /\ v \in Detector /\ p \in Nat /\ Run(seg, p) /\ v.last <= p /\ seg # <<>> /\ v.onset = 0
      /\ v.prev <= seg[1].start /\ seg[1].start <= v.last /\ p - seg[1].start <= MaxSegment
      /\ Run(v.ring, p) /\ Len(v.ring) <= Preroll + Onset
      /\ \A k \in DOMAIN seg : seg[k].speech => V!BlockEnd(seg[k]) <= v.last
  BY DEF DetectorOK
<1>2. v.last \in Nat /\ v.prev \in Nat /\ seg \in Seq(Blks)
  BY <1>1 DEF Detector
<1>3. /\ p2 \in Nat /\ p < p2 /\ p2 - p <= Block /\ b.speech \in BOOLEAN
  BY BlkFacts, Lengths
<1>4. /\ Run(ring2, p2) /\ ring2 # <<>> /\ Len(ring2) <= Preroll + Onset /\ (b.len = Block => Whole(ring2))
  BY <1>1, RingIs
<1>5. /\ Run(seg2, p2) /\ seg2 # <<>> /\ (b.len = Block => Whole(seg2))
      /\ Len(seg2) = N + 1 /\ seg2[N + 1] = b /\ \A k \in 1..N : seg2[k] = seg[k]
      /\ N \in Nat
  BY <1>1, LongerRun
<1>6. 1 \in DOMAIN seg
  BY <1>1, <1>2
<1>7. /\ N >= 1 /\ DOMAIN seg = 1..N /\ 1 \in 1..N /\ N \in 1..N /\ seg[1].start \in Nat /\ V!BlockEnd(seg[N]) = p
  BY <1>1, <1>6, RunSpan
<1>8. \A k \in 1..N : /\ seg[k].start \in Nat /\ V!BlockEnd(seg[k]) \in Nat
                      /\ seg[k].start < V!BlockEnd(seg[k]) /\ V!BlockEnd(seg[k]) <= p
  BY <1>1, <1>7, RunSpan
<1> HIDE DEF seg, N, seg2, ring2, h2, p2
<1>9. /\ v2 \in Detector /\ v2.ring = ring2 /\ v2.seg = seg2 /\ v2.last = last2
      /\ v2.prev = v.prev /\ v2.carry = v.carry /\ v2.at = v.at /\ v2.onset = 0
  <2>1. v2 = [v EXCEPT !.ring = ring2, !.seg = seg2, !.last = last2]
    BY DEF KeptOf, ring2, seg2, seg, p2
  <2>2. ring2 \in Seq(Blks) /\ seg2 \in Seq(Blks) /\ last2 \in Nat
    BY <1>2, <1>3, <1>4, <1>5 DEF Run
  <2> HIDE DEF v2, last2
  <2> QED
    BY <1>1, <2>1, <2>2 DEF Detector
<1>10. DOMAIN seg2 = 1..N + 1 /\ 1 \in 1..N + 1 /\ 2 \in 1..N + 1 /\ seg2[1] = seg[1]
  BY <1>5, <1>7 DEF Run
<1>11. last2 \in Nat /\ v.last <= last2 /\ last2 <= p2
  BY <1>1, <1>2, <1>3
<1>12. ASSUME NEW k \in 1..N + 1, seg2[k].speech PROVE V!BlockEnd(seg2[k]) <= last2
  <2>1. CASE k \in 1..N
    <3>1. V!BlockEnd(seg[k]) <= v.last /\ V!BlockEnd(seg[k]) \in Nat
      BY <1>1, <1>5, <1>7, <1>8, <1>12, <2>1
    <3> QED
      BY <1>2, <1>5, <1>11, <2>1, <3>1
  <2>2. CASE k = N + 1
    <3>1. b.speech /\ last2 = p2 /\ V!BlockEnd(seg2[k]) = p2
      BY <1>5, <1>12, <2>2 DEF p2
    <3> QED
      BY <1>3, <3>1
  <2> QED
    BY <1>5, <2>1, <2>2
<1>13. p2 - seg2[1].start <= MaxSegment + Block
  <2>1. MaxSegment \in Nat /\ Block \in Nat
    BY Lengths
  <2> QED
    BY <1>1, <1>3, <1>7, <1>10, <2>1
<1> HIDE DEF v2, last2
<1>14. DetectorOK(v2, p2, MaxSegment + Block)
  <2>1. v2.prev <= p2 /\ v2.onset < Onset
    <3>1. v2.prev <= p2
      BY <1>1, <1>2, <1>3, <1>7, <1>9
    <3>2. v2.onset < Onset
      BY <1>1, <1>9, Lengths
    <3> QED
      BY <3>1, <3>2
  <2>2. /\ v2.prev <= v2.seg[1].start /\ v2.seg[1].start <= v2.last
        /\ p2 - v2.seg[1].start <= MaxSegment + Block
    BY <1>1, <1>2, <1>7, <1>9, <1>10, <1>11, <1>13
  <2>3. \A k \in DOMAIN v2.seg : v2.seg[k].speech => V!BlockEnd(v2.seg[k]) <= v2.last
    BY <1>9, <1>10, <1>12
  <2> QED
    BY <1>3, <1>4, <1>5, <1>9, <1>11, <2>1, <2>2, <2>3 DEF DetectorOK
<1>15. /\ h2 \in Hist /\ History(h2, p2) /\ History(h, p)
       /\ b.speech => /\ h2.end = p2 /\ h2.from # V!None
                      /\ h2.from = IF h.from # V!None /\ h.end = p THEN h.from ELSE p
       /\ ~b.speech => h2.from = V!None
       /\ \A s \in h2.owed :
              s \in h.owed \/ (s = Now(h) /\ h.from # V!None /\ V!Long(s) /\ (~b.speech \/ h.end < p))
  <2>1. History(h, p)
    BY DEF Remembered
  <2> QED
    BY <2>1, HearsIs DEF h2, p2
<1>16. h.from # V!None => h.end = p /\ h.from \in Nat /\ h.from < p
  BY <1>1, <1>15 DEF Remembered, History, seg
<1>17. h.from # V!None => Met(o, Now(h)) \/ HeldSoFar(seg, h.from)
  BY <1>1, <1>16 DEF Remembered, Counted, seg
<1>18. \A k \in 1..N : seg2[k] = seg[k]
  BY <1>5
<1>19. ASSUME NEW s \in h2.owed PROVE Met(o, s) \/ Held(seg2, s)
  <2>1. CASE s \in h.owed
    <3>1. s.start \in Nat /\ s.end \in Nat /\ s.end < p
      BY <1>15, <2>1 DEF History, Stretch
    <3>2. CASE Held(seg, s)
      <4>1. PICK i \in 1..N, j \in 1..N :
                /\ i <= j /\ \A k \in i..j : seg[k].speech
                /\ V!BlockEnd(seg[j]) = s.end /\ (j < N => ~seg[j + 1].speech)
                /\ s.start <= seg[i].start /\ V!BlockEnd(seg[j]) - seg[i].start >= MinSpeech
        BY <1>7, <3>2 DEF Held, N
      <4>2. j < N /\ j + 1 \in 1..N
        BY <1>7, <3>1, <4>1
      <4>3. i \in 1..N + 1 /\ j \in 1..N + 1 /\ \A k \in i..j : k \in 1..N
        BY <1>5
      <4>4. /\ seg2[i] = seg[i] /\ seg2[j] = seg[j] /\ seg2[j + 1] = seg[j + 1]
            /\ \A k \in i..j : seg2[k].speech
        BY <1>18, <4>1, <4>2, <4>3
      <4> QED
        BY <1>10, <4>1, <4>2, <4>3, <4>4 DEF Held
    <3> QED
      BY <2>1, <3>2 DEF Remembered, seg
  <2>2. CASE s = Now(h) /\ h.from # V!None /\ V!Long(s) /\ (~b.speech \/ h.end < p)
    <3>1. /\ s.start = h.from /\ s.end = p /\ s \in Stretch /\ ~b.speech
      BY <1>1, <1>16, <2>2 DEF Now, Stretch
    <3>2. p - h.from >= MinSpeech
      BY <2>2, <3>1, LongIs
    <3>3. CASE HeldSoFar(seg, h.from)
      <4>1. PICK i \in 1..N : /\ \A k \in i..N : seg[k].speech
                              /\ h.from <= seg[i].start
                              /\ seg[i].start = h.from \/ p - seg[i].start >= MinSpeech
        BY <1>7, <3>3 DEF HeldSoFar, N
      <4>2. i \in 1..N + 1 /\ N \in 1..N + 1 /\ i <= N /\ \A k \in i..N : k \in 1..N
        BY <1>5, <1>7
      <4>3. /\ seg2[i] = seg[i] /\ seg2[N] = seg[N] /\ \A k \in i..N : seg2[k].speech
        BY <1>7, <1>18, <4>1, <4>2
      <4>4. p - seg[i].start >= MinSpeech
        BY <3>2, <4>1
      <4> QED
        BY <1>5, <1>7, <1>10, <3>1, <4>1, <4>2, <4>3, <4>4 DEF Held
    <3> QED
      BY <1>17, <2>2, <3>3
  <2> QED
    BY <1>15, <2>1, <2>2
<1>20. ASSUME h2.from # V!None PROVE Met(o, Now(h2)) \/ HeldSoFar(seg2, h2.from)
  <2>0. b.speech /\ h2.end = p2 /\ h2.from = IF h.from # V!None THEN h.from ELSE p
    BY <1>15, <1>16, <1>20
  <2>1. CASE h.from = V!None
    <3>1. h2.from = p /\ N + 1 \in 1..N + 1 /\ \A k \in N + 1..N + 1 : k = N + 1
      BY <1>5, <2>0, <2>1
    <3>2. \A k \in N + 1..N + 1 : seg2[k].speech
      BY <1>5, <2>0, <3>1
    <3> QED
      BY <1>1, <1>5, <1>10, <3>1, <3>2 DEF HeldSoFar
  <2>2. CASE h.from # V!None /\ Met(o, Now(h))
    <3>1. /\ Now(h).start = h.from /\ Now(h).end = p /\ Now(h2).start = h.from /\ Now(h2).end = p2
          /\ h.from \in Nat
      BY <1>16, <2>0, <2>2 DEF Now
    <3>2. p <= p2
      BY <1>3
    <3> QED
      BY <1>1, <1>3, <2>2, <3>1, <3>2, MetLater
  <2>3. CASE h.from # V!None /\ HeldSoFar(seg, h.from)
    <3>1. PICK i \in 1..N : /\ \A k \in i..N : seg[k].speech
                            /\ h.from <= seg[i].start
                            /\ seg[i].start = h.from \/ p - seg[i].start >= MinSpeech
      BY <1>7, <2>3 DEF HeldSoFar, N
    <3>2. i \in 1..N + 1 /\ \A k \in i..N + 1 : (k \in i..N /\ k \in 1..N) \/ k = N + 1
      BY <1>5
    <3>3. seg2[i] = seg[i] /\ seg2[N + 1] = b /\ \A k \in i..N + 1 : seg2[k].speech
      BY <1>5, <1>18, <2>0, <3>1, <3>2
    <3>4. p - seg[i].start >= MinSpeech => p2 - seg[i].start >= MinSpeech
      <4>1. seg[i].start \in Nat /\ MinSpeech \in Nat
        BY <1>8, Lengths
      <4> QED
        BY <1>3, <4>1
    <3> QED
      BY <1>5, <1>10, <2>0, <2>3, <3>1, <3>2, <3>3, <3>4 DEF HeldSoFar, p2
  <2> QED
    BY <1>17, <2>1, <2>2, <2>3
<1>21. Remembered(h2, v2, p2, o)
  <2>1. h2.from # V!None => h2.end = p2 /\ ~(h2.end < p2)
    BY <1>3, <1>15
  <2> QED
    BY <1>5, <1>9, <1>15, <1>19, <1>20, <2>1 DEF Remembered
<1> QED
  BY <1>4, <1>5, <1>9, <1>10, <1>14, <1>21 DEF v2, h2, p2, seg, seg2, ring2

(* With no segment open: a block is counted, or opens one.                 *)
OnsetOf(v, b) == IF b.speech THEN v.onset + 1 ELSE 0
CountedOf(v, b) == [v EXCEPT !.ring = V!Ring(v.ring, b), !.onset = OnsetOf(v, b)]
OpenedOf(v, b) == [v EXCEPT !.ring = V!Ring(v.ring, b), !.onset = 0,
                            !.seg = V!FromRing(V!Ring(v.ring, b), v.prev), !.last = V!BlockEnd(b)]
IdleOf(v, b) == IF OnsetOf(v, b) < Onset THEN CountedOf(v, b) ELSE OpenedOf(v, b)

LEMMA OnsetGrows ==
  ASSUME NEW m \in Nat, NEW n \in Nat, m < n
  PROVE  /\ m * Block \in Nat /\ n * Block \in Nat /\ (m + 1) * Block = m * Block + Block
         /\ m * Block + Block <= n * Block
<1>1. Block \in Nat /\ Block >= 1
  BY Lengths
<1>2. n - m - 1 \in Nat /\ (n - m - 1) * Block \in Nat /\ (n - m - 1) * Block >= 0
  BY <1>1
<1>3. n * Block = m * Block + Block + (n - m - 1) * Block
  BY <1>1
<1>4. m * Block \in Nat /\ n * Block \in Nat /\ (m + 1) * Block = m * Block + Block
  BY <1>1
<1> QED
  BY <1>1, <1>2, <1>3, <1>4

LEMMA CountsOn ==
  ASSUME NEW p \in Nat, NEW ring, Run(ring, p), Whole(ring), Len(ring) <= Preroll + Onset,
         NEW b \in Blks, b.start = p, b.speech, NEW prev \in Nat, NEW from \in Nat, NEW n \in Nat, n < Onset,
         Counts(ring, n, prev, from, p)
  PROVE  Counts(V!Ring(ring, b), n + 1, prev, from, V!BlockEnd(b))
<1> DEFINE ring2 == V!Ring(ring, b)
           R == Len(ring2)
           L == Len(ring)
           p2 == V!BlockEnd(b)
<1>1. /\ n \in 1..L /\ prev <= from /\ ring[L - n + 1].start = from
      /\ \A k \in (L - n + 1)..L : ring[k].speech
      /\ p - from <= n * Block
  BY DEF Counts
<1>2. n \in 0..L /\ n + 1 <= Preroll + Onset /\ Preroll + Onset \in Nat
  BY <1>1, Lengths
<1>3. Run(ring2, p2) /\ ring2[R] = b
  BY RingIs
<1>4. R \in Nat /\ L \in Nat
  BY <1>3 DEF Run
<1>10. PICK d \in 0..L : /\ R = L + 1 - d /\ (d = 0 \/ R = Preroll + Onset)
                         /\ \A k \in 1..L - d : ring2[k] = ring[k + d]
  BY RingIs
<1>5. p2 \in Nat /\ p2 - p <= Block /\ Block \in Nat
  BY BlkFacts, Lengths
<1> HIDE DEF ring2, R, L, p2
<1>6. n + 1 \in 1..R /\ R - (n + 1) + 1 = R - n /\ R - n \in 1..L - d /\ R - n + d = L - n + 1
  <2>1. n \in 1..L /\ R = L + 1 - d /\ d \in 0..L /\ R \in Nat /\ L \in Nat
    BY <1>1, <1>4, <1>10
  <2>2. d # 0 => n + 1 <= R
    BY <1>2, <1>10
  <2>3. n + 1 \in 1..R
    BY <2>1, <2>2
  <2> QED
    BY <2>1, <2>3
<1>7. ring2[R - n].start = from
  BY <1>1, <1>6, <1>10
<1>8. ASSUME NEW k \in (R - n)..R PROVE ring2[k].speech
  <2>1. CASE k = R
    BY <1>3, <2>1
  <2>2. CASE k # R
    <3>1. R = L + 1 - d /\ d \in 0..L /\ R \in Nat /\ L \in Nat /\ n \in 1..L /\ R - n >= 1
      BY <1>1, <1>4, <1>6, <1>10
    <3>2. k \in 1..L - d /\ k + d \in (L - n + 1)..L
      BY <2>2, <3>1
    <3> QED
      BY <1>1, <1>10, <3>2
  <2> QED
    BY <2>1, <2>2
<1>9. p2 - from <= (n + 1) * Block
  <2>1. n * Block \in Nat /\ (n + 1) * Block = n * Block + Block
    BY OnsetGrows, Lengths
  <2> QED
    BY <1>1, <1>5, <2>1
<1> QED
  BY <1>1, <1>6, <1>7, <1>8, <1>9 DEF Counts, R, ring2, p2

(* With no segment open a block is counted, or opens one with the ring.    *)
LEMMA IdleKeeps ==
  ASSUME NEW p \in Nat, NEW v, DetectorOK(v, p, MaxSegment), Whole(v.ring), v.seg = <<>>,
         NEW o, ReturnsOK(o, v.prev), NEW h \in Hist, Remembered(h, v, p, o), NEW b \in Blks, b.start = p
  PROVE  /\ DetectorOK(IdleOf(v, b), V!BlockEnd(b), MaxSegment)
         /\ b.len = Block => Whole(IdleOf(v, b).ring) /\ Whole(IdleOf(v, b).seg)
         /\ Remembered(V!Hears(h, b), IdleOf(v, b), V!BlockEnd(b), o)
         /\ IdleOf(v, b).prev = v.prev /\ IdleOf(v, b).carry = v.carry /\ IdleOf(v, b).at = v.at
<1> DEFINE p2 == V!BlockEnd(b)
           ring2 == V!Ring(v.ring, b)
           R == Len(ring2)
           on2 == OnsetOf(v, b)
           h2 == V!Hears(h, b)
           v2 == IdleOf(v, b)
<1>1. /\ v \in Detector /\ Run(v.ring, p) /\ Len(v.ring) <= Preroll + Onset
      /\ v.onset < Onset /\ v.last <= p /\ v.prev <= p
      /\ v.onset \in Nat /\ v.last \in Nat /\ v.prev \in Nat
  BY DEF DetectorOK, Detector
<1>2. /\ p2 \in Nat /\ p < p2 /\ p2 - p <= Block /\ b.speech \in BOOLEAN
  <2>1. b.len \in Nat /\ 1 <= b.len /\ b.len <= Block /\ p2 \in Nat /\ p2 = p + b.len /\ b.speech \in BOOLEAN
    BY BlkFacts
  <2> HIDE DEF p2
  <2> QED
    BY <2>1
<1>3. /\ Run(ring2, p2) /\ ring2 # <<>> /\ R <= Preroll + Onset /\ ring2[R] = b
      /\ (b.len = Block => Whole(ring2))
  BY <1>1, RingIs
<1>4. R \in Nat /\ R >= 1 /\ DOMAIN ring2 = 1..R /\ ring2 \in Seq(Blks)
  BY <1>3 DEF Run
<1>5. on2 = IF b.speech THEN v.onset + 1 ELSE 0
  BY DEF OnsetOf
<1>6. on2 \in Nat
  BY <1>1, <1>2, <1>5
<1>7. /\ h2 \in Hist /\ History(h2, p2) /\ History(h, p)
      /\ b.speech => /\ h2.end = p2 /\ h2.from # V!None
                     /\ h2.from = IF h.from # V!None /\ h.end = p THEN h.from ELSE p
      /\ ~b.speech => h2.from = V!None
      /\ \A s \in h2.owed :
             s \in h.owed \/ (s = Now(h) /\ h.from # V!None /\ V!Long(s) /\ (~b.speech \/ h.end < p))
  <2>1. History(h, p)
    BY DEF Remembered
  <2>2. h2 \in Hist /\ History(h2, p2) /\ (~b.speech => h2.from = V!None)
    BY <2>1, HearsIs
  <2>3. b.speech => /\ h2.end = p2 /\ h2.from # V!None
                    /\ h2.from = IF h.from # V!None /\ h.end = p THEN h.from ELSE p
    BY <2>1, HearsIs
  <2>4. \A s \in h2.owed :
            s \in h.owed \/ (s = Now(h) /\ h.from # V!None /\ V!Long(s) /\ (~b.speech \/ h.end < p))
    BY <2>1, HearsIs
  <2> QED
    BY <2>1, <2>2, <2>3, <2>4
<1>8. h.from # V!None => /\ h.end \in Nat /\ h.from \in Nat /\ h.from < h.end /\ h.end <= p
                         /\ Now(h) \in Stretch /\ Now(h).start = h.from /\ Now(h).end = h.end
  BY <1>7 DEF History, Now, Stretch
<1>9. /\ h.from = V!None \/ h.end < p => v.onset = 0
      /\ h.from # V!None => \/ Met(o, Now(h)) \/ (h.end = p /\ Counts(v.ring, v.onset, v.prev, h.from, p))
                            \/ (h.end < p /\ ~V!Long(Now(h)))
      /\ \A s \in h.owed : Met(o, s)
  BY DEF Remembered, Counted
<1> HIDE DEF p2, ring2, R, on2, h2, v2
<1>10. ASSUME b.speech PROVE Met(o, Now(h2)) \/ Counts(ring2, on2, v.prev, h2.from, p2)
  <2>1. CASE h.from = V!None \/ h.end < p
    <3>1. h2.from = p /\ on2 = 1
      <4>1. ~(h.from # V!None /\ h.end = p)
        BY <1>8, <2>1
      <4> QED
        BY <1>5, <1>7, <1>9, <1>10, <2>1, <4>1
    <3>2. 1 \in 1..R /\ R - 1 + 1 = R /\ \A k \in R..R : k = R
      BY <1>4
    <3>3. 1 * Block = Block
      BY Lengths
    <3>4. p2 - p <= 1 * Block
      BY <1>2, <3>3
    <3>5. \A k \in R..R : ring2[k].speech
      BY <1>3, <1>10, <3>2
    <3> QED
      BY <1>1, <1>3, <3>1, <3>2, <3>4, <3>5 DEF Counts, R
  <2>2. CASE h.from # V!None /\ h.end = p
    <3>1. h2.from = h.from /\ h2.end = p2 /\ on2 = v.onset + 1 /\ ~(h.end < p)
      BY <1>5, <1>7, <1>8, <1>10, <2>2
    <3>2. CASE Met(o, Now(h))
      <4>1. /\ Now(h).start \in Nat /\ Now(h).end \in Nat /\ Now(h2).start = Now(h).start
            /\ Now(h2).end = p2 /\ Now(h).end <= p2
        BY <1>2, <1>8, <2>2, <3>1 DEF Now
      <4> QED
        BY <1>2, <3>2, <4>1, MetLater
    <3>3. CASE Counts(v.ring, v.onset, v.prev, h.from, p)
      <4>1. h.from \in Nat
        BY <1>8, <2>2
      <4>2. Counts(V!Ring(v.ring, b), v.onset + 1, v.prev, h.from, V!BlockEnd(b))
        BY <1>1, <1>10, <3>3, <4>1, CountsOn
      <4> QED
        BY <3>1, <4>2 DEF ring2, p2
    <3> QED
      BY <1>9, <2>2, <3>1, <3>2, <3>3
  <2> QED
    BY <1>8, <2>1, <2>2
<1>11. ASSUME NEW s \in h2.owed PROVE Met(o, s)
  <2>1. CASE s \in h.owed
    BY <1>9, <2>1
  <2>2. CASE s = Now(h) /\ h.from # V!None /\ V!Long(s) /\ (~b.speech \/ h.end < p)
    <3> SUFFICES ASSUME h.end = p, Counts(v.ring, v.onset, v.prev, h.from, p) PROVE FALSE
      BY <1>9, <2>2
    <3>1. p - h.from >= Onset * Block
      BY <1>8, <2>2, LongIs
    <3>2. p - h.from <= v.onset * Block
      BY DEF Counts
    <3>3. /\ v.onset * Block \in Nat /\ Onset * Block \in Nat /\ v.onset * Block + Block <= Onset * Block
          /\ Block >= 1 /\ Block \in Nat
      <4>1. v.onset \in Nat /\ Onset \in Nat /\ v.onset < Onset
        BY <1>1, Lengths
      <4>2. v.onset * Block + Block <= Onset * Block /\ v.onset * Block \in Nat /\ Onset * Block \in Nat
        BY <4>1, OnsetGrows
      <4> QED
        BY <4>2, BlockSize
    <3>4. h.from \in Nat
      BY <1>8, <2>2
    <3> DEFINE x == v.onset * Block
               y == Onset * Block
    <3> HIDE DEF x, y
    <3>5. x \in Nat /\ y \in Nat /\ x + Block <= y /\ p - h.from >= y /\ p - h.from <= x
      BY <3>1, <3>2, <3>3 DEF x, y
    <3> QED
      BY <3>3, <3>4, <3>5
  <2> QED
    BY <1>7, <2>1, <2>2
<1>12. CASE on2 < Onset
  <2>1. v2 = [v EXCEPT !.ring = ring2, !.onset = on2]
    BY <1>12 DEF v2, IdleOf, CountedOf, ring2, on2
  <2>2. /\ v2 \in Detector /\ v2.ring = ring2 /\ v2.onset = on2 /\ v2.seg = <<>> /\ v2.last = v.last
        /\ v2.prev = v.prev /\ v2.carry = v.carry /\ v2.at = v.at
    BY <1>1, <1>4, <1>6, <2>1 DEF Detector
  <2>3. v2.seg \in Seq(Blks) /\ DOMAIN v2.seg = {} /\ 2..Len(v2.seg) = {}
    BY <2>2
  <2>4. Run(v2.seg, p2) /\ Whole(v2.seg)
    BY <2>2, <2>3 DEF Run, V!Gapless, Whole
  <2>5. DetectorOK(v2, p2, MaxSegment)
    BY <1>1, <1>2, <1>3, <1>12, <2>2, <2>4 DEF DetectorOK, R
  <2>6. Remembered(h2, v2, p2, o)
    <3>1. h2.from = V!None \/ h2.end < p2 => v2.onset = 0
      BY <1>2, <1>5, <1>7, <2>2
    <3>2. h2.from # V!None => Met(o, Now(h2)) \/ (h2.end = p2 /\ Counted(v2, h2.from, p2))
      BY <1>7, <1>10, <2>2 DEF Counted
    <3> QED
      BY <1>7, <1>11, <2>2, <3>1, <3>2 DEF Remembered
  <2> QED
    BY <1>3, <2>2, <2>4, <2>5, <2>6 DEF v2, p2, h2
<1>13. CASE ~(on2 < Onset)
  <2>0. b.speech
    BY <1>5, <1>13, Lengths
  <2> DEFINE seg2 == V!FromRing(ring2, v.prev)
  <2>1. PICK m \in 1..R + 1 : /\ seg2 = SubSeq(ring2, m, R)
                              /\ \A k \in 1..R : k >= m <=> ring2[k].start >= v.prev
    BY <1>1, <1>2, <1>3, FromRingIs DEF R
  <2>2. m \in 1..R /\ m <= R + 1 /\ R \in 0..R
    BY <1>1, <1>3, <1>4, <2>1
  <2>3. /\ Run(seg2, p2) /\ seg2 \in Seq(Blks) /\ Len(seg2) = R - m + 1
        /\ \A k \in m..R : k - m + 1 \in 1..(R - m + 1) /\ seg2[k - m + 1] = ring2[k]
        /\ \A k \in 1..(R - m + 1) : seg2[k] = ring2[k + m - 1]
    <3>1. Len(ring2) = R
      BY DEF R
    <3>2. m \in 1..Len(ring2) + 1 /\ Len(ring2) \in 0..Len(ring2) /\ m <= Len(ring2) + 1
      BY <2>2, <3>1
    <3>3. /\ Run(SubSeq(ring2, m, Len(ring2)), p2) /\ SubSeq(ring2, m, Len(ring2)) \in Seq(Blks)
          /\ Len(SubSeq(ring2, m, Len(ring2))) = Len(ring2) - m + 1
          /\ \A k \in m..Len(ring2) : /\ k - m + 1 \in 1..(Len(ring2) - m + 1)
                                      /\ SubSeq(ring2, m, Len(ring2))[k - m + 1] = ring2[k]
          /\ \A k \in 1..(Len(ring2) - m + 1) : SubSeq(ring2, m, Len(ring2))[k] = ring2[k + m - 1]
      BY <1>3, <3>2, PartOfRun
    <3> HIDE DEF seg2
    <3> QED
      BY <2>1, <3>1, <3>3
  <2> HIDE DEF seg2
  <2>4. v2 = [v EXCEPT !.ring = ring2, !.onset = 0, !.seg = seg2, !.last = p2]
    BY <1>13 DEF v2, IdleOf, OpenedOf, ring2, on2, seg2, p2
  <2>5. /\ v2 \in Detector /\ v2.ring = ring2 /\ v2.onset = 0 /\ v2.seg = seg2 /\ v2.last = p2
        /\ v2.prev = v.prev /\ v2.carry = v.carry /\ v2.at = v.at
    BY <1>1, <1>2, <1>4, <2>3, <2>4 DEF Detector
  <2>6. DOMAIN seg2 = 1..(R - m + 1) /\ R - m + 1 >= 1 /\ seg2 # <<>> /\ 1 \in DOMAIN seg2
    BY <1>4, <2>2, <2>3
  <2>7. b.len = Block => Whole(seg2)
    <3> SUFFICES ASSUME b.len = Block, NEW k \in 1..(R - m + 1) PROVE seg2[k].len = Block
      BY <2>6 DEF Whole
    <3>1. k + m - 1 \in 1..R
      BY <1>4, <2>2
    <3> QED
      BY <1>3, <1>4, <2>3, <3>1 DEF Whole
  <2>8. /\ seg2[1].start \in Nat /\ seg2[1].start <= p2
        /\ \A k \in DOMAIN seg2 : V!BlockEnd(seg2[k]) <= p2
    <3>1. \A k \in DOMAIN seg2 : /\ seg2[k].start \in Nat /\ V!BlockEnd(seg2[k]) \in Nat
                                 /\ seg2[k].start < V!BlockEnd(seg2[k]) /\ V!BlockEnd(seg2[k]) <= p2
      BY <2>3, RunSpan
    <3>2. seg2[1].start \in Nat /\ V!BlockEnd(seg2[1]) \in Nat /\ seg2[1].start < V!BlockEnd(seg2[1]) /\ V!BlockEnd(seg2[1]) <= p2
      BY <2>6, <3>1
    <3> QED
      BY <1>2, <3>1, <3>2
  <2>9. v.prev <= seg2[1].start
    <3>1. m \in m..R /\ m - m + 1 = 1 /\ m \in 1..R /\ m >= m
      BY <1>4, <2>2
    <3>2. seg2[1] = ring2[m] /\ ring2[m].start >= v.prev
      BY <2>1, <2>3, <3>1
    <3> QED
      BY <1>1, <2>8, <3>2
  <2>10. p2 - seg2[1].start <= MaxSegment
    <3>1. p2 - seg2[1].start <= Len(seg2) * Block
      BY <1>2, <2>3, <2>6, RunLength
    <3>2. Len(seg2) \in Nat /\ Len(seg2) <= Preroll + Onset
      BY <1>3, <1>4, <2>2, <2>3, Lengths
    <3>3. Len(seg2) * Block <= (Preroll + Onset) * Block /\ Len(seg2) * Block \in Nat
      <4>1. Len(seg2) = Preroll + Onset \/ Len(seg2) < Preroll + Onset
        BY <3>2, Lengths
      <4>2. Preroll + Onset \in Nat /\ (Preroll + Onset) * Block \in Nat /\ Block \in Nat
        BY Lengths
      <4> DEFINE len == Len(seg2)
                 most == Preroll + Onset
      <4>3. len \in Nat /\ most \in Nat /\ (len = most \/ len < most)
        BY <3>2, <4>1, <4>2
      <4> HIDE DEF len, most
      <4>4. CASE len < most
        <5>1. len * Block \in Nat /\ most * Block \in Nat /\ len * Block + Block <= most * Block
          BY <4>3, <4>4, OnsetGrows
        <5>2. len * Block <= most * Block
          BY <4>2, <5>1
        <5> QED
          BY <5>1, <5>2 DEF len, most
      <4>5. CASE len = most
        BY <4>2, <4>5 DEF len, most
      <4> QED
        BY <4>3, <4>4, <4>5
    <3>4. (Preroll + Onset) * Block <= MaxSegment /\ (Preroll + Onset) * Block \in Nat /\ MaxSegment \in Nat
      BY Lengths
    <3> DEFINE x == Len(seg2) * Block
               y == (Preroll + Onset) * Block
    <3>5. p2 - seg2[1].start <= x /\ x <= y /\ y <= MaxSegment /\ x \in Nat /\ y \in Nat /\ MaxSegment \in Nat
      BY <3>1, <3>3, <3>4
    <3> HIDE DEF x, y
    <3> QED
      BY <1>2, <2>8, <3>5
  <2>11. DetectorOK(v2, p2, MaxSegment)
    <3>1. v2.onset < Onset /\ v2.last <= p2 /\ v2.prev <= p2
      <4>1. 0 < Onset /\ v.prev <= p /\ p <= p2 /\ v.prev \in Nat /\ p2 \in Nat
        BY <1>1, <1>2, Lengths
      <4> QED
        BY <2>5, <4>1
    <3>2. /\ v2.prev <= v2.seg[1].start /\ v2.seg[1].start <= v2.last
          /\ p2 - v2.seg[1].start <= MaxSegment
      BY <2>5, <2>8, <2>9, <2>10
    <3>3. \A k \in DOMAIN v2.seg : v2.seg[k].speech => V!BlockEnd(v2.seg[k]) <= v2.last
      BY <2>5, <2>8
    <3> QED
      BY <1>2, <1>3, <2>3, <2>5, <3>1, <3>2, <3>3 DEF DetectorOK, R
  <2>12. Met(o, Now(h2)) \/ HeldSoFar(seg2, h2.from)
    <3> SUFFICES ASSUME Counts(ring2, on2, v.prev, h2.from, p2) PROVE HeldSoFar(seg2, h2.from)
      BY <1>10, <2>0
    <3>1. /\ on2 \in 1..R /\ v.prev <= h2.from /\ ring2[R - on2 + 1].start = h2.from
          /\ \A k \in (R - on2 + 1)..R : ring2[k].speech
      BY DEF Counts, R
    <3>2. PICK z \in 1..R : z = R - on2 + 1
      BY <1>4, <3>1
    <3>3. ring2[z].start = h2.from /\ \A k \in z..R : ring2[k].speech
      BY <3>1, <3>2
    <3>4. h2.from \in Nat
      BY <1>7, <2>0 DEF History
    <3>5. z >= m /\ z \in m..R
      BY <1>1, <1>4, <2>1, <2>2, <3>1, <3>3, <3>4
    <3>6. PICK i \in 1..(R - m + 1) : i = z - m + 1 /\ seg2[i] = ring2[z]
      BY <2>3, <3>5
    <3>7. ASSUME NEW k \in i..(R - m + 1) PROVE seg2[k].speech
      <4>1. k \in 1..(R - m + 1) /\ k + m - 1 \in z..R
        BY <1>4, <2>2, <3>6
      <4> QED
        BY <2>3, <3>3, <4>1
    <3>8. i \in DOMAIN seg2 /\ Len(seg2) = R - m + 1 /\ seg2[i].start = h2.from /\ h2.from <= h2.from
      BY <2>3, <2>6, <3>3, <3>4, <3>6
    <3>9. \A k \in i..Len(seg2) : seg2[k].speech
      BY <3>7, <3>8
    <3> QED
      BY <3>8, <3>9 DEF HeldSoFar
  <2>13. Remembered(h2, v2, p2, o)
    <3>1. ~(h2.end < p2) /\ h2.end = p2
      BY <1>2, <1>7, <2>0
    <3> QED
      BY <1>7, <1>11, <2>5, <2>6, <2>12, <3>1 DEF Remembered
  <2> QED
    BY <1>3, <2>5, <2>7, <2>11, <2>13 DEF v2, p2, h2
<1> QED
  BY <1>12, <1>13

(* _close, whole.                                                          *)
CloseOf(v, at) == [v EXCEPT !.seg = <<>>, !.prev = V!ClosedEnd(v, at)]
CloseOut(o, v, at) == IF V!Enough(v.seg) /\ V!ClosedEnd(v, at) > v.seg[1].start
                      THEN Append(o, V!Segment(v.seg, V!ClosedEnd(v, at))) ELSE o

LEMMA ClosedIs ==
  ASSUME NEW p \in Nat, NEW v, DetectorOK(v, p, MaxSegment + Block), v.seg # <<>>,
         NEW o, ReturnsOK(o, v.prev), NEW h, Remembered(h, v, p, o)
  PROVE  /\ DetectorOK(CloseOf(v, p), p, MaxSegment)
         /\ CloseOf(v, p).seg = <<>> /\ CloseOf(v, p).onset = 0
         /\ CloseOf(v, p).ring = v.ring /\ CloseOf(v, p).carry = v.carry /\ CloseOf(v, p).at = v.at
         /\ ReturnsOK(CloseOut(o, v, p), CloseOf(v, p).prev) /\ AllMet(h, p, CloseOut(o, v, p))
<1> DEFINE end == V!ClosedEnd(v, p)
           o2 == CloseOut(o, v, p)
           v2 == CloseOf(v, p)
<1>1. o2 = IF V!Enough(v.seg) /\ end > v.seg[1].start THEN Append(o, V!Segment(v.seg, end)) ELSE o
  BY DEF CloseOut
<1>2. v2 = [v EXCEPT !.seg = <<>>, !.prev = end]
  BY DEF CloseOf
<1> HIDE DEF o2, v2
<1>3. end \in Nat /\ end <= p /\ v.prev <= end /\ ReturnsOK(o2, end) /\ AllMet(h, p, o2)
  BY <1>1, CloseKeeps
<1> HIDE DEF end
<1>4. v \in Detector /\ v.onset = 0 /\ Run(v.ring, p) /\ Len(v.ring) <= Preroll + Onset /\ v.last <= p
  BY DEF DetectorOK
<1>5. /\ v2 \in Detector /\ v2.ring = v.ring /\ v2.onset = 0 /\ v2.seg = <<>> /\ v2.last = v.last
      /\ v2.prev = end /\ v2.carry = v.carry /\ v2.at = v.at
  <2>1. <<>> \in Seq(Blks)
    OBVIOUS
  <2>2. v2 \in Detector
    BY <1>2, <1>3, <1>4, <2>1 DEF Detector
  <2>3. DOMAIN v = {"ring", "onset", "seg", "last", "prev", "carry", "at"}
    BY <1>4 DEF Detector
  <2>4. /\ v2.ring = v.ring /\ v2.onset = v.onset /\ v2.seg = <<>> /\ v2.last = v.last
        /\ v2.prev = end /\ v2.carry = v.carry /\ v2.at = v.at
    BY <1>2, <1>4, <2>3 DEF Detector
  <2> QED
    BY <1>4, <2>2, <2>4
<1>6. v2.seg \in Seq(Blks) /\ DOMAIN v2.seg = {} /\ 2..Len(v2.seg) = {}
  BY <1>5
<1>7. Run(v2.seg, p)
  BY <1>5, <1>6 DEF Run, V!Gapless
<1>8. DetectorOK(v2, p, MaxSegment)
  BY <1>3, <1>4, <1>5, <1>7, Lengths DEF DetectorOK
<1> QED
  BY <1>3, <1>5, <1>8 DEF v2, o2

LEMMA OutAfter ==
  ASSUME NEW base \in Seq(Piece), NEW ou \in Seq(Piece), NEW x, Append(base \o ou, x) \in Seq(Piece)
  PROVE  base \o Append(ou, x) = Append(base \o ou, x) /\ Append(ou, x) \in Seq(Piece)
<1>1. base \o ou \in Seq(Piece) /\ Len(base \o ou) \in Nat
  OBVIOUS
<1>2. x \in Piece
  <2>1. Append(base \o ou, x)[Len(base \o ou) + 1] = x
    BY <1>1
  <2>2. Len(base \o ou) + 1 \in DOMAIN Append(base \o ou, x)
    BY <1>1
  <2> QED
    BY <2>1, <2>2
<1> QED
  BY <1>2

----------------------------------------------------------------------------
(* What feed, _gap and flush work on, with what was returned before them.  *)
Jobs == [v : Detector, out : Seq(Piece), h : Hist]
JobOK(base, w, p, room) ==
    /\ w \in Jobs
    /\ DetectorOK(w.v, p, room)
    /\ ReturnsOK(base \o w.out, w.v.prev)
    /\ Remembered(w.h, w.v, p, base \o w.out)
Wholes(w) == Whole(w.v.ring) /\ Whole(w.v.seg)

(* _process.                                                               *)
LEMMA ProcessKeeps ==
  ASSUME NEW base \in Seq(Piece), NEW p \in Nat, NEW w, JobOK(base, w, p, MaxSegment), Wholes(w),
         NEW b \in Blks, b.start = p
  PROVE  /\ JobOK(base, V!Process(w, b), V!BlockEnd(b), MaxSegment)
         /\ b.len = Block => Wholes(V!Process(w, b))
         /\ V!Process(w, b).v.carry = w.v.carry /\ V!Process(w, b).v.at = w.v.at
<1> DEFINE v == w.v
           o == base \o w.out
           p2 == V!BlockEnd(b)
           h2 == V!Hears(w.h, b)
           w2 == V!Process(w, b)
<1>1. /\ w \in Jobs /\ DetectorOK(v, p, MaxSegment) /\ ReturnsOK(o, v.prev) /\ Remembered(w.h, v, p, o)
      /\ Whole(v.ring) /\ Whole(v.seg) /\ w.h \in Hist /\ w.out \in Seq(Piece) /\ v \in Detector
  BY DEF JobOK, Wholes, Jobs
<1>2. h2 \in Hist
  <2>1. History(w.h, p)
    BY <1>1 DEF Remembered
  <2> QED
    BY <1>1, <2>1, HearsIs
<1>3. p2 \in Nat
  BY BlkFacts
<1> HIDE DEF o, v, p2, h2, w2
<1>4. ASSUME NEW v2, NEW out2, w2 = [w EXCEPT !.v = v2, !.out = out2, !.h = h2],
             DetectorOK(v2, p2, MaxSegment), ReturnsOK(base \o out2, v2.prev), out2 \in Seq(Piece),
             Remembered(h2, v2, p2, base \o out2), b.len = Block => Whole(v2.ring) /\ Whole(v2.seg),
             v2.carry = v.carry, v2.at = v.at
      PROVE  /\ JobOK(base, w2, p2, MaxSegment) /\ (b.len = Block => Wholes(w2))
             /\ w2.v.carry = v.carry /\ w2.v.at = v.at
  <2>1. v2 \in Detector
    BY <1>4 DEF DetectorOK
  <2>2. w2 \in Jobs /\ w2.v = v2 /\ w2.out = out2 /\ w2.h = h2
    BY <1>1, <1>2, <1>4, <2>1 DEF Jobs
  <2> QED
    BY <1>4, <2>2 DEF JobOK, Wholes
<1>5. CASE v.seg = <<>>
  <2> DEFINE v2 == IdleOf(v, b)
  <2>1. /\ DetectorOK(v2, p2, MaxSegment) /\ (b.len = Block => Whole(v2.ring) /\ Whole(v2.seg))
        /\ Remembered(h2, v2, p2, o) /\ v2.prev = v.prev /\ v2.carry = v.carry /\ v2.at = v.at
    BY <1>1, <1>5, IdleKeeps DEF p2, h2
  <2>2. V!Gather(w, b) = [w EXCEPT !.v = v2]
    BY <1>5 DEF V!Gather, IdleOf, OnsetOf, CountedOf, OpenedOf, v
  <2>3. w2 = [w EXCEPT !.v = v2, !.out = w.out, !.h = h2]
    <3> HIDE DEF v2
    <3> QED
      BY <1>1, <2>2 DEF V!Process, w2, h2, Jobs
  <2> HIDE DEF v2
  <2> QED
    BY <1>1, <1>4, <2>1, <2>3 DEF o, v, w2, p2
<1>6. CASE v.seg # <<>>
  <2> DEFINE k == KeptOf(v, b)
             kept == [w EXCEPT !.v = k]
             still == p2 - k.last
             closes == still >= Silence /\ (k.last - k.seg[1].start >= MinSegment \/ still >= ShortFlush)
             splits == p2 - k.seg[1].start >= MaxSegment
  <2>1. /\ DetectorOK(k, p2, MaxSegment + Block)
        /\ b.len = Block => Whole(k.ring) /\ Whole(k.seg)
        /\ Remembered(h2, k, p2, o)
        /\ k.prev = v.prev /\ k.carry = v.carry /\ k.at = v.at
        /\ 2 \in DOMAIN k.seg
    BY <1>1, <1>6, OpenKeeps DEF p2, h2
  <2>2. kept = [w EXCEPT !.v = [v EXCEPT !.ring = V!Ring(v.ring, b), !.seg = Append(v.seg, b),
                                         !.last = IF b.speech THEN V!BlockEnd(b) ELSE v.last]]
    BY DEF KeptOf
  <2>3. /\ k.seg = Append(v.seg, b) /\ k.last = IF b.speech THEN p2 ELSE v.last
    BY <1>1 DEF KeptOf, Detector, p2
  <2>4. V!Gather(w, b) = IF closes THEN V!Close(kept, p2) ELSE IF splits THEN V!Split(kept) ELSE kept
    BY <1>6, <2>2, <2>3 DEF V!Gather, v, p2
  <2>5. kept \in Jobs /\ kept.v = k /\ kept.out = w.out /\ kept.h = w.h
    BY <1>1, <2>1 DEF Jobs, DetectorOK
  <2>6. ReturnsOK(o, k.prev)
    BY <1>1, <2>1
  <2>7. k \in Detector /\ k.seg # <<>> /\ k.last \in Nat /\ k.seg[1].start \in Nat
    <3>1. k \in Detector /\ Run(k.seg, p2)
      BY <2>1 DEF DetectorOK
    <3>2. k.seg # <<>> /\ k.last \in Nat
      BY <2>1, <3>1 DEF Detector
    <3> QED
      BY <2>1, <3>1, <3>2, RunSpan
  <2> HIDE DEF k, kept, closes, splits
  <2>8. CASE closes
    <3> DEFINE v2 == CloseOf(k, p2)
               out2 == CloseOut(w.out, k, p2)
    <3>1. /\ DetectorOK(v2, p2, MaxSegment) /\ v2.seg = <<>> /\ v2.onset = 0 /\ v2.ring = k.ring
          /\ v2.carry = k.carry /\ v2.at = k.at
          /\ ReturnsOK(CloseOut(o, k, p2), v2.prev) /\ AllMet(h2, p2, CloseOut(o, k, p2))
      BY <1>3, <2>1, <2>6, <2>7, ClosedIs
    <3>2. base \o out2 = CloseOut(o, k, p2) /\ out2 \in Seq(Piece)
      <4>1. CloseOut(o, k, p2) \in Seq(Piece)
        BY <3>1 DEF ReturnsOK
      <4> QED
        BY <1>1, <4>1, OutAfter DEF CloseOut, o
    <3>3. V!Close(kept, p2) = [kept EXCEPT !.v = v2, !.out = out2]
      BY <2>5 DEF V!Close, CloseOf, CloseOut
    <3>4. w2 = [w EXCEPT !.v = v2, !.out = out2, !.h = h2]
      <4>1. w2 = [V!Close(kept, p2) EXCEPT !.h = h2]
        BY <2>4, <2>8 DEF V!Process, w2, h2
      <4>2. kept = [w EXCEPT !.v = k]
        BY DEF kept
      <4> HIDE DEF v2, out2
      <4> QED
        BY <1>1, <3>3, <4>1, <4>2 DEF Jobs
    <3>5. ~b.speech
      <4>1. Silence >= 1 /\ Silence \in Nat
        BY Lengths
      <4>2. p2 - k.last >= Silence
        BY <2>8 DEF closes
      <4> QED
        BY <1>3, <2>3, <2>7, <4>1, <4>2
    <3>6. h2.from = V!None
      <4>1. History(w.h, p)
        BY <1>1 DEF Remembered
      <4> QED
        BY <1>1, <3>5, <4>1, HearsIs DEF h2
    <3>7. Remembered(h2, v2, p2, CloseOut(o, k, p2))
      BY <3>1, <3>6 DEF Remembered, AllMet
    <3>8. b.len = Block => Whole(v2.ring) /\ Whole(v2.seg)
      BY <2>1, <3>1 DEF Whole
    <3> HIDE DEF v2, out2
    <3> QED
      BY <1>4, <2>1, <3>1, <3>2, <3>4, <3>7, <3>8 DEF v, w2, p2
  <2>9. CASE ~closes /\ splits
    <3> DEFINE v2 == SplitOf(k)
               out2 == SplitOut(w.out, k)
    <3>1. p2 - k.seg[1].start >= MaxSegment
      BY <2>9 DEF splits
    <3>2. /\ DetectorOK(v2, p2, MaxSegment) /\ (Whole(k.seg) => Whole(v2.seg))
          /\ ReturnsOK(SplitOut(o, k), v2.prev) /\ Remembered(h2, v2, p2, SplitOut(o, k))
          /\ v2.ring = k.ring /\ v2.carry = k.carry /\ v2.at = k.at
      BY <1>3, <2>1, <2>6, <3>1, SplitKeeps
    <3>3. base \o out2 = SplitOut(o, k) /\ out2 \in Seq(Piece)
      <4>1. SplitOut(o, k) \in Seq(Piece)
        BY <3>2 DEF ReturnsOK
      <4> QED
        BY <1>1, <4>1, OutAfter DEF SplitOut, o
    <3>4. V!Split(kept) = [kept EXCEPT !.v = v2, !.out = out2]
      BY <2>5 DEF V!Split, SplitOf, SplitOut, RestOf, EndsOf
    <3>5. w2 = [w EXCEPT !.v = v2, !.out = out2, !.h = h2]
      <4>1. w2 = [V!Split(kept) EXCEPT !.h = h2]
        BY <2>4, <2>9 DEF V!Process, w2, h2
      <4>2. kept = [w EXCEPT !.v = k]
        BY DEF kept
      <4> HIDE DEF v2, out2
      <4> QED
        BY <1>1, <3>4, <4>1, <4>2 DEF Jobs
    <3> HIDE DEF v2, out2
    <3> QED
      BY <1>4, <2>1, <3>2, <3>3, <3>5 DEF v, w2, p2
  <2>10. CASE ~closes /\ ~splits
    <3>1. DetectorOK(k, p2, MaxSegment)
      <4>1. p2 - k.seg[1].start <= MaxSegment
        <5>1. ~(p2 - k.seg[1].start >= MaxSegment)
          BY <2>10 DEF splits
        <5>2. p2 \in Nat /\ k.seg[1].start \in Nat /\ MaxSegment \in Nat
          BY <1>3, <2>7, Lengths
        <5> QED
          BY <5>1, <5>2
      <4> QED
        BY <2>1, <4>1 DEF DetectorOK
    <3>2. w2 = [w EXCEPT !.v = k, !.out = w.out, !.h = h2]
      <4>1. w2 = [kept EXCEPT !.h = h2]
        BY <2>4, <2>10 DEF V!Process, w2, h2
      <4>2. kept = [w EXCEPT !.v = k]
        BY DEF kept
      <4> QED
        BY <1>1, <4>1, <4>2 DEF Jobs
    <3> QED
      BY <1>1, <1>4, <2>1, <2>6, <3>1, <3>2 DEF o, v, w2, p2
  <2> QED
    BY <2>8, <2>9, <2>10
<1> QED
  BY <1>5, <1>6 DEF w2, p2, v

----------------------------------------------------------------------------
(* feed.  Between the calls the detector is where its blocks end.          *)
Rest(base, w) == JobOK(base, w, w.v.at, MaxSegment) /\ Wholes(w)

LEMMA Division ==
  ASSUME NEW n \in Nat
  PROVE  /\ n \div Block \in Nat /\ n % Block \in 0..Block - 1
         /\ (n \div Block) * Block \in Nat /\ (n \div Block) * Block + (n % Block) = n
<1>1. Block \in Nat \ {0}
  BY Lengths
<1>2. n \div Block \in Nat /\ n % Block \in 0..Block - 1
  BY <1>1
<1>3. Block * (n \div Block) + (n % Block) = n
  BY <1>1
<1>4. (n \div Block) * Block = Block * (n \div Block) /\ (n \div Block) * Block \in Nat
  BY <1>1, <1>2
<1> QED
  BY <1>2, <1>3, <1>4

MovedTo(w, c, at) == [w EXCEPT !.v = [w.v EXCEPT !.carry = c, !.at = at]]

LEMMA MoveKeeps ==
  ASSUME NEW base, NEW w, NEW p, JobOK(base, w, p, MaxSegment), NEW c \in 0..Block - 1, NEW at \in Nat
  PROVE  /\ JobOK(base, MovedTo(w, c, at), p, MaxSegment) /\ (Wholes(w) => Wholes(MovedTo(w, c, at)))
         /\ MovedTo(w, c, at).v.carry = c /\ MovedTo(w, c, at).v.at = at
         /\ MovedTo(w, c, at).v.seg = w.v.seg
         /\ MovedTo(w, c, at).h = w.h /\ MovedTo(w, c, at).out = w.out
<1> DEFINE v2 == [w.v EXCEPT !.carry = c, !.at = at]
           w2 == MovedTo(w, c, at)
<1>1. w \in Jobs /\ w.v \in Detector /\ DetectorOK(w.v, p, MaxSegment)
  BY DEF JobOK, Jobs
<1>2. /\ v2 \in Detector /\ v2.ring = w.v.ring /\ v2.onset = w.v.onset /\ v2.seg = w.v.seg
      /\ v2.last = w.v.last /\ v2.prev = w.v.prev /\ v2.carry = c /\ v2.at = at
  BY <1>1 DEF Detector
<1> HIDE DEF v2
<1>3. w2 \in Jobs /\ w2.v = v2 /\ w2.out = w.out /\ w2.h = w.h
  BY <1>1, <1>2 DEF Jobs, MovedTo, v2
<1> HIDE DEF w2
<1>4. DetectorOK(v2, p, MaxSegment)
  BY <1>1, <1>2 DEF DetectorOK
<1>5. Remembered(w.h, v2, p, base \o w.out) /\ ReturnsOK(base \o w.out, v2.prev)
  BY <1>2 DEF JobOK, Remembered, Counted
<1> QED
  BY <1>2, <1>3, <1>4, <1>5 DEF JobOK, Wholes, w2

Chain(w, kinds, N, f) ==
    f = [i \in 0..N |-> IF i = 0 THEN w
                        ELSE V!Process(f[i - 1], V!BlockAt(w.v.at + (i - 1) * Block, Block, kinds[i]))]

Links(w, kinds, N, f) ==
    /\ f[0] = w
    /\ \A n \in 1..N : f[n] = V!Process(f[n - 1], V!BlockAt(w.v.at + (n - 1) * Block, Block, kinds[n]))

LEMMA ChainSteps ==
  ASSUME NEW w, NEW kinds, NEW N \in Nat, NEW f, Chain(w, kinds, N, f)
  PROVE  Links(w, kinds, N, f)
<1> DEFINE Entry(i) == IF i = 0 THEN w
                       ELSE V!Process(f[i - 1], V!BlockAt(w.v.at + (i - 1) * Block, Block, kinds[i]))
<1>1. f = [i \in 0..N |-> Entry(i)]
  BY DEF Chain
<1> HIDE DEF Entry
<1>2. \A i \in 0..N : f[i] = Entry(i)
  BY <1>1
<1>3. 0 \in 0..N /\ \A n \in 1..N : n \in 0..N /\ n # 0
  OBVIOUS
<1> QED
  BY <1>2, <1>3, Zenon DEF Entry, Links

LEMMA ChainExists == ASSUME NEW w, NEW kinds, NEW N \in Nat PROVE \E f : Chain(w, kinds, N, f)
<1> DEFINE Ix == {n \in 0..N : \E f : Chain(w, kinds, n, f)}
           Next1(x, i) == V!Process(x, V!BlockAt(w.v.at + (i - 1) * Block, Block, kinds[i]))
<1>1. 0 \in Ix
  <2> DEFINE z == [i \in 0..0 |-> w]
  <2>1. z = [i \in 0..0 |-> z[i]] /\ \A i \in 0..0 : z[i] = w /\ i = 0
    OBVIOUS
  <2> HIDE DEF z, Next1
  <2>2. \A i \in 0..0 : z[i] = IF i = 0 THEN w ELSE Next1(z[i - 1], i)
    BY <2>1
  <2>3. z = [i \in 0..0 |-> IF i = 0 THEN w ELSE Next1(z[i - 1], i)]
    BY <2>1, <2>2
  <2>4. Chain(w, kinds, 0, z)
    BY <2>3 DEF Chain, Next1
  <2> QED
    BY <2>4
<1>2. ASSUME NEW n \in (0 + 1)..N, n - 1 \in Ix PROVE n \in Ix
  <2>1. PICK f : Chain(w, kinds, n - 1, f)
    BY <1>2
  <2> DEFINE last == Next1(f[n - 1], n)
             g == [i \in 0..n |-> IF i = n THEN last ELSE f[i]]
  <2>2. n - 1 \in Nat /\ n \in Nat /\ n # 0
    OBVIOUS
  <2>9. f[0] = w /\ \A i \in 1..(n - 1) : f[i] = V!Process(f[i - 1], V!BlockAt(w.v.at + (i - 1) * Block, Block, kinds[i]))
    <3>1. PICK m \in Nat : m = n - 1
      BY <2>2
    <3>2. Chain(w, kinds, m, f)
      BY <2>1, <3>1
    <3>3. f[0] = w /\ \A i \in 1..m : f[i] = V!Process(f[i - 1], V!BlockAt(w.v.at + (i - 1) * Block, Block, kinds[i]))
      <4>1. Links(w, kinds, m, f)
        BY <3>2, ChainSteps
      <4> QED
        BY <4>1, Zenon DEF Links
    <3> QED
      BY <3>1, <3>3, Zenon
  <2>3. f[0] = w /\ \A i \in 1..(n - 1) : f[i] = Next1(f[i - 1], i)
    BY <2>9, Zenon
  <2> HIDE DEF Next1
  <2>4. g[n] = last /\ \A i \in 0..(n - 1) : g[i] = f[i]
    BY <2>2
  <2>5. g = [i \in 0..n |-> g[i]]
    OBVIOUS
  <2> HIDE DEF g
  <2>6. ASSUME NEW i \in 0..n PROVE g[i] = IF i = 0 THEN w ELSE Next1(g[i - 1], i)
    <3>1. CASE i = 0
      BY <2>2, <2>3, <2>4, <3>1
    <3>2. CASE i \in 1..(n - 1)
      <4>1. i \in 0..(n - 1) /\ i - 1 \in 0..(n - 1) /\ i # 0
        BY <2>2, <3>2
      <4> QED
        BY <2>3, <2>4, <3>2, <4>1, Zenon
    <3>3. CASE i = n
      <4>1. i - 1 \in 0..(n - 1) /\ i # 0
        BY <2>2, <3>3
      <4> QED
        BY <2>4, <3>3, <4>1, Zenon
    <3> QED
      BY <2>2, <3>1, <3>2, <3>3
  <2>8. g = [i \in 0..n |-> IF i = 0 THEN w ELSE Next1(g[i - 1], i)]
    BY <2>5, <2>6
  <2>7. Chain(w, kinds, n, g)
    BY <2>8 DEF Chain, Next1
  <2> QED
    BY <2>2, <2>7
<1> HIDE DEF Ix
<1>3. 0..N \subseteq Ix
  BY <1>1, <1>2, Upwards
<1> QED
  BY <1>3 DEF Ix

Fitting(v, n, kinds) == \A i \in 1..V!Blocks(v, n) : kinds[i] \in V!Kinds

(* Any number of blocks, one after the other.                              *)
LEMMA TakeKeeps ==
  ASSUME NEW base \in Seq(Piece), NEW w, Rest(base, w), NEW n \in Nat, NEW kinds, Fitting(w.v, n, kinds)
  PROVE  /\ Rest(base, V!Take(w, n, kinds))
         /\ V!Take(w, n, kinds).v.at + V!Take(w, n, kinds).v.carry = w.v.at + w.v.carry + n
         /\ V!Take(w, n, kinds).v.carry = (w.v.carry + n) % Block
<1> DEFINE at == w.v.at
           c == w.v.carry
           N == V!Blocks(w.v, n)
           f == CHOOSE f : Chain(w, kinds, N, f)
<1>1. at \in Nat /\ c \in Nat /\ c + n \in Nat /\ JobOK(base, w, at, MaxSegment) /\ Wholes(w)
  <2>1. w.v \in Detector
    BY DEF Rest, JobOK, Jobs
  <2>2. at \in Nat /\ c \in 0..Block - 1
    BY <2>1 DEF Detector
  <2>3. c \in Nat
    BY <2>2, BlockSize, Zenon
  <2> QED
    BY <2>2, <2>3 DEF Rest
<1>2. N \in Nat /\ N * Block \in Nat /\ N * Block + ((c + n) % Block) = c + n /\ (c + n) % Block \in 0..Block - 1
  BY <1>1, Division DEF V!Blocks
<1>3. Chain(w, kinds, N, f)
  BY <1>2, ChainExists
<1>4. V!Take(w, n, kinds) = [f[N] EXCEPT !.v = [f[N].v EXCEPT !.carry = (c + n) % Block, !.at = at + N * Block]]
  BY DEF V!Take, Chain
<1> HIDE DEF f, N
<1>5. f[0] = w
  BY <1>2, <1>3, ChainSteps DEF Links
<1>6. \A i \in 1..N : f[i] = V!Process(f[i - 1], V!BlockAt(at + (i - 1) * Block, Block, kinds[i]))
  BY <1>2, <1>3, ChainSteps DEF Links
<1> HIDE DEF at, c
<1> DEFINE Ix == {i \in 0..N : JobOK(base, f[i], at + i * Block, MaxSegment) /\ Wholes(f[i])}
<1>7. 0 \in Ix
  <2>1. at + 0 * Block = at
    BY <1>1, Lengths
  <2> QED
    BY <1>1, <1>2, <1>5, <2>1
<1>8. ASSUME NEW i \in (0 + 1)..N, i - 1 \in Ix PROVE i \in Ix
  <2>1. i \in 1..N /\ i \in 0..N /\ i - 1 \in Nat
    BY <1>2
  <2> DEFINE p == at + (i - 1) * Block
             b == V!BlockAt(p, Block, kinds[i])
  <2>2. (i - 1) * Block \in Nat /\ p \in Nat /\ i * Block = (i - 1) * Block + Block /\ p + Block = at + i * Block
    <3>1. (i - 1) * Block \in Nat /\ i * Block = (i - 1) * Block + Block /\ Block \in Nat
      BY <2>1, Lengths
    <3> QED
      BY <1>1, <3>1
  <2>3. Block \in 1..Block /\ kinds[i] \in V!Kinds
    BY <2>1, Lengths DEF Fitting, N
  <2>4. f[i] = V!Process(f[i - 1], b) /\ JobOK(base, f[i - 1], p, MaxSegment) /\ Wholes(f[i - 1])
    BY <1>6, <1>8, <2>1
  <2> HIDE DEF p
  <2>5. b \in Blks /\ b.start = p /\ V!BlockEnd(b) = p + Block /\ b.len = Block
    <3>1. b \in Blks /\ b.start = p /\ V!BlockEnd(b) = p + Block
      BY <2>2, <2>3, BlockIs
    <3>2. b.len = Block
      BY DEF V!BlockAt
    <3> QED
      BY <3>1, <3>2
  <2> HIDE DEF b
  <2>6. JobOK(base, f[i], V!BlockEnd(b), MaxSegment) /\ Wholes(f[i])
    BY <2>2, <2>4, <2>5, ProcessKeeps
  <2>7. JobOK(base, f[i], at + i * Block, MaxSegment)
    BY <2>2, <2>5, <2>6
  <2> QED
    BY <2>1, <2>6, <2>7
<1> HIDE DEF Ix
<1>9. N \in Ix
  <2>1. 0..N \subseteq Ix
    BY <1>2, <1>7, <1>8, Upwards
  <2> QED
    BY <1>2, <2>1
<1>10. JobOK(base, f[N], at + N * Block, MaxSegment) /\ Wholes(f[N])
  BY <1>9 DEF Ix
<1>11. at + N * Block \in Nat
  BY <1>1, <1>2
<1>12. /\ JobOK(base, V!Take(w, n, kinds), at + N * Block, MaxSegment) /\ Wholes(V!Take(w, n, kinds))
       /\ V!Take(w, n, kinds).v.carry = (c + n) % Block /\ V!Take(w, n, kinds).v.at = at + N * Block
  <2> DEFINE t == V!Take(w, n, kinds)
             x == f[N]
             a == at + N * Block
             r == (c + n) % Block
  <2>1. t = MovedTo(x, r, a)
    BY <1>4 DEF MovedTo
  <2>2. r \in 0..Block - 1 /\ a \in Nat /\ JobOK(base, x, a, MaxSegment) /\ Wholes(x)
    BY <1>2, <1>10, <1>11
  <2> HIDE DEF t, x, a, r
  <2>3. JobOK(base, t, a, MaxSegment) /\ Wholes(t) /\ t.v.carry = r /\ t.v.at = a
    BY <2>1, <2>2, MoveKeeps
  <2> QED
    BY <2>3 DEF t, a, r
<1>13. V!Take(w, n, kinds).v.at + V!Take(w, n, kinds).v.carry = at + c + n
  <2> DEFINE m == N * Block
             r == (c + n) % Block
  <2>1. m \in Nat /\ r \in 0..Block - 1 /\ m + r = c + n
    BY <1>2
  <2>2. V!Take(w, n, kinds).v.at = at + m /\ V!Take(w, n, kinds).v.carry = r
    BY <1>12
  <2> HIDE DEF m, r
  <2>3. r \in Nat
    BY <2>1, Lengths
  <2> QED
    BY <1>1, <2>1, <2>2, <2>3
<1> QED
  BY <1>12, <1>13 DEF Rest, at, c

----------------------------------------------------------------------------
(* _gap.                                                                   *)
LEMMA IdleAllMet ==
  ASSUME NEW p \in Nat, NEW v, DetectorOK(v, p, MaxSegment), v.seg = <<>>,
         NEW h, NEW o, Remembered(h, v, p, o)
  PROVE  AllMet(h, p, o)
<1>1. v.onset \in Nat /\ v.onset < Onset /\ Onset \in Nat
  BY Lengths DEF DetectorOK, Detector
<1>2. v.onset * Block + Block <= Onset * Block /\ v.onset * Block \in Nat /\ Onset * Block \in Nat /\ Block >= 1 /\ Block \in Nat
  <2>1. v.onset * Block + Block <= Onset * Block /\ v.onset * Block \in Nat /\ Onset * Block \in Nat
    BY <1>1, OnsetGrows
  <2> QED
    BY <2>1, BlockSize
<1>3. History(h, p) /\ \A s \in h.owed : Met(o, s)
  BY DEF Remembered
<1>4. ASSUME h.from # V!None PROVE Met(o, Now(h)) \/ ~V!Long(Now(h))
  <2>1. \/ Met(o, Now(h)) \/ ~V!Long(Now(h))
        \/ h.end = p /\ Counted(v, h.from, p)
    BY <1>4 DEF Remembered
  <2>2. ASSUME h.end = p, Counted(v, h.from, p) PROVE ~V!Long(Now(h))
    <3>1. p - h.from <= v.onset * Block
      BY <2>2 DEF Counted, Counts
    <3>2. Now(h) \in Stretch /\ Now(h).start = h.from /\ Now(h).end = p /\ h.from \in Nat
      BY <1>3, <1>4, <2>2 DEF History, Now, Stretch
    <3> DEFINE x == v.onset * Block
               y == Onset * Block
    <3>3. p - h.from <= x /\ x + Block <= y /\ x \in Nat /\ y \in Nat
      BY <1>2, <3>1
    <3>4. V!Long(Now(h)) => p - h.from >= y
      BY <3>2, LongIs
    <3> HIDE DEF x, y
    <3> QED
      BY <1>2, <3>2, <3>3, <3>4
  <2> QED
    BY <2>1, <2>2
<1> QED
  BY <1>3, <1>4 DEF AllMet

(* Nothing that was counted is lost with the ring: it was too short.       *)
LEMMA JumpKeeps ==
  ASSUME NEW base, NEW w \in Jobs, NEW m \in Nat \ {0},
         DetectorOK(w.v, w.v.at, MaxSegment), w.v.seg = <<>>,
         ReturnsOK(base \o w.out, w.v.prev), AllMet(w.h, w.v.at, base \o w.out)
  PROVE  /\ Rest(base, V!Jump(w, m)) /\ V!Jump(w, m).v.at = w.v.at + m /\ V!Jump(w, m).v.carry = w.v.carry
<1> DEFINE v == w.v
           p == v.at
           v2 == [V!Forget(w.v) EXCEPT !.at = w.v.at + m]
           w2 == V!Jump(w, m)
           o == base \o w.out
           h == w.h
<1>1. v \in Detector /\ v.prev <= p /\ v.last <= p /\ v.prev \in Nat /\ v.last \in Nat /\ p \in Nat
  BY DEF DetectorOK, Detector
<1>2. <<>> \in Seq(Blks) /\ p + m \in Nat /\ p < p + m
  BY <1>1
<1>3. /\ v2 \in Detector /\ v2.ring = <<>> /\ v2.onset = 0 /\ v2.seg = <<>> /\ v2.last = v.last
      /\ v2.prev = v.prev /\ v2.carry = v.carry /\ v2.at = p + m
  BY <1>1, <1>2 DEF Detector, V!Forget
<1>4. w2 = [w EXCEPT !.v = v2]
  BY DEF V!Jump
<1> HIDE DEF v2, w2
<1>5. w2 \in Jobs /\ w2.v = v2 /\ w2.out = w.out /\ w2.h = h
  BY <1>3, <1>4 DEF Jobs
<1>6. Run(<<>>, p + m) /\ Len(<<>>) = 0 /\ Whole(<<>>)
  BY <1>2 DEF Run, V!Gapless, Whole
<1>7. DetectorOK(v2, p + m, MaxSegment)
  <2>1. Onset \in Nat /\ 0 < Onset /\ 0 <= Preroll + Onset
    <3>1. Onset \in Nat \ {0} /\ Preroll \in Nat
      BY Lengths, Zenon
    <3> QED
      BY <3>1
  <2>2. v2.last <= p + m /\ v2.prev <= p + m
    <3>1. p \in Nat /\ v.last \in Nat /\ v.prev \in Nat /\ v.last <= p /\ v.prev <= p
      BY <1>1
    <3>2. \A x \in Nat, y \in Nat : x <= y => x <= y + m
      OBVIOUS
    <3>3. v.last <= p + m /\ v.prev <= p + m
      BY <3>1, <3>2, Zenon
    <3> QED
      BY <1>3, <3>3
  <2> QED
    BY <1>2, <1>3, <1>6, <2>1, <2>2 DEF DetectorOK
<1>8. Remembered(h, v2, p + m, o)
  <2>1. /\ History(h, p) /\ \A s \in h.owed : Met(o, s)
        /\ h.from # V!None => Met(o, Now(h)) \/ ~V!Long(Now(h))
    BY DEF AllMet
  <2>2. \A s \in h.owed : s.start \in Nat /\ s.end \in Nat /\ s.start < s.end /\ s.end < p
    BY <2>1 DEF History, Stretch
  <2>3. h.owed \subseteq Stretch
    BY <2>1 DEF History
  <2>4. h.from # V!None => h.from \in Nat /\ h.end \in Nat /\ h.from < h.end /\ h.end <= p
    BY <2>1 DEF History
  <2>5. \A s \in h.owed : s.start < s.end /\ s.end < p + m
    BY <1>1, <2>2
  <2>6. h.from # V!None => h.from \in Nat /\ h.end \in Nat /\ h.from < h.end /\ h.end <= p + m /\ h.end < p + m
    BY <1>1, <2>4
  <2>7. History(h, p + m)
    BY <2>3, <2>5, <2>6 DEF History
  <2> QED
    BY <1>3, <2>1, <2>6, <2>7 DEF Remembered
<1> QED
  BY <1>3, <1>5, <1>6, <1>7, <1>8 DEF Rest, JobOK, Wholes, w2

LEMMA CloseJob ==
  ASSUME NEW base \in Seq(Piece), NEW w, NEW p \in Nat, JobOK(base, w, p, MaxSegment), w.v.seg # <<>>
  PROVE  /\ V!BlockEnd(V!Last(w.v.seg)) = p /\ V!Close(w, p) \in Jobs
         /\ V!Close(w, p).v.seg = <<>> /\ V!Close(w, p).v.carry = w.v.carry /\ V!Close(w, p).v.at = w.v.at
         /\ DetectorOK(V!Close(w, p).v, p, MaxSegment) /\ ReturnsOK(base \o V!Close(w, p).out, V!Close(w, p).v.prev)
         /\ V!Close(w, p).h = w.h /\ AllMet(w.h, p, base \o V!Close(w, p).out)
<1> DEFINE v == w.v
           o == base \o w.out
           v2 == CloseOf(v, p)
           out2 == CloseOut(w.out, v, p)
           w2 == V!Close(w, p)
<1>1. w \in Jobs /\ v \in Detector /\ DetectorOK(v, p, MaxSegment) /\ ReturnsOK(o, v.prev) /\ Remembered(w.h, v, p, o)
  BY DEF JobOK, Jobs
<1>2. V!BlockEnd(V!Last(v.seg)) = p
  BY <1>1 DEF DetectorOK, Run, V!Last
<1>3. DetectorOK(v, p, MaxSegment + Block)
  <2>1. p - v.seg[1].start <= MaxSegment + Block
    <3>1. v.seg[1].start \in Nat
      BY <1>1, RunSpan DEF DetectorOK, Detector
    <3>2. p - v.seg[1].start <= MaxSegment
      BY <1>1 DEF DetectorOK
    <3>3. MaxSegment \in Nat /\ Block \in Nat
      BY Lengths
    <3> QED
      BY <3>1, <3>2, <3>3
  <2> QED
    BY <1>1, <2>1 DEF DetectorOK
<1>4. w2 = [w EXCEPT !.v = v2, !.out = out2]
  BY <1>1 DEF V!Close, CloseOf, CloseOut, Jobs
<1> HIDE DEF o, v2, out2, w2
<1>5. /\ DetectorOK(v2, p, MaxSegment) /\ v2.seg = <<>>
      /\ v2.carry = v.carry /\ v2.at = v.at
      /\ ReturnsOK(CloseOut(o, v, p), v2.prev) /\ AllMet(w.h, p, CloseOut(o, v, p))
  BY <1>1, <1>3, ClosedIs DEF v2
<1>6. base \o out2 = CloseOut(o, v, p) /\ out2 \in Seq(Piece)
  <2>1. CloseOut(o, v, p) \in Seq(Piece)
    BY <1>5 DEF ReturnsOK
  <2>2. w.out \in Seq(Piece)
    BY <1>1 DEF Jobs
  <2> QED
    BY <2>1, <2>2, OutAfter DEF CloseOut, o, out2
<1>7. w2 \in Jobs /\ w2.v = v2 /\ w2.out = out2 /\ w2.h = w.h
  <2>1. v2 \in Detector
    BY <1>5 DEF DetectorOK
  <2> QED
    BY <1>1, <1>4, <1>6, <2>1 DEF Jobs
<1> QED
  BY <1>2, <1>5, <1>6, <1>7 DEF w2, v

LEMMA Filling ==
  ASSUME NEW c \in 0..Block - 1, NEW n \in Nat \ {0}, NEW fill,
         fill = IF c = 0 THEN 0 ELSE V!Min({Block - c, n})
  PROVE  /\ fill \in 0..n /\ (c + fill) \div Block \in 0..1
         /\ fill < n => (c + fill) % Block = 0
<1>1. Block \in Nat /\ Block >= 1 /\ c \in Nat /\ c < Block
  BY Lengths
<1>2. c # 0 => fill = IF Block - c <= n THEN Block - c ELSE n
  <2>1. Block - c \in Int /\ n \in Int
    BY <1>1
  <2> QED
    BY <2>1, Pair, Zenon
<1>3. fill \in 0..n /\ c + fill \in Nat /\ c + fill <= Block /\ (fill < n => c + fill = 0 \/ c + fill = Block)
  <2>1. CASE c = 0
    BY <1>1, <2>1
  <2>2. CASE c # 0
    BY <1>1, <1>2, <2>2
  <2> QED
    BY <2>1, <2>2
<1> DEFINE q == (c + fill) \div Block
           r == (c + fill) % Block
<1>4. q \in Nat /\ r \in 0..Block - 1 /\ q * Block \in Nat /\ q * Block + r = c + fill
  BY <1>3, Division
<1>5. (q = 0 => q * Block = 0) /\ (q = 1 => q * Block = Block) /\ (q > 1 => q * Block >= Block + Block)
  <2> HIDE DEF q
  <2>1. q = 0 => q * Block = 0
    BY <1>1
  <2>2. q = 1 => q * Block = Block
    BY <1>1
  <2>3. ASSUME q > 1 PROVE q * Block >= Block + Block
    <3>1. 1 * Block + Block <= q * Block
      BY <1>4, <2>3, OnsetGrows
    <3>2. 1 * Block = Block
      BY <1>1
    <3> QED
      BY <3>1, <3>2
  <2> QED
    BY <2>1, <2>2, <2>3
<1> DEFINE x == q * Block
<1>6. /\ x \in Nat /\ x + r = c + fill
      /\ (q = 0 => x = 0) /\ (q = 1 => x = Block) /\ (q > 1 => x >= Block + Block)
  BY <1>4, <1>5
<1> HIDE DEF x, q, r
<1>7. q \in 0..1 /\ (fill < n => r = 0)
  BY <1>1, <1>3, <1>4, <1>6
<1> QED
  BY <1>3, <1>7 DEF q, r

LEMMA FewBlocks == ASSUME NEW n \in Nat PROVE n \div Block <= n
<1> DEFINE q == n \div Block
<1>1. q \in Nat /\ q * Block \in Nat /\ q * Block <= n
  BY Division
<1>2. Block - 1 \in Nat /\ Block \in Nat
  BY Lengths
<1> HIDE DEF q
<1>3. q * (Block - 1) \in Nat /\ q * Block = q * (Block - 1) + q
  BY <1>1, <1>2
<1>4. q <= n
  BY <1>1, <1>3
<1> QED
  BY <1>4 DEF q

(* A gap of any length, with a block begun or not, inside speech or not.   *)
LEMMA GapKeeps ==
  ASSUME NEW base \in Seq(Piece), NEW w, Rest(base, w), NEW n \in Nat \ {0}, NEW kind \in V!Kinds
  PROVE  /\ Rest(base, V!Gap(w, n, kind))
         /\ V!Gap(w, n, kind).v.at + V!Gap(w, n, kind).v.carry = w.v.at + w.v.carry + n
<1> DEFINE c == w.v.carry
           fill == IF c = 0 THEN 0 ELSE V!Min({Block - c, n})
           f == V!Take(w, fill, <<kind>>)
           m == n - fill
           p == f.v.at
           still == V!BlockEnd(V!Last(f.v.seg)) - f.v.last
<1>1. c \in 0..Block - 1 /\ w.v.at \in Nat /\ c \in Nat
  <2>1. w.v \in Detector
    BY DEF Rest, JobOK, Jobs
  <2>2. c \in 0..Block - 1 /\ w.v.at \in Nat
    BY <2>1 DEF Detector
  <2>3. \A x \in 0..Block - 1 : x \in Nat
    BY Lengths
  <2> QED
    BY <2>2, <2>3, Zenon
<1>2. V!Gap(w, n, kind) = IF m = 0 THEN f
                        ELSE IF f.v.seg = <<>> THEN V!Jump(f, m)
                        ELSE IF still + m < ShortFlush THEN V!Take(f, m, V!Zeros(m))
                        ELSE V!Jump(V!Close(f, V!BlockEnd(V!Last(f.v.seg))), m)
  BY DEF V!Gap
<1> HIDE DEF still
<1>3. fill \in 0..n /\ (c + fill) \div Block \in 0..1 /\ (fill < n => (c + fill) % Block = 0)
  BY <1>1, Filling, Zenon
<1>4. Rest(base, f) /\ f.v.at + f.v.carry = w.v.at + c + fill /\ f.v.carry = (c + fill) % Block
  <2>1. fill \in Nat /\ V!Blocks(w.v, fill) \in 0..1
    BY <1>3 DEF V!Blocks
  <2> HIDE DEF fill
  <2>2. Fitting(w.v, fill, <<kind>>)
    BY <2>1 DEF Fitting
  <2> QED
    BY <2>1, <2>2, TakeKeeps
<1> HIDE DEF fill, f
<1>5. /\ m \in Nat /\ f.v \in Detector /\ f \in Jobs /\ f.v.carry \in Nat /\ p \in Nat
      /\ f.v.at + f.v.carry + m = w.v.at + c + n
  <2>1. f \in Jobs /\ f.v \in Detector
    BY <1>4 DEF Rest, JobOK, Jobs
  <2>2. f.v.carry \in Nat /\ p \in Nat
    <3>1. f.v.carry \in 0..Block - 1 /\ f.v.at \in Nat
      BY <2>1 DEF Detector
    <3> QED
      BY <3>1, BlockSize, Zenon
  <2>3. m \in Nat /\ fill \in Nat /\ fill + m = n
    BY <1>3
  <2>4. w.v.at \in Nat /\ c \in Nat /\ p + f.v.carry = w.v.at + c + fill
    BY <1>1, <1>4
  <2> HIDE DEF m, p, c
  <2> DEFINE z == f.v.carry
             a == w.v.at
  <2>6. z \in Nat /\ p \in Nat /\ a \in Nat /\ c \in Nat /\ p + z = a + c + fill
    BY <2>2, <2>4
  <2> HIDE DEF z, a
  <2>7. p + z + m = a + c + n
    BY <2>3, <2>6
  <2>5. p + f.v.carry + m = w.v.at + c + n
    BY <2>7 DEF z, a
  <2> QED
    BY <2>1, <2>2, <2>3, <2>5 DEF p
<1>6. JobOK(base, f, p, MaxSegment) /\ DetectorOK(f.v, p, MaxSegment)
      /\ ReturnsOK(base \o f.out, f.v.prev) /\ Remembered(f.h, f.v, p, base \o f.out)
  BY <1>4 DEF Rest, JobOK
<1>7. CASE m = 0
  BY <1>2, <1>4, <1>5, <1>7
<1>8. CASE m # 0
  <2>1. m \in Nat \ {0} /\ f.v.carry = 0 /\ p + m = w.v.at + c + n
    BY <1>3, <1>4, <1>5, <1>8
  <2> HIDE DEF m, c
  <2>2. CASE f.v.seg = <<>>
    <3>1. AllMet(f.h, p, base \o f.out)
      BY <1>5, <1>6, <2>2, IdleAllMet
    <3>2. Rest(base, V!Jump(f, m)) /\ V!Jump(f, m).v.at = p + m /\ V!Jump(f, m).v.carry = 0
      BY <1>5, <1>6, <2>1, <2>2, <3>1, JumpKeeps
    <3>3. V!Gap(w, n, kind) = V!Jump(f, m)
      BY <1>2, <1>8, <2>2
    <3> QED
      BY <1>5, <2>1, <3>2, <3>3 DEF c
  <2>3. CASE f.v.seg # <<>> /\ still + m < ShortFlush
    <3>1. Fitting(f.v, m, V!Zeros(m))
      <4>1. V!Blocks(f.v, m) = m \div Block /\ m \div Block \in Nat /\ m \div Block <= m
        <5>1. m \in Nat /\ 0 + m = m /\ f.v.carry + m = m
          BY <2>1
        <5> QED
          BY <5>1, Division, FewBlocks, Zenon DEF V!Blocks
      <4> DEFINE q == m \div Block
      <4>2. q \in Nat /\ q <= m /\ V!Blocks(f.v, m) = q /\ m \in Nat
        BY <2>1, <4>1
      <4> HIDE DEF q
      <4>3. \A i \in 1..q : i \in 1..m
        BY <4>2
      <4> QED
        BY <4>2, <4>3 DEF V!Zeros, V!Kinds, Fitting
    <3> DEFINE t == V!Take(f, m, V!Zeros(m))
    <3>2. Rest(base, t) /\ t.v.at + t.v.carry = p + f.v.carry + m
      BY <1>4, <2>1, <3>1, TakeKeeps
    <3>3. V!Gap(w, n, kind) = t
      BY <1>2, <1>8, <2>3
    <3> HIDE DEF t
    <3> QED
      BY <1>5, <2>1, <3>2, <3>3 DEF c
  <2>4. CASE f.v.seg # <<>> /\ ~(still + m < ShortFlush)
    <3> DEFINE e == V!Close(f, p)
    <3>1. /\ V!BlockEnd(V!Last(f.v.seg)) = p /\ e \in Jobs /\ e.v.seg = <<>> /\ e.v.carry = 0 /\ e.v.at = p
          /\ DetectorOK(e.v, p, MaxSegment) /\ ReturnsOK(base \o e.out, e.v.prev)
          /\ AllMet(e.h, p, base \o e.out)
      BY <1>5, <1>6, <2>1, <2>4, CloseJob
    <3>2. V!Gap(w, n, kind) = V!Jump(e, m)
      BY <1>2, <1>8, <2>4, <3>1
    <3> HIDE DEF e
    <3>3. Rest(base, V!Jump(e, m)) /\ V!Jump(e, m).v.at = p + m /\ V!Jump(e, m).v.carry = 0
      BY <1>5, <2>1, <3>1, JumpKeeps
    <3> QED
      BY <1>5, <2>1, <3>2, <3>3 DEF c
  <2> QED
    BY <2>2, <2>3, <2>4
<1> QED
  BY <1>7, <1>8

----------------------------------------------------------------------------
(* What is kept of the histories between the calls, and after flush.       *)
NowOf(h, p, last) == IF h.from # V!None /\ (last \/ h.end # p) THEN V!Ended(h, h.end) ELSE h
LeftOf(h, p, last, o) == {s \in NowOf(h, p, last).owed : \A t \in V!ToSet(o) : ~V!Meets(s, t)}
NextOf(h, p, o) == [from |-> NowOf(h, p, FALSE).from, end |-> p, owed |-> LeftOf(h, p, FALSE, o)]

LEMMA EndedIs ==
  ASSUME NEW h \in Hist, NEW p \in Nat, History(h, p), NEW last \in BOOLEAN
  PROVE  /\ NowOf(h, p, last).owed \subseteq Stretch
         /\ \A s \in NowOf(h, p, last).owed : s \in h.owed \/ (s = Now(h) /\ h.from # V!None /\ V!Long(s) /\ (last \/ h.end # p))
         /\ \/ NowOf(h, p, last).from = V!None /\ (h.from = V!None \/ last \/ h.end # p)
            \/ NowOf(h, p, last).from = h.from /\ h.from # V!None /\ ~last /\ h.end = p
<1> DEFINE ends == h.from # V!None /\ (last \/ h.end # p)
           g == NowOf(h, p, last)
<1>1. h.owed \subseteq Stretch /\ (h.from # V!None => Now(h) \in Stretch)
  BY DEF History, Now, Stretch
<1>2. CASE ends
  <2>1. g = [from |-> V!None, end |-> V!None, owed |-> IF h.from # V!None /\ V!Long(Now(h)) THEN h.owed \cup {Now(h)} ELSE h.owed]
    BY <1>2 DEF NowOf, V!Ended, Now
  <2>2. g.from = V!None /\ g.owed = IF V!Long(Now(h)) THEN h.owed \cup {Now(h)} ELSE h.owed
    BY <1>2, <2>1
  <2> HIDE DEF g
  <2>3. \A s \in g.owed : s \in h.owed \/ (s = Now(h) /\ V!Long(s))
    BY <2>2
  <2>4. g.owed \subseteq Stretch
    BY <1>1, <1>2, <2>2
  <2> QED
    BY <1>2, <2>2, <2>3, <2>4 DEF g
<1>3. CASE ~ends
  BY <1>1, <1>3 DEF NowOf
<1> QED
  BY <1>2, <1>3

LEMMA LeftIs ==
  ASSUME NEW h, NEW p, NEW last, NEW o
  PROVE  LeftOf(h, p, last, o) = {s \in NowOf(h, p, last).owed : ~Met(o, s)}
BY DEF LeftOf, Met, V!ToSet

(* The histories carried to the next call remember the same stretches.     *)
LEMMA NextHist ==
  ASSUME NEW p \in Nat, NEW v, v.onset \in Nat, NEW o, NEW h \in Hist, Remembered(h, v, p, o)
  PROVE  /\ NextOf(h, p, o) \in Hist /\ Remembered(NextOf(h, p, o), v, p, o)
         /\ \A s \in NextOf(h, p, o).owed : ~Met(o, s)
<1> DEFINE hist == NowOf(h, p, FALSE)
           h2 == NextOf(h, p, o)
<1>1. History(h, p)
  BY DEF Remembered
<1>2. /\ hist.owed \subseteq Stretch
      /\ \A s \in hist.owed : s \in h.owed \/ (s = Now(h) /\ h.from # V!None /\ V!Long(s) /\ h.end # p)
      /\ \/ hist.from = V!None /\ (h.from = V!None \/ h.end # p)
         \/ hist.from = h.from /\ h.from # V!None /\ h.end = p
  BY <1>1, EndedIs
<1>3. h2.from = hist.from /\ h2.end = p /\ h2.owed = {s \in hist.owed : ~Met(o, s)}
      /\ h2 = [from |-> hist.from, end |-> p, owed |-> h2.owed]
  BY LeftIs DEF NextOf
<1> HIDE DEF hist, h2
<1>4. /\ \A s \in h.owed : s \in Stretch /\ s.start < s.end /\ s.end < p
      /\ h.from # V!None => h.from \in Nat /\ h.end \in Nat /\ h.from < h.end /\ h.end <= p
  BY <1>1 DEF History
<1>5. hist.from \in Int /\ V!None = -1
  BY <1>2, <1>4 DEF V!None
<1>6. h2 \in Hist
  BY <1>2, <1>3, <1>5 DEF Hist
<1>7. \A s \in h2.owed : s \in h.owed /\ ~Met(o, s)
  <2>1. h.from # V!None /\ h.end # p => h.end < p
    BY <1>4
  <2>2. h.from # V!None /\ h.end # p => Met(o, Now(h)) \/ ~V!Long(Now(h))
    BY <2>1 DEF Remembered
  <2> QED
    BY <1>2, <1>3, <2>2
<1>8. History(h2, p)
  <2>1. h2.owed \subseteq Stretch /\ \A s \in h2.owed : s.start < s.end /\ s.end < p
    BY <1>4, <1>7
  <2>2. h2.from # V!None => h2.from \in Nat /\ h2.end \in Nat /\ h2.from < h2.end /\ h2.end <= p
    BY <1>2, <1>3, <1>4
  <2> QED
    BY <2>1, <2>2 DEF History
<1>9. \A s \in h2.owed : v.seg # <<>> /\ Held(v.seg, s)
  BY <1>7 DEF Remembered
<1>10. v.seg = <<>> /\ (h2.from = V!None \/ h2.end < p) => v.onset = 0
  <2>1. ~(h2.end < p)
    BY <1>3
  <2>2. h2.from = V!None => h.from = V!None \/ h.end < p
    BY <1>2, <1>3, <1>4
  <2> QED
    BY <2>1, <2>2 DEF Remembered
<1>11. h2.from # V!None => \/ Met(o, Now(h2))
                           \/ h2.end = p /\ v.seg # <<>> /\ HeldSoFar(v.seg, h2.from)
                           \/ h2.end = p /\ Counted(v, h2.from, p)
  <2> HAVE h2.from # V!None
  <2>1. h2.from = h.from /\ h.from # V!None /\ h.end = p /\ h2.end = h.end /\ h2.end = p
    BY <1>2, <1>3
  <2>2. Now(h2) = Now(h)
    BY <2>1 DEF Now
  <2>3. ~(h.end < p)
    BY <2>1
  <2>4. Met(o, Now(h)) \/ (v.seg # <<>> /\ HeldSoFar(v.seg, h.from)) \/ Counted(v, h.from, p)
    BY <2>1, <2>3 DEF Remembered
  <2> QED
    BY <2>1, <2>2, <2>4, Zenon
<1>12. ~(h2.end < p)
  BY <1>3
<1> QED
  BY <1>6, <1>7, <1>8, <1>9, <1>10, <1>11, <1>12 DEF Remembered, h2

LEMMA LastHist ==
  ASSUME NEW p \in Nat, NEW o, NEW h \in Hist, AllMet(h, p, o)
  PROVE  NowOf(h, p, TRUE).from = V!None /\ LeftOf(h, p, TRUE, o) = {}
<1> DEFINE hist == NowOf(h, p, TRUE)
<1>1. /\ History(h, p) /\ \A s \in h.owed : Met(o, s)
      /\ h.from # V!None => Met(o, Now(h)) \/ ~V!Long(Now(h))
  BY DEF AllMet
<1>2. /\ \A s \in hist.owed : s \in h.owed \/ (s = Now(h) /\ h.from # V!None /\ V!Long(s))
      /\ hist.from = V!None
  BY <1>1, EndedIs
<1>3. LeftOf(h, p, TRUE, o) = {s \in hist.owed : ~Met(o, s)}
  BY LeftIs
<1> HIDE DEF hist
<1> QED
  BY <1>1, <1>2, <1>3 DEF hist

----------------------------------------------------------------------------
LEMMA EndIs == End \in Nat
BY PartsConstants DEF V!VadConstants

(* The inductive invariant.                                                *)
DetectorHolds ==
    /\ vad \in Detector /\ DetectorOK(vad, vad.at, MaxSegment) /\ vad.at + vad.carry <= End
    /\ out \in Seq(Piece) /\ ReturnsOK(out, vad.prev)
    /\ over \in BOOLEAN /\ speaks \in V!None..End
    /\ ~over => Rest(out, V!Work) /\ \A s \in owed : ~Met(out, s)
    /\ over => owed = {}

LEMMA VadStarts == V!Init => DetectorHolds
<1> SUFFICES ASSUME V!Init PROVE DetectorHolds
  OBVIOUS
<1>1. /\ vad = [ring |-> <<>>, onset |-> 0, seg |-> <<>>, last |-> 0, prev |-> 0, carry |-> 0, at |-> 0]
      /\ out = <<>> /\ speaks = -1 /\ owed = {} /\ over = FALSE /\ V!None = -1
  BY DEF V!Init, V!None
<1>2. <<>> \in Seq(Blks) /\ <<>> \in Seq(Piece) /\ 0 \in 0..Block - 1
  BY Lengths
<1>3. /\ vad \in Detector /\ vad.ring = <<>> /\ vad.onset = 0 /\ vad.seg = <<>> /\ vad.last = 0
      /\ vad.prev = 0 /\ vad.carry = 0 /\ vad.at = 0
  BY <1>1, <1>2 DEF Detector
<1>4. Run(<<>>, 0) /\ Whole(<<>>) /\ Len(<<>>) = 0
  BY <1>2 DEF Run, V!Gapless, Whole
<1>5. DetectorOK(vad, 0, MaxSegment)
  BY <1>3, <1>4, Lengths DEF DetectorOK
<1>6. ReturnsOK(<<>>, 0)
  BY <1>2 DEF ReturnsOK
<1> DEFINE h == [from |-> speaks, end |-> vad.at, owed |-> owed]
<1>7. h.from = V!None /\ h.end = 0 /\ h.owed = {} /\ h \in Hist
  BY <1>1, <1>3 DEF Hist
<1>8. V!Work \in Jobs /\ V!Work.v = vad /\ V!Work.out = <<>> /\ V!Work.h = h
  BY <1>2, <1>3, <1>7 DEF V!Work, Jobs
<1> HIDE DEF h
<1>9. Remembered(h, vad, 0, <<>>)
  BY <1>3, <1>7 DEF Remembered, History
<1>10. out \o V!Work.out = <<>>
  BY <1>1, <1>8
<1>11. Rest(out, V!Work)
  BY <1>3, <1>4, <1>5, <1>6, <1>8, <1>9, <1>10 DEF Rest, JobOK, Wholes
<1>12. 0 + 0 <= End /\ -1 \in -1..End
  BY Lengths
<1> QED
  BY <1>1, <1>2, <1>3, <1>5, <1>6, <1>11, <1>12 DEF DetectorHolds

(* What feed returns.                                                      *)
LEMMA FeedHolds == DetectorHolds /\ V!Feed => DetectorHolds'
<1> SUFFICES ASSUME DetectorHolds, V!Feed PROVE DetectorHolds'
  OBVIOUS
<1>1. PICK n \in 1..MaxFeed, g \in 0..MaxGap, kind \in V!Kinds :
        /\ ~over /\ vad.at + vad.carry + g + n <= End
        /\ LET jumped == IF g = 0 THEN V!Work ELSE V!Gap(V!Work, g, kind) IN
           \E kinds \in [1..V!Blocks(jumped.v, n) -> V!Kinds] : V!Returns(V!Take(jumped, n, kinds), FALSE)
  BY DEF V!Feed
<1> DEFINE jumped == IF g = 0 THEN V!Work ELSE V!Gap(V!Work, g, kind)
<1>2. PICK kinds \in [1..V!Blocks(jumped.v, n) -> V!Kinds] : V!Returns(V!Take(jumped, n, kinds), FALSE)
  BY <1>1
<1> DEFINE w == V!Take(jumped, n, kinds)
<1>3. n \in Nat /\ g \in Nat /\ (g # 0 => g \in Nat \ {0})
  BY Lengths
<1>4. out \in Seq(Piece) /\ Rest(out, V!Work) /\ V!Work.v = vad
  BY <1>1 DEF DetectorHolds, V!Work
<1>5. Rest(out, jumped) /\ jumped.v.at + jumped.v.carry = vad.at + vad.carry + g
  <2>1. CASE g = 0
    <3>1. vad.at + vad.carry \in Int
      BY Lengths DEF DetectorHolds, Detector
    <3> QED
      BY <1>4, <2>1, <3>1
  <2>2. CASE g # 0
    <3>1. Rest(out, V!Gap(V!Work, g, kind))
          /\ V!Gap(V!Work, g, kind).v.at + V!Gap(V!Work, g, kind).v.carry = vad.at + vad.carry + g
      BY <1>3, <1>4, <2>2, GapKeeps
    <3> QED
      BY <2>2, <3>1
  <2> QED
    BY <2>1, <2>2
<1> HIDE DEF jumped
<1>6. Rest(out, w) /\ w.v.at + w.v.carry = jumped.v.at + jumped.v.carry + n
  <2>1. Fitting(jumped.v, n, kinds)
    BY DEF Fitting
  <2> QED
    <3>1. Rest(out, jumped) /\ out \in Seq(Piece) /\ n \in Nat
      BY <1>3, <1>4, <1>5
    <3> HIDE DEF w
    <3>2. /\ Rest(out, V!Take(jumped, n, kinds))
          /\ V!Take(jumped, n, kinds).v.at + V!Take(jumped, n, kinds).v.carry = jumped.v.at + jumped.v.carry + n
      BY <2>1, <3>1, TakeKeeps
    <3> QED
      BY <3>2 DEF w
<1>7. w.v.at + w.v.carry <= End
  BY <1>1, <1>5, <1>6
<1> HIDE DEF w
<1> DEFINE v == w.v
           p == v.at
           o == out \o w.out
           h2 == NextOf(w.h, p, o)
<1>8. /\ w \in Jobs /\ w.out \in Seq(Piece) /\ v \in Detector /\ w.h \in Hist
      /\ DetectorOK(v, p, MaxSegment) /\ ReturnsOK(o, v.prev) /\ Remembered(w.h, v, p, o) /\ Wholes(w)
  BY <1>6 DEF Rest, JobOK, Jobs
<1>9. /\ vad' = v /\ out' = o /\ over' = FALSE
      /\ speaks' = NowOf(w.h, p, FALSE).from /\ owed' = LeftOf(w.h, p, FALSE, o)
  BY <1>2 DEF V!Returns, NowOf, LeftOf, w
<1>10. p \in Nat /\ v.onset \in Nat
  BY <1>8 DEF Detector
<1>11. o \in Seq(Piece)
  BY <1>8 DEF ReturnsOK
<1> HIDE DEF v, p, o
<1>12. h2 \in Hist /\ Remembered(h2, v, p, o) /\ \A s \in h2.owed : ~Met(o, s)
  BY <1>8, <1>10, NextHist
<1>13. /\ h2 = [from |-> speaks', end |-> p, owed |-> owed'] /\ h2.owed = owed' /\ h2.from = speaks'
       /\ h2.end = p
  BY <1>9 DEF NextOf
<1> HIDE DEF h2
<1>14. V!Work' = [v |-> v, out |-> <<>>, h |-> h2]
  BY <1>9, <1>13 DEF V!Work, p
<1> DEFINE x == [v |-> v, out |-> <<>>, h |-> h2]
<1>15. Rest(o, x)
  <2>1. <<>> \in Seq(Piece) /\ o \o <<>> = o
    BY <1>11
  <2>2. x \in Jobs /\ x.v = v /\ x.out = <<>> /\ x.h = h2 /\ x.v.at = p
    BY <1>8, <1>12, <2>1 DEF Jobs, p
  <2> HIDE DEF x
  <2> QED
    BY <1>8, <1>12, <2>1, <2>2 DEF Rest, JobOK, Wholes, v
<1>16. speaks' \in V!None..End
  <2>1. History(h2, p)
    BY <1>12 DEF Remembered
  <2>2. p <= End
    <3>1. v.carry \in Nat
      BY <1>8, Lengths DEF Detector
    <3> QED
      BY <1>7, <1>10, <3>1, EndIs DEF v, p
  <2>3. V!None = -1 /\ End \in Nat
    BY Lengths DEF V!None
  <2>4. CASE h2.from = V!None
    BY <1>13, <2>3, <2>4
  <2>5. CASE h2.from # V!None
    <3>1. h2.from \in Nat /\ h2.end \in Nat /\ h2.from < h2.end /\ h2.end <= p
      BY <2>1, <2>5 DEF History
    <3> QED
      BY <1>10, <1>13, <2>2, <2>3, <3>1
  <2> QED
    BY <2>4, <2>5
<1>17. Rest(out', V!Work')
  BY <1>9, <1>14, <1>15
<1>18. /\ vad' \in Detector /\ DetectorOK(vad', vad'.at, MaxSegment) /\ vad'.at + vad'.carry <= End
       /\ out' \in Seq(Piece) /\ ReturnsOK(out', vad'.prev)
  BY <1>7, <1>8, <1>9, <1>11 DEF v, p
<1>19. \A s \in owed' : ~Met(out', s)
  BY <1>9, <1>12, <1>13
<1> QED
  BY <1>9, <1>16, <1>17, <1>18, <1>19 DEF DetectorHolds

(* What flush returns.                                                     *)
LEMMA LastBlock ==
  ASSUME NEW base \in Seq(Piece), NEW w, Rest(base, w), NEW kind \in V!Kinds, w.v.carry # 0, NEW x,
         x = V!Process(w, V!BlockAt(w.v.at, w.v.carry, kind))
  PROVE  /\ JobOK(base, MovedTo(x, 0, w.v.at + w.v.carry), w.v.at + w.v.carry, MaxSegment)
         /\ MovedTo(x, 0, w.v.at + w.v.carry).v.at = w.v.at + w.v.carry
         /\ MovedTo(x, 0, w.v.at + w.v.carry).v.carry = 0
<1> DEFINE c == w.v.carry
           p == w.v.at
           b == V!BlockAt(p, c, kind)
<1>1. c \in 1..Block - 1 /\ p \in Nat /\ JobOK(base, w, p, MaxSegment) /\ Wholes(w)
  <2>1. w.v \in Detector
    BY DEF Rest, JobOK, Jobs
  <2>2. c \in 0..Block - 1 /\ p \in Nat
    BY <2>1 DEF Detector
  <2>3. Block \in Nat
    BY Lengths
  <2> HIDE DEF c, p
  <2>4. c \in 1..Block - 1
    BY <2>2, <2>3 DEF c
  <2> QED
    BY <2>2, <2>4 DEF Rest, p
<1>2. Block \in Nat /\ c \in 1..Block /\ c \in Nat /\ 0 \in 0..Block - 1 /\ p + c \in Nat
  <2>1. c \in 1..Block - 1 /\ p \in Nat
    BY <1>1
  <2> HIDE DEF c, p
  <2> QED
    BY <2>1, BlockSize
<1>3. x = V!Process(w, b)
  OBVIOUS
<1> HIDE DEF p, c
<1>4. b \in Blks /\ b.start = p /\ V!BlockEnd(b) = p + c
  BY <1>1, <1>2, BlockIs
<1> HIDE DEF b
<1>5. JobOK(base, x, p + c, MaxSegment)
  BY <1>1, <1>3, <1>4, ProcessKeeps
<1>6. p + c \in Nat /\ 0 \in 0..Block - 1
  BY <1>2
<1> DEFINE q == p + c
<1> HIDE DEF q
<1>7. /\ JobOK(base, MovedTo(x, 0, q), q, MaxSegment)
      /\ MovedTo(x, 0, q).v.at = q /\ MovedTo(x, 0, q).v.carry = 0
  BY <1>5, <1>6, MoveKeeps DEF q
<1> QED
  BY <1>7 DEF p, c, q

LEMMA FlushHolds == DetectorHolds /\ V!Flush => DetectorHolds'
<1> SUFFICES ASSUME DetectorHolds, V!Flush PROVE DetectorHolds'
  OBVIOUS
<1>1. PICK kind \in V!Kinds :
        LET done == V!Process(V!Work, V!BlockAt(vad.at, vad.carry, kind))
            w == IF vad.carry = 0 THEN V!Work
                 ELSE [done EXCEPT !.v = [done.v EXCEPT !.carry = 0, !.at = vad.at + vad.carry]] IN
        V!Returns(IF w.v.seg = <<>> THEN w ELSE V!Close(w, V!BlockEnd(V!Last(w.v.seg))), TRUE)
  BY DEF V!Flush
<1> DEFINE done == V!Process(V!Work, V!BlockAt(vad.at, vad.carry, kind))
           p == vad.at + vad.carry
           w == IF vad.carry = 0 THEN V!Work ELSE MovedTo(done, 0, p)
           e == IF w.v.seg = <<>> THEN w ELSE V!Close(w, V!BlockEnd(V!Last(w.v.seg)))
<1>2. V!Returns(e, TRUE)
  BY <1>1 DEF MovedTo
<1>3. out \in Seq(Piece) /\ Rest(out, V!Work) /\ V!Work.v = vad /\ vad \in Detector /\ p <= End
  BY DEF DetectorHolds, V!Work, V!Flush
<1>4. vad.at \in Nat /\ vad.carry \in Nat /\ p \in Nat
  <2>1. vad.at \in Nat /\ vad.carry \in 0..Block - 1
    BY <1>3 DEF Detector
  <2>2. Block \in Nat
    BY Lengths
  <2> QED
    BY <2>1, <2>2
<1>5. JobOK(out, w, p, MaxSegment) /\ w.v.at = p /\ w.v.carry = 0
  <2>1. CASE vad.carry = 0
    <3>1. p = vad.at /\ w = V!Work
      BY <1>4, <2>1
    <3> QED
      BY <1>3, <2>1, <3>1 DEF Rest
  <2>2. CASE vad.carry # 0
    <3> HIDE DEF p
    <3>1. w = MovedTo(done, 0, p)
      BY <2>2
    <3>2. done = V!Process(V!Work, V!BlockAt(V!Work.v.at, V!Work.v.carry, kind)) /\ V!Work.v.carry # 0
          /\ p = V!Work.v.at + V!Work.v.carry
      BY <1>3, <2>2 DEF p
    <3> HIDE DEF w, done
    <3> QED
      BY <1>3, <3>1, <3>2, LastBlock
  <2> QED
    BY <2>1, <2>2
<1> HIDE DEF w, p
<1>6. /\ e \in Jobs /\ e.v.seg = <<>> /\ e.v.carry = 0 /\ e.v.at = p
      /\ DetectorOK(e.v, p, MaxSegment) /\ ReturnsOK(out \o e.out, e.v.prev)
      /\ AllMet(e.h, p, out \o e.out)
  <2>1. CASE w.v.seg = <<>>
    <3>1. e = w
      BY <2>1
    <3>2. /\ w \in Jobs /\ DetectorOK(w.v, p, MaxSegment)
          /\ ReturnsOK(out \o w.out, w.v.prev) /\ Remembered(w.h, w.v, p, out \o w.out)
      BY <1>5 DEF JobOK
    <3>3. AllMet(w.h, p, out \o w.out)
      BY <1>4, <2>1, <3>2, IdleAllMet
    <3> QED
      BY <1>5, <2>1, <3>1, <3>2, <3>3
  <2>2. CASE w.v.seg # <<>>
    <3>1. /\ V!BlockEnd(V!Last(w.v.seg)) = p /\ V!Close(w, p) \in Jobs
          /\ V!Close(w, p).v.seg = <<>> /\ V!Close(w, p).v.carry = 0 /\ V!Close(w, p).v.at = p
          /\ DetectorOK(V!Close(w, p).v, p, MaxSegment) /\ ReturnsOK(out \o V!Close(w, p).out, V!Close(w, p).v.prev)
          /\ AllMet(V!Close(w, p).h, p, out \o V!Close(w, p).out)
      BY <1>3, <1>4, <1>5, <2>2, CloseJob
    <3>2. e = V!Close(w, p)
      BY <2>2, <3>1
    <3> QED
      BY <3>1, <3>2
  <2> QED
    BY <2>1, <2>2
<1> HIDE DEF e
<1> DEFINE o == out \o e.out
<1>7. /\ vad' = e.v /\ out' = o /\ over' = TRUE
      /\ speaks' = NowOf(e.h, p, TRUE).from /\ owed' = LeftOf(e.h, p, TRUE, o)
  BY <1>2, <1>6 DEF V!Returns, NowOf, LeftOf
<1>8. e.h \in Hist
  BY <1>6 DEF Jobs
<1> HIDE DEF o
<1>9. AllMet(e.h, p, o) /\ o \in Seq(Piece) /\ ReturnsOK(o, e.v.prev)
  BY <1>6 DEF ReturnsOK, o
<1>10. speaks' = V!None /\ owed' = {}
  BY <1>4, <1>7, <1>8, <1>9, LastHist
<1>11. V!None \in V!None..End /\ p + 0 <= End
  BY <1>3, <1>4, EndIs DEF V!None
<1>12. vad' \in Detector /\ DetectorOK(vad', vad'.at, MaxSegment) /\ vad'.at + vad'.carry <= End
  <2>1. e.v \in Detector
    BY <1>6 DEF Jobs
  <2>2. e.v.at + e.v.carry = p + 0
    BY <1>6
  <2> QED
    BY <1>6, <1>7, <1>11, <2>1, <2>2
<1> QED
  BY <1>7, <1>9, <1>10, <1>11, <1>12 DEF DetectorHolds

LEMMA VadUnchanged == DetectorHolds /\ UNCHANGED V!vars => DetectorHolds'
BY DEF DetectorHolds, V!vars, Rest, JobOK, Wholes, V!Work

(* ... and what it is for.                                                 *)
LEMMA DetectorIsTrue == DetectorHolds => V!TypeOK /\ V!TimesAreTrue /\ V!Heard /\ V!NoLonger
<1> SUFFICES ASSUME DetectorHolds PROVE V!TypeOK /\ V!TimesAreTrue /\ V!Heard /\ V!NoLonger
  OBVIOUS
<1> DEFINE p == vad.at
<1>1. /\ vad \in Detector /\ DetectorOK(vad, p, MaxSegment) /\ p + vad.carry <= End /\ ReturnsOK(out, vad.prev)
      /\ over \in BOOLEAN /\ speaks \in V!None..End
  BY DEF DetectorHolds
<1>2. /\ p \in Nat /\ vad.carry \in 0..Block - 1 /\ vad.onset \in Nat /\ vad.last \in Nat /\ vad.prev \in Nat
      /\ Block \in Nat /\ Onset \in Nat /\ End \in Nat
  <2>1. /\ p \in Nat /\ vad.carry \in 0..Block - 1 /\ vad.onset \in Nat /\ vad.last \in Nat /\ vad.prev \in Nat
    BY <1>1 DEF Detector
  <2> QED
    BY <2>1, Lengths
<1>3. /\ Run(vad.seg, p) /\ Len(vad.ring) <= Preroll + Onset /\ vad.onset < Onset /\ vad.last <= p /\ vad.prev <= p
  BY <1>1 DEF DetectorOK
<1> HIDE DEF p
<1>4. p \in 0..End /\ vad.last \in 0..End /\ vad.prev \in 0..End /\ vad.onset \in 0..Onset - 1
  BY <1>1, <1>2, <1>3
<1>5. V!TypeOK
  BY <1>1, <1>2, <1>3, <1>4 DEF V!TypeOK, p
<1>6. ASSUME NEW s \in V!ToSet(out) PROVE Good(s)
  <2>1. PICK k \in DOMAIN out : s = out[k]
    BY DEF V!ToSet
  <2> QED
    BY <1>1, <2>1 DEF ReturnsOK
<1>7. V!TimesAreTrue
  <2>1. \A i \in 2..Len(out) : out[i - 1].end <= out[i].start
    BY <1>1 DEF ReturnsOK
  <2>2. ASSUME NEW s \in V!ToSet(out)
        PROVE  s.start < s.end /\ V!Gapless(s.audio) /\ s.end <= V!BlockEnd(V!Last(s.audio))
    BY <1>6 DEF Good, V!Last
  <2> QED
    BY <2>1, <2>2 DEF V!TimesAreTrue
<1>8. V!NoLonger
  BY <1>6 DEF V!NoLonger, Good
<1>9. ASSUME NEW s \in owed
      PROVE  ~over /\ vad.seg # <<>> /\ V!Meets(s, [start |-> vad.seg[1].start, end |-> V!BlockEnd(V!Last(vad.seg))])
  <2>1. ~over /\ Rest(out, V!Work) /\ ~Met(out, s)
    BY <1>9 DEF DetectorHolds
  <2>2. V!Work.h.owed = owed /\ V!Work.v = vad /\ V!Work.out = <<>> /\ V!Work.v.at = p /\ out \o V!Work.out = out
    BY DEF V!Work, DetectorHolds, p
  <2>3. Remembered(V!Work.h, vad, p, out)
    BY <2>1, <2>2 DEF Rest, JobOK
  <2>4. /\ s \in Stretch /\ s.start < s.end /\ vad.seg # <<>> /\ Held(vad.seg, s)
    BY <1>9, <2>1, <2>2, <2>3 DEF Remembered, History
  <2>5. PICK i \in DOMAIN vad.seg, j \in DOMAIN vad.seg :
            V!BlockEnd(vad.seg[j]) = s.end /\ s.start <= vad.seg[i].start
    BY <2>4 DEF Held
  <2> DEFINE a == vad.seg[i]
             b == vad.seg[j]
             z == vad.seg[1]
  <2>6. /\ a.start \in Nat /\ V!BlockEnd(a) \in Nat /\ a.start < V!BlockEnd(a) /\ V!BlockEnd(a) <= p
        /\ z.start \in Nat /\ z.start <= b.start /\ b.start \in Nat /\ b.start < V!BlockEnd(b)
        /\ V!BlockEnd(V!Last(vad.seg)) = p
    BY <1>3, RunSpan DEF V!Last
  <2>7. s.start \in Nat /\ s.end \in Nat /\ s.end = V!BlockEnd(b) /\ s.start <= a.start
    BY <2>4, <2>5 DEF Stretch
  <2> DEFINE t == [start |-> z.start, end |-> V!BlockEnd(V!Last(vad.seg))]
  <2>8. t.start = z.start /\ t.end = p
    BY <2>6
  <2> HIDE DEF a, b, z, t
  <2>9. s.start < t.end /\ t.start < s.end
    BY <1>2, <2>6, <2>7, <2>8
  <2> QED
    BY <2>1, <2>4, <2>9 DEF V!Meets, t, z
<1>10. V!Heard
  BY <1>9 DEF V!Heard
<1> QED
  BY <1>5, <1>7, <1>8, <1>10

LEMMA DetectorSteps == DetectorHolds /\ [V!Next]_(V!vars) => DetectorHolds'
BY FeedHolds, FlushHolds, VadUnchanged DEF V!Next

(* The segments of a channel: whatever the audio is, however it is cut into *)
(* pieces and wherever it jumps, they are as long as they may be, follow    *)
(* each other with the times they have in the archive, and hold whoever     *)
(* talks (live/vad.py, EnergyVAD).                                          *)
THEOREM SegmentsAreTrue == AllSpec => []SegmentsTrue
<1> DEFINE Inv == part = "vad" => DetectorHolds
           AllVars == <<part, vars, vvars, svars>>
<1>1. AllInit => Inv
  BY VadStarts DEF AllInit
<1>2. Inv /\ [AllNext]_AllVars => Inv'
  <2> SUFFICES ASSUME Inv, [AllNext]_AllVars, part' = "vad" PROVE DetectorHolds'
    OBVIOUS
  <2>1. part = "vad" /\ ([V!Next]_(V!vars))
    BY DEF AllNext, vvars, V!vars
  <2> QED
    BY <2>1, DetectorSteps
<1>3. Inv => SegmentsTrue
  BY DetectorIsTrue DEF SegmentsTrue
<1> QED
  BY <1>1, <1>2, <1>3, PTL DEF AllSpec
=============================================================================
