---------------------------------- MODULE Vad ----------------------------------
(***************************************************************************)
(* Where somebody starts and stops talking on one channel of a call        *)
(* (live/vad.py, EnergyVAD): audio arrives in pieces of any size, is cut   *)
(* into blocks, and blocks of speech are gathered into segments for the    *)
(* live transcript.  A jump in the archive's timeline counts as silence.   *)
(*                                                                         *)
(* Lengths and positions are samples.  Whether a block of audio is speech, *)
(* which the adaptive noise floor decides, and how loud it is, are choices *)
(* of the block; zeros are never speech, and speech is louder than what is *)
(* not: that the floor may rise within a segment, by a few dB, is left out.*)
(***************************************************************************)
EXTENDS Integers, Sequences, SequencesExt, FiniteSetsExt

CONSTANTS
    Block, Onset, Preroll,      \* samples of a block; blocks of onset and preroll
    MinSegment, MaxSegment,     \* a segment is closed at a pause from the one on,
    Silence, ShortFlush,        \* ... a pause being Silence, ShortFlush if it is shorter,
    KeepTail, MinSpeech,        \* keeps KeepTail of it, and is a click under MinSpeech of speech
    SplitSearch,                \* and is split in the last SplitSearch at MaxSegment
    MaxFeed, MaxGap, End        \* bounds: a piece, a gap, the call

(* What the segments rest on, and what the defaults of EnergyVAD and       *)
(* config/asr.yaml make of it: a ring is no longer than a segment may be,  *)
(* and a split that halves a stretch of speech leaves one half long enough.*)
VadConstants ==
    /\ {Block, Onset, MinSegment, MaxSegment, Silence, MinSpeech, SplitSearch} \subseteq Nat \ {0}
    /\ {Preroll, KeepTail, MaxFeed, MaxGap, End} \subseteq Nat /\ ShortFlush >= Silence
    /\ (Preroll + Onset) * Block <= MaxSegment      \* 0.26 s and 12 s, in the code
    /\ 2 * (MinSpeech + Block) <= SplitSearch + 2   \* 0.56 s and 3 s
    /\ 2 * MinSpeech + Block <= MaxSegment + 1      \* 0.53 s and 12 s

VARIABLES
    vad,        \* the EnergyVAD
    out,        \* the segments feed and flush have returned, oldest first
    talk,       \* history: where the stretch of speech that goes on began, or None
    owed,       \* history: stretches that ended and are in no segment returned
    over        \* flush was called

vars == <<vad, out, talk, owed, over>>

None == -1
Quiet == [speech |-> FALSE, db |-> 0]
Kinds == {Quiet, [speech |-> TRUE, db |-> 1], [speech |-> TRUE, db |-> 2]}

Init ==
    /\ vad = [ring |-> <<>>, onset |-> 0, seg |-> <<>>, last |-> 0, prev |-> 0, carry |-> 0, at |-> 0]
    /\ out = <<>> /\ talk = None /\ owed = {} /\ over = FALSE

(* feed, _gap and flush work on the detector, what they return so far, and *)
(* what the histories are told of every block.                             *)
Work == [v |-> vad, out |-> <<>>, h |-> [from |-> talk, end |-> vad.at, owed |-> owed]]

BlockAt(start, len, kind) == [start |-> start, len |-> len, speech |-> kind.speech, db |-> kind.db]
BlockEnd(b) == b.start + b.len
Spoken(bs)  ==
    LET sum[i \in 0..Len(bs)] == IF i = 0 THEN 0
                                 ELSE IF bs[i].speech THEN sum[i - 1] + bs[i].len ELSE sum[i - 1]
    IN  sum[Len(bs)]
EnoughSlip(bs) == Spoken(bs) >= MinSegment
Enough(bs) == Spoken(bs) >= MinSpeech
Segment(bs, end) == [start |-> bs[1].start, end |-> end, audio |-> bs]

----------------------------------------------------------------------------
(* The histories.  A stretch of speech lasts while its blocks follow each  *)
(* other; it is owed a segment once it is long enough to be speech.        *)
Meets(s, t) == s.start < t.end /\ t.start < s.end
Long(s) == s.end - s.start >= Max({MinSpeech, Onset * Block})

Ended(h, end) ==
    LET s == [start |-> h.from, end |-> end] IN
    [from |-> None, end |-> None, owed |-> IF h.from # None /\ Long(s) THEN h.owed \cup {s} ELSE h.owed]
Hears(h, b) ==
    LET g == IF h.from # None /\ (~b.speech \/ b.start # h.end) THEN Ended(h, h.end) ELSE h IN
    IF b.speech THEN [g EXCEPT !.from = IF g.from = None THEN b.start ELSE g.from, !.end = BlockEnd(b)] ELSE g

----------------------------------------------------------------------------
(* _close: up to a little after the last speech.                           *)
ClosedEnd(v, at) == Min({at, v.last + KeepTail})
Close(w, at) ==
    LET v == w.v  end == ClosedEnd(v, at) IN
    [w EXCEPT !.v = [v EXCEPT !.seg = <<>>, !.prev = end],
              !.out = IF Enough(v.seg) /\ end > v.seg[1].start
                      THEN Append(w.out, Segment(v.seg, end)) ELSE w.out]

(* _split: at the first of the quietest of its last blocks, never the last.*)
Cut(bs) ==
    LET late == {i \in 1..Len(bs) - 1 : bs[i].start >= BlockEnd(Last(bs)) - SplitSearch}
        best == {i \in late : \A j \in late : bs[i].db <= bs[j].db} IN
    IF late = {} THEN Len(bs) ELSE Min(best)

Split(w) ==
    LET bs == w.v.seg  i == Cut(bs)
        head == SubSeq(bs, 1, i)  rest == SubSeq(bs, i + 1, Len(bs))
        spoken == {BlockEnd(b) : b \in {b \in ToSet(rest) : b.speech}} IN
    [w EXCEPT !.v = [w.v EXCEPT !.prev = BlockEnd(bs[i]),
                                !.seg = IF spoken # {} THEN rest ELSE <<>>,
                                !.last = IF spoken # {} THEN Max(spoken) ELSE w.v.last],
              !.out = IF Enough(head) THEN Append(w.out, Segment(head, BlockEnd(bs[i]))) ELSE w.out]

(* _process.  A segment starts with the blocks before it that no segment   *)
(* had.                                                                    *)
FromRingSlip(ring, prev) == ring
FromRing(ring, prev) ==
    LET fit[i \in 0..Len(ring)] == IF i = 0 THEN <<>>
                                   ELSE IF ring[i].start >= prev THEN Append(fit[i - 1], ring[i])
                                   ELSE fit[i - 1]
    IN  fit[Len(ring)]

Ring(ring, b) == LET r == Append(ring, b) IN SubSeq(r, Max({1, Len(r) - Preroll - Onset + 1}), Len(r))
Gather(w, b) ==
    LET v == w.v
        ring == Ring(v.ring, b)
        onset == IF b.speech THEN v.onset + 1 ELSE 0
        seg == Append(v.seg, b)
        last == IF b.speech THEN BlockEnd(b) ELSE v.last
        silent == BlockEnd(b) - last
        kept == [w EXCEPT !.v = [v EXCEPT !.ring = ring, !.seg = seg, !.last = last]] IN
    IF v.seg = <<>>
    THEN IF onset < Onset
         THEN [w EXCEPT !.v = [v EXCEPT !.ring = ring, !.onset = onset]]
         ELSE [w EXCEPT !.v = [v EXCEPT !.ring = ring, !.onset = 0,
                                        !.seg = FromRing(ring, v.prev), !.last = BlockEnd(b)]]
    ELSE IF silent >= Silence /\ (last - seg[1].start >= MinSegment \/ silent >= ShortFlush)
         THEN Close(kept, BlockEnd(b))
    ELSE IF BlockEnd(b) - seg[1].start >= MaxSegment THEN Split(kept)
    ELSE kept

Process(w, b) == [Gather(w, b) EXCEPT !.h = Hears(w.h, b)]

(* feed, without `start`: n samples; kinds says what the blocks they fill  *)
(* turn out to be.                                                         *)
Blocks(v, n) == (v.carry + n) \div Block
Take(w, n, kinds) ==
    LET at(i) == w.v.at + i * Block
        done[i \in 0..Blocks(w.v, n)] ==
            IF i = 0 THEN w ELSE Process(done[i - 1], BlockAt(at(i - 1), Block, kinds[i]))
        all == done[Blocks(w.v, n)] IN
    [all EXCEPT !.v = [all.v EXCEPT !.carry = (w.v.carry + n) % Block, !.at = at(Blocks(w.v, n))]]

(* _gap: n samples that never came.  The block that was begun is filled up *)
(* with zeros; a short gap inside speech is fed as zeros, a longer one     *)
(* ends the segment and forgets what came before it.                       *)
Zeros(n) == [i \in 1..n |-> Quiet]
ForgetSlip(v) == [v EXCEPT !.onset = 0]
Forget(v) == [v EXCEPT !.ring = <<>>, !.onset = 0]

Jump(w, n) == [w EXCEPT !.v = [Forget(w.v) EXCEPT !.at = w.v.at + n]]
Gap(w, n, kind) ==
    LET fill == IF w.v.carry = 0 THEN 0 ELSE Min({Block - w.v.carry, n})
        f == Take(w, fill, <<kind>>)
        m == n - fill
        silent == BlockEnd(Last(f.v.seg)) - f.v.last IN
    IF m = 0 THEN f
    ELSE IF f.v.seg = <<>> THEN Jump(f, m)
    ELSE IF silent + m < ShortFlush THEN Take(f, m, Zeros(m))
    ELSE Jump(Close(f, BlockEnd(Last(f.v.seg))), m)

Returns(w, isOver) ==
    LET now == IF w.h.from # None /\ (isOver \/ w.h.end # w.v.at) THEN Ended(w.h, w.h.end) ELSE w.h IN
    /\ vad' = w.v /\ out' = out \o w.out /\ over' = isOver
    /\ talk' = now.from
    /\ owed' = {s \in now.owed : \A t \in ToSet(out') : ~Meets(s, t)}

(* EnergyVAD.feed: a piece of n samples, after a gap of g.                 *)
Feed ==
    \E n \in 1..MaxFeed, g \in 0..MaxGap, kind \in Kinds :
        /\ ~over /\ vad.at + vad.carry + g + n <= End
        /\ LET jumped == IF g = 0 THEN Work ELSE Gap(Work, g, kind) IN
           \E kinds \in [1..Blocks(jumped.v, n) -> Kinds] : Returns(Take(jumped, n, kinds), FALSE)

(* EnergyVAD.flush, when the capture ends: what is left is a block too.    *)
Flush ==
    /\ ~over
    /\ \E kind \in Kinds :
        LET done == Process(Work, BlockAt(vad.at, vad.carry, kind))
            w == IF vad.carry = 0 THEN Work
                 ELSE [done EXCEPT !.v = [done.v EXCEPT !.carry = 0, !.at = vad.at + vad.carry]] IN
        Returns(IF w.v.seg = <<>> THEN w ELSE Close(w, BlockEnd(Last(w.v.seg))), TRUE)

Next == Feed \/ Flush
Spec == Init /\ [][Next]_vars

----------------------------------------------------------------------------
TypeOK ==
    /\ vad.carry \in 0..Block - 1 /\ vad.at \in 0..End /\ vad.last \in 0..End /\ vad.prev \in 0..End
    /\ vad.onset \in 0..Onset - 1 /\ Len(vad.ring) <= Preroll + Onset
    /\ talk \in None..End /\ over \in BOOLEAN

(* The segments of a channel follow each other without a sample in two of  *)
(* them, and the audio of each is what the archive holds at its times:     *)
(* blocks without a hole, from its start to its end at least.              *)
Gapless(bs) == \A i \in 2..Len(bs) : bs[i].start = BlockEnd(bs[i - 1])
TimesAreTrue ==
    /\ \A i \in 2..Len(out) : out[i - 1].end <= out[i].start
    /\ \A s \in ToSet(out) : s.start < s.end /\ Gapless(s.audio) /\ s.end <= BlockEnd(Last(s.audio))

(* Whoever talks long enough is heard: a stretch of speech is in a segment *)
(* that was returned or, before the end, in the one that is open.          *)
Heard ==
    \A s \in owed : /\ ~over /\ vad.seg # <<>>
                    /\ Meets(s, [start |-> vad.seg[1].start, end |-> BlockEnd(Last(vad.seg))])

(* No segment is longer than the longest that may be.                      *)
NoLonger == \A s \in ToSet(out) : s.end - s.start <= MaxSegment + Block
=============================================================================
