---------------------------- MODULE SourceTimeline ----------------------------
(* The interval arithmetic of a partial download (youtube_source.py) and of   *)
(* the map from a clip back to its source (clip_source_map.py). Times are     *)
(* milliseconds.                                                              *)
EXTENDS Integers, Sequences, SequencesExt, FiniteSetsExt

Range2(a, b) == [from |-> a, to |-> b]
Larger(a, b)  == IF a >= b THEN a ELSE b
Smaller(a, b) == IF a <= b THEN a ELSE b
Distance(a, b) == Larger(a, b) - Smaller(a, b)
Earlier(r, q) == r.from < q.from \/ (r.from = q.from /\ r.to <= q.to)
Length2(r) == r.to - r.from
Overlap(r, q) == Larger(0, Smaller(r.to, q.to) - Larger(r.from, q.from))
Total(seq) == FoldLeft(LAMBDA sum, r : sum + Length2(r), 0, seq)

(***************************************************************************)
(* What to download.                                                       *)
(***************************************************************************)
\* Padded, clamped to the media (duration 0: unknown), sorted, and merged where
\* they touch.
MergeRanges(ranges, padding, duration) ==
    LET clip(r) == Range2(Larger(0, r.from - padding),
                          IF duration > 0 THEN Smaller(r.to + padding, duration) ELSE r.to + padding)
        padded == {q \in {clip(r) : r \in {x \in ranges : x.to > x.from}} : q.to > q.from}
        join(acc, r) ==
            IF acc = <<>> \/ r.from > Last(acc).to THEN Append(acc, r)
            ELSE Append(Front(acc), Range2(Last(acc).from, Larger(Last(acc).to, r.to)))
    IN FoldLeft(join, <<>>, SetToSortSeq(padded, Earlier))

\* The parts of needed no cached range covers; a last part under 50 ms is let go.
MissingIntervals(cached, needed) ==
    LET have == SetToSortSeq({c \in cached : c.to > c.from}, Earlier)
        gapsOf(n) ==
            LET pass(acc, c) ==
                    IF c.to <= acc.cursor \/ c.from >= n.to \/ acc.cursor >= n.to THEN acc
                    ELSE [cursor |-> Larger(acc.cursor, c.to),
                          gaps |-> acc.gaps \cup (IF c.from > acc.cursor
                                                  THEN {Range2(acc.cursor, Smaller(c.from, n.to))} ELSE {})]
                done == FoldLeft(pass, [cursor |-> n.from, gaps |-> {}], have)
            IN done.gaps \cup (IF done.cursor < n.to - 50 THEN {Range2(done.cursor, n.to)} ELSE {})
    IN MergeRanges(UNION {gapsOf(n) : n \in ToSet(needed)}, 0, 0)

(***************************************************************************)
(* What to render: a cover of each needed range by cached pieces.          *)
(***************************************************************************)
\* Greedy: the piece that reaches furthest from at most 250 ms past the cursor.
\* An empty cover is a failure.
CoverPieces(pieces, start, end) ==
    LET cover[cursor \in Int] ==
            LET candidates == {p \in pieces : p.from <= cursor + 250 /\ p.to > cursor + 50}
                best == CHOOSE p \in candidates : \A q \in candidates :
                            q.to < p.to \/ (q.to = p.to /\ p.from <= q.from)
                rest == cover[best.to]
            IN IF cursor >= end - 50 \/ candidates = {} THEN <<>>
               ELSE IF best.to >= end - 50 THEN <<best>>
               ELSE IF rest = <<>> THEN <<>> ELSE <<best>> \o rest
    IN cover[start]

PlanSlices(chosen, start, end) ==
    LET take(acc, p) ==
            LET slice == Range2(Larger(p.from, acc.cursor), Smaller(p.to, end))
            IN IF acc.cursor >= end - 50 \/ slice.to <= slice.from THEN acc
               ELSE [cursor |-> slice.to, slices |-> Append(acc.slices, slice)]
        done == FoldLeft(take, [cursor |-> start, slices |-> <<>>], chosen)
    IN IF done.cursor < end - 50 THEN <<>> ELSE done.slices

\* A slice starts where the previous one ended, and slivers are dropped.
WithoutOverlap(slices) ==
    LET keep(acc, s) ==
            LET cut == IF acc # <<>> /\ Last(acc).to > s.from THEN Range2(Last(acc).to, s.to) ELSE s
            IN IF cut.to <= cut.from + 50 THEN acc ELSE Append(acc, cut)
    IN FoldLeft(keep, <<>>, slices)

Covered(pieces, needed) == \A i \in DOMAIN needed : CoverPieces(pieces, needed[i].from, needed[i].to) # <<>>

Slices(pieces, needed) ==
    WithoutOverlap(FlattenSeq([i \in DOMAIN needed |->
        PlanSlices(CoverPieces(pieces, needed[i].from, needed[i].to), needed[i].from, needed[i].to)]))

(***************************************************************************)
(* The time map of the render file: source spans laid end to end.          *)
(***************************************************************************)
BuildTimeMap(slices) ==
    LET lay(acc, s) ==
            IF s.to <= s.from THEN acc
            ELSE [local |-> acc.local + Length2(s),
                  spans |-> Append(acc.spans, [from |-> s.from, to |-> s.to, local |-> acc.local])]
    IN FoldLeft(lay, [local |-> 0, spans |-> <<>>], slices).spans

LocalEnd(span) == span.local + Length2(span)
Contains2(map, t) == \E i \in DOMAIN map : map[i].from <= t /\ t <= map[i].to

\* The first span that satisfies a test, or that is nearest by a distance.
FirstSpan(map, Test(_)) == map[Min({i \in DOMAIN map : Test(map[i])})]
Nearest(map, dist(_)) ==
    map[CHOOSE i \in DOMAIN map : \A j \in DOMAIN map :
            dist(map[i]) < dist(map[j]) \/ (dist(map[i]) = dist(map[j]) /\ i <= j)]

\* Variant: a time after its nearest span is put at the start of it.
ToLocalStart(map, t) ==
    IF Contains2(map, t)
    THEN LET s == FirstSpan(map, LAMBDA x : x.from <= t /\ t <= x.to) IN s.local + (t - s.from)
    ELSE IF map = <<>> THEN t
    ELSE Nearest(map, LAMBDA x : Smaller(Distance(t, x.from), Distance(t, x.to))).local

ToLocal(map, t) ==
    IF Contains2(map, t)
    THEN LET s == FirstSpan(map, LAMBDA x : x.from <= t /\ t <= x.to) IN s.local + (t - s.from)
    ELSE IF map = <<>> THEN t
    ELSE LET s == Nearest(map, LAMBDA x : Smaller(Distance(t, x.from), Distance(t, x.to)))
         IN IF t < s.from THEN s.local ELSE LocalEnd(s)

ToLocalRanges(map, ranges) ==
    SelectSeq([i \in DOMAIN ranges |-> Range2(ToLocal(map, ranges[i].from), ToLocal(map, ranges[i].to))],
              LAMBDA r : r.to > r.from)

\* A local range that crosses a seam becomes one source range per span.
ToOriginalRanges(map, ranges) ==
    LET part(r, s) == LET a == Larger(r.from, s.local)
                          b == Smaller(r.to, LocalEnd(s))
                      IN IF b > a THEN <<Range2(s.from + a - s.local, s.from + b - s.local)>> ELSE <<>>
    IN IF map = <<>> THEN SelectSeq(ranges, LAMBDA r : r.to > r.from)
       ELSE FlattenSeq([i \in DOMAIN ranges |->
                FlattenSeq([j \in DOMAIN map |-> part(ranges[i], map[j])])])

\* A word is kept when its middle is in a span; its ends are mapped on their own.
ShiftWords(words, map) ==
    LET kept == SelectSeq(words, LAMBDA w : \E i \in DOMAIN map :
                    2 * map[i].from <= w.from + w.to /\ w.from + w.to <= 2 * map[i].to)
    IN [i \in DOMAIN kept |-> [kept[i] EXCEPT !.from = ToLocal(map, @), !.to = ToLocal(map, @)]]

(***************************************************************************)
(* Properties.                                                             *)
(***************************************************************************)
\* materialize_clip_source: filling the gaps makes every needed range renderable,
\* and the render file then shows the source: time never runs backwards, a range
\* cut from the file is cut from that range of the source and misses no more of it
\* than the 300 ms a cover may skip at each of its pieces, and the words carried
\* over stay in order, inside the file and no longer than they were.
RenderFollowsSource(pieces, ranges, padding, duration, words) ==
    LET needed == MergeRanges(ranges, padding, duration)
        all == pieces \cup ToSet(MissingIntervals(pieces, needed))
        map == BuildTimeMap(Slices(all, needed))
        planned == {r \in ranges : duration = 0 \/ r.to <= duration}
        times == UNION {{r.from, (r.from + r.to) \div 2, r.to} : r \in planned}
        shifted == ShiftWords(words, map)
    IN (\A i \in DOMAIN needed : Length2(needed[i]) > 50) =>
        /\ Covered(all, needed)
        /\ \A t, u \in times : t <= u => ToLocal(map, t) <= ToLocal(map, u)
        /\ \A r \in planned :
             LET back == ToOriginalRanges(map, ToLocalRanges(map, <<r>>))
             IN /\ \A i \in DOMAIN back : r.from <= back[i].from /\ back[i].to <= r.to
                /\ Total(back) = ToLocal(map, r.to) - ToLocal(map, r.from)
                /\ Total(back) >= Length2(r) - 300 * (Cardinality(pieces) + 1)
        /\ \A i \in DOMAIN shifted :
             /\ 0 <= shifted[i].from /\ shifted[i].from <= shifted[i].to /\ shifted[i].to <= Total(map)
             /\ i > 1 => shifted[i - 1].to <= shifted[i].from
        /\ Len(shifted) >= Cardinality({i \in DOMAIN words : \E r \in planned :
                              r.from + 300 <= words[i].from /\ words[i].to <= r.to /\ pieces = {}})
=============================================================================
