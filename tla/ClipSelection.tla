---------------------------- MODULE ClipSelection ----------------------------
(* From the transcript to the plan: windows, the model's segments validated   *)
(* against the transcript, duplicates, ranking (ai.py), and the review of     *)
(* each opening (clip_openings.py). Plans are in whole seconds, words in      *)
(* milliseconds.                                                              *)
(*                                                                            *)
(* A line is [from, to]. A segment is [from, to, scores, relevance, hook],    *)
(* with its four subscores; the model may answer anything.                    *)
EXTENDS ClipCuts

ClipLengths ==
    [auto   |-> [min |-> 15, max |-> 60,  idealMin |-> 25, idealMax |-> 50],
     short  |-> [min |-> 15, max |-> 30,  idealMin |-> 18, idealMax |-> 25],
     medium |-> [min |-> 30, max |-> 60,  idealMin |-> 35, idealMax |-> 55],
     long   |-> [min |-> 60, max |-> 120, idealMin |-> 75, idealMax |-> 110]]

Sum4(scores) == scores[1] + scores[2] + scores[3] + scores[4]

\* The element of a sequence with the least key, the first of those.
Least(seq, key(_)) ==
    seq[CHOOSE i \in DOMAIN seq : \A j \in DOMAIN seq :
            key(seq[i]) < key(seq[j]) \/ (key(seq[i]) = key(seq[j]) /\ i <= j)]

\* A stable sort, the best first.
BestFirst(seq, better(_, _)) ==
    LET order == SetToSortSeq(DOMAIN seq, LAMBDA i, j :
                    better(seq[i], seq[j]) \/ (~better(seq[j], seq[i]) /\ i < j))
    IN [k \in DOMAIN seq |-> seq[order[k]]]

(***************************************************************************)
(* Windows.                                                                *)
(***************************************************************************)
\* Windows of 12 minutes that overlap by two; a short remainder joins the one
\* before it. A transcript under 15 minutes is one window.
WindowBounds(total) ==
    LET n == (total - 720 + 599) \div 600      \* windows that end before the end
        full == [i \in 1..(n + 1) |-> Range2((i - 1) * 600, Smaller((i - 1) * 600 + 720, total))]
    IN IF total <= 900 THEN <<Range2(0, total)>>
       ELSE IF n > 0 /\ Length2(Last(full)) < 360 THEN Append(SubSeq(full, 1, n - 1), Range2(full[n].from, total))
       ELSE full

Windows(lines) ==
    LET total == Max({0} \cup {lines[i].to : i \in DOMAIN lines} \cup {lines[i].from : i \in DOMAIN lines})
        bounds == WindowBounds(total)
        within(l, k) == bounds[k].from <= l.from
                        /\ (l.from < bounds[k].to \/ (k = Len(bounds) /\ l.from <= bounds[k].to))
    IN IF Len(bounds) = 1 THEN <<lines>>
       ELSE SelectSeq([k \in DOMAIN bounds |-> SelectSeq(lines, LAMBDA l : within(l, k))], LAMBDA w : w # <<>>)

(***************************************************************************)
(* Validation.                                                             *)
(***************************************************************************)
\* _snap_bounds_to_transcript_lines: bounds near a line's become the line's.
Snap(lines, from, to) ==
    LET first == Least(lines, LAMBDA l : Distance(l.from, from) * 100000 + l.from)
        later == SelectSeq(lines, LAMBDA l : l.to > first.from)
        last == Least(later, LAMBDA l : Distance(l.to, to) * 100000 - l.to)
    IN IF lines = <<>> THEN Range2(from, to)
       ELSE IF Distance(first.from, from) > 8 \/ later = <<>> THEN Range2(from, to)
       ELSE IF Distance(last.to, to) > 8 THEN Range2(from, to)
       ELSE Range2(first.from, last.to)

\* _choose_repaired_bounds: a segment of the wrong length is cut at, or grown
\* to, the lines around it; the empty set when that is impossible.
Repaired(lines, seg, length) ==
    LET spans == {lines[i] : i \in {j \in DOMAIN lines : lines[j].to > lines[j].from}}
        ends == {s.to : s \in spans}
        target == seg.from + length.idealMax
        cuts == {e \in ends : seg.from + length.min <= e /\ e <= Smaller(target, seg.to)}
        grown == {r \in {Range2(s.from, e) : s \in spans, e \in ends} :
                    r.from <= seg.from /\ r.to >= seg.to /\ Length2(r) \in length.min..length.max}
        penalty(r) == (IF Length2(r) < length.idealMin THEN length.idealMin - Length2(r)
                       ELSE Larger(0, Length2(r) - length.idealMax)) * 1000
                      + (seg.from - r.from) + (r.to - seg.to)
        cheapest == {r \in grown : \A q \in grown : penalty(r) < penalty(q)
                        \/ (penalty(r) = penalty(q) /\ Earlier(r, q))}
    IN IF spans = {} THEN {}
       ELSE IF Length2(seg) > length.max
            THEN {Range2(seg.from, IF cuts # {} THEN Max(cuts) ELSE target)}
       ELSE IF Length2(seg) < length.min THEN cheapest
       ELSE {}

\* The text of a segment is read from the first line with its start to the line
\* with its end.
Grounded(lines, r) ==
    LET starts == {i \in DOMAIN lines : lines[i].from = r.from}
    IN starts # {} /\ \E j \in Min(starts)..Len(lines) : lines[j].to = r.to

HookInside(r, hook) == r.from < hook.from /\ hook.from < hook.to /\ hook.to <= r.to /\ Length2(hook) <= 8

ValidBounds(lines, seg, length) ==
    LET snapped == Snap(lines, seg.from, seg.to)
        wrong == Length2(snapped) < length.min \/ length.max < Length2(snapped)
    IN IF wrong /\ Repaired(lines, snapped, length) # {}
       THEN LET r == CHOOSE q \in Repaired(lines, snapped, length) : TRUE IN Snap(lines, r.from, r.to)
       ELSE snapped

Validated(lines, segs, length) ==
    LET bound(s) == ValidBounds(lines, s, length)
        good == SelectSeq(segs, LAMBDA s :
                    /\ s.from # s.to
                    /\ Length2(bound(s)) \in length.min..length.max /\ Length2(bound(s)) > 0
                    /\ Grounded(lines, bound(s)))
    IN [i \in DOMAIN good |->
          [good[i] EXCEPT !.from = bound(good[i]).from, !.to = bound(good[i]).to,
                          !.hook = IF HookInside(bound(good[i]), @) THEN @ ELSE Range2(0, 0)]]

(***************************************************************************)
(* Duplicates and ranking.                                                 *)
(***************************************************************************)
HalfOverlaps(r, q) == 2 * Overlap(r, q) > Smaller(Length2(r), Length2(q))

Better(s, t) == Sum4(s.scores) > Sum4(t.scores)
                \/ (Sum4(s.scores) = Sum4(t.scores) /\ s.relevance > t.relevance)

\* Variant: duplicates are dropped in the order the windows found them.
DedupeAsFound(segs) ==
    FoldLeft(LAMBDA kept, s : IF \E i \in DOMAIN kept : HalfOverlaps(s, kept[i]) THEN kept ELSE Append(kept, s),
             <<>>, segs)

Dedupe(segs) ==
    FoldLeft(LAMBDA kept, s : IF \E i \in DOMAIN kept : HalfOverlaps(s, kept[i]) THEN kept ELSE Append(kept, s),
             <<>>, BestFirst(segs, Better))

\* _rescale_virality: the subscores keep their proportions, none passes 25, and
\* what rounding left over goes to the largest fractions first.
Distribute(scores, order, rest) ==
    LET give(acc, i) == IF acc.rest > 0 /\ acc.scores[i] < 25
                        THEN [scores |-> [acc.scores EXCEPT ![i] = @ + 1], rest |-> acc.rest - 1] ELSE acc
        pass[acc \in [scores : [1..4 -> Int], rest : Int]] ==
            LET done == FoldLeft(give, acc, order)
            IN IF acc.rest <= 0 \/ done.rest = acc.rest THEN acc.scores ELSE pass[done]
    IN pass[[scores |-> scores, rest |-> rest]]

Rescale(scores, wanted) ==
    LET total == Larger(0, Smaller(100, wanted))
        old == IF Sum4(scores) > 0 THEN Sum4(scores) ELSE 4
        share == [i \in 1..4 |-> (IF Sum4(scores) > 0 THEN scores[i] ELSE 1) * total]
        rounded == [i \in 1..4 |-> Smaller(25, share[i] \div old)]
        order == BestFirst(<<1, 2, 3, 4>>, LAMBDA i, j : share[i] % old > share[j] % old)
    IN Distribute(rounded, order, total - Sum4(rounded))

\* apply_candidate_ranking: the answer's order, then what it left out; no score
\* passes the one before it. Unknown and repeated ids are ignored.
ApplyRanking(candidates, ranking) ==
    LET ids == FoldLeft(LAMBDA acc, r : IF r.id \in DOMAIN candidates /\ ~Contains(acc, r.id)
                                        THEN Append(acc, r.id) ELSE acc, <<>>, ranking)
        scoreOf(id) == SelectSeq(ranking, LAMBDA r : r.id = id)[1].score
        rest == SelectSeq([i \in DOMAIN candidates |-> i], LAMBDA i : ~Contains(ids, i))
        place(acc, id) ==
            LET ceiling == Smaller(acc.ceiling,
                                   IF Contains(ids, id) THEN scoreOf(id) ELSE Sum4(candidates[id].scores))
            IN [ceiling |-> ceiling,
                segs |-> Append(acc.segs, [candidates[id] EXCEPT !.scores = Rescale(@, ceiling)])]
    IN IF ids = <<>> THEN candidates
       ELSE FoldLeft(place, [ceiling |-> 100, segs |-> <<>>], ids \o rest).segs

\* max_final_clips_for_duration: one clip for every five minutes, five at least.
ClipLimit(seconds, maxClips) ==
    LET ceiling == Larger(1, Smaller(20, maxClips))
    IN Larger(Smaller(5, ceiling), Smaller(ceiling, (seconds + 299) \div 300))

\* get_most_relevant_parts_by_transcript, given what the model answered for each
\* window that did not fail. A failed ranking leaves the order as it is.
Plan(lines, answers, ranking, length, maxClips) ==
    LET candidates == Dedupe(FlattenSeq([w \in DOMAIN answers |-> Validated(lines, answers[w], length)]))
        ranked == IF Len(Windows(lines)) > 1 /\ Len(candidates) >= 2 THEN ApplyRanking(candidates, ranking)
                  ELSE candidates
        limit == ClipLimit(Max({0} \cup {lines[i].to : i \in DOMAIN lines}), maxClips)
    IN SubSeq(ranked, 1, Smaller(Len(ranked), Smaller(24, 2 * limit)))

(***************************************************************************)
(* Openings. A sentence is the range of the indices of its words; a word   *)
(* of kind "dangling" (but, because, which means) opens on what came       *)
(* before it.                                                              *)
(***************************************************************************)
Sentences(ws, first, last) ==
    LET stops == {i \in first..last : Ends(ws[i]) \/ i = last}
        openingOf(i) == Max({first} \cup {j + 1 : j \in {k \in stops : k < i}})
    IN [k \in 1..Cardinality(stops) |->
          LET i == CHOOSE j \in stops : Cardinality({x \in stops : x <= j}) = k IN Range2(openingOf(i), i)]

Content(ws, s) == SelectSeq(SubSeq(ws, s.from, s.to), LAMBDA w : w.kind # "filler")
Dangling(ws, s) == Content(ws, s) # <<>> /\ Content(ws, s)[1].kind = "dangling"

\* Leading sentences of at most two words, unless they are all there is or one
\* alone of two words.
LeadingFragments(ws, sentences) ==
    LET long == {k \in DOMAIN sentences : Len(Content(ws, sentences[k])) > 2}
        short == IF long = {} THEN Len(sentences) ELSE Min(long) - 1
    IN IF short = Len(sentences) \/ (short = 1 /\ Len(Content(ws, sentences[1])) > 1) THEN 0 ELSE short

\* _classify: the sentences to skip, and what is wrong.
Classify(ws, sentences) ==
    LET short == LeadingFragments(ws, sentences)
        dangles == short < Len(sentences) /\ Dangling(ws, sentences[short + 1])
        brief == dangles /\ Len(Content(ws, sentences[short + 1])) <= 6
    IN [skip |-> IF brief THEN short + 1 ELSE short, issue |-> short > 0 \/ dangles, long |-> dangles /\ ~brief]

\* Variant: the word's second, rounded down, without asking where it snaps.
LabelsRounded(ws, target) == {ws[target].from \div 1000}

\* The whole second a clip must start at for its render to open on a word.
Labels(ws, target) ==
    {l \in {ws[target].from \div 1000, ws[target].from \div 1000 + 1} :
        SentenceStartIndex(ws, l * 1000, SnapWindow) = target}

NoReview == [issue |-> FALSE, labels |-> {}, target |-> 0, penalise |-> FALSE]

\* review_opening, on the words from ten seconds before the clip to its end.
ReviewOpening(ws, start, end, min) ==
    LET opening == SentenceStartIndex(ws, start * 1000, SnapWindow)
        body == {i \in opening..Len(ws) : ws[i].from < end * 1000}
        sentences == Sentences(ws, opening, Max(body))
        verdict == Classify(ws, sentences)
        target == sentences[verdict.skip + 1].from
        trimmable == /\ verdict.skip < Len(sentences) /\ verdict.skip <= 5
                     /\ target - opening <= 12
                     /\ ws[target].from - ws[opening].from <= 15000
                     /\ end * 1000 - ws[target].from >= min * 1000
                     /\ ~OpeningIsWeak(ws, target)
                     /\ verdict.long \/ ~Dangling(ws, sentences[verdict.skip + 1])
    IN IF opening = 0 THEN NoReview
       ELSE IF body = {} THEN NoReview
       ELSE IF ~verdict.issue THEN NoReview
       ELSE IF verdict.skip = 0 THEN [NoReview EXCEPT !.issue = TRUE, !.penalise = TRUE]
       ELSE IF ~trimmable THEN [NoReview EXCEPT !.issue = TRUE, !.penalise = TRUE]
       ELSE IF Labels(ws, target) = {} THEN [NoReview EXCEPT !.issue = TRUE, !.penalise = TRUE]
       ELSE [issue |-> TRUE, labels |-> {Min(Labels(ws, target))}, target |-> target, penalise |-> verdict.long]

SegmentWords(words, start, end) ==
    LET ws == SelectSeq(words, LAMBDA w : (start - 10) * 1000 <= w.from /\ w.from < end * 1000)
    IN [i \in DOMAIN ws |-> [ws[i] EXCEPT !.to = Larger(ws[i].from, @)]]

\* _refine_segment_openings for one segment: the start only ever moves later,
\* and an opening that still leans on what came before loses ten points.
Refine(words, seg, min) ==
    LET review == ReviewOpening(SegmentWords(words, seg.from, seg.to), seg.from, seg.to, min)
        moves == review.labels # {} /\ Min(review.labels) > seg.from
        stuck == review.labels # {} /\ Min(review.labels) <= seg.from
        hook == Larger(0, seg.scores[1] - 10)
    IN [seg EXCEPT !.from = IF moves THEN Min(review.labels) ELSE @,
                   !.hook = IF moves /\ @.from < Min(review.labels) THEN Range2(0, 0) ELSE @,
                   !.scores = IF review.penalise \/ stuck THEN [@ EXCEPT ![1] = hook] ELSE @]

RefineOpenings(words, segs, min) ==
    LET refined == [i \in DOMAIN segs |-> Refine(words, segs[i], min)]
        penalised == \E i \in DOMAIN segs : Sum4(refined[i].scores) < Sum4(segs[i].scores)
    IN IF penalised THEN BestFirst(refined, LAMBDA s, t : Sum4(s.scores) > Sum4(t.scores)) ELSE refined

(***************************************************************************)
(* Properties.                                                             *)
(***************************************************************************)
\* Whatever the model answers, the plan is made of transcript passages of the
\* chosen length, no two of which show the same half, within the reserve's
\* limit, in the order of scores that are the sum of subscores of at most 25.
PlanIsSound(lines, answers, ranking, length, maxClips) ==
    LET plan == Plan(lines, answers, ranking, length, maxClips)
    IN /\ \A i \in DOMAIN plan :
            /\ Length2(plan[i]) \in length.min..length.max
            /\ Grounded(lines, plan[i])
            /\ \A k \in 1..4 : plan[i].scores[k] \in 0..25
            /\ plan[i].hook # Range2(0, 0) => HookInside(plan[i], plan[i].hook)
       /\ \A i, j \in DOMAIN plan : i < j =>
            /\ Sum4(plan[j].scores) <= Sum4(plan[i].scores)
            /\ ~HalfOverlaps(plan[i], plan[j])
       /\ Len(plan) <= 24

\* Every line is in a window, and two minutes are shared by neighbours.
WindowsCover(lines) ==
    LET windows == Windows(lines)
    IN /\ \A i \in DOMAIN lines : \E k \in DOMAIN windows : Contains(windows[k], lines[i])
       /\ \A k \in DOMAIN windows : Last(windows[k]).from - windows[k][1].from <= 960

\* An opening the review moves is the opening the render plays: the snapped start
\* is the lead-in of the word the review chose, and the clip keeps its length.
ReviewedOpeningIsPlayed(words, seg, min) ==
    LET ws == SegmentWords(words, seg.from, seg.to)
        review == ReviewOpening(ws, seg.from, seg.to, min)
        refined == Refine(words, seg, min)
        played == SnapStart(words, refined.from * 1000, seg.to * 1000)
    IN refined.from # seg.from =>
        /\ Length2(refined) >= min
        /\ refined.from - seg.from <= 19
        /\ played <= ws[review.target].from /\ ws[review.target].from <= played + 110
=============================================================================
