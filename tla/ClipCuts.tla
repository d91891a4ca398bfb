------------------------------ MODULE ClipCuts ------------------------------
(* From the bounds of a planned clip to the source ranges it plays           *)
(* (media/timeline.py): the start snaps to a sentence, pauses and fillers    *)
(* are cut, the last sentence is finished, a teaser is put in front, and the *)
(* cap is applied. Times are milliseconds.                                   *)
(*                                                                           *)
(* A transcript is a sequence of words [from, to, kind]; a word of kind      *)
(* "end" ends its sentence, a sentence that opens on a "weak" word needs the *)
(* one before it, and "filler" is an um or uh.                               *)
EXTENDS SourceTimeline

Pad == 350           \* CLIP_END_PADDING_SECONDS
Extension == 5500    \* CLIP_END_SENTENCE_EXTENSION_SECONDS
SnapWindow == 3000   \* CLIP_START_SNAP_WINDOW_SECONDS
EdgePadding == 275   \* PAUSE_EDGE_PADDING_SECONDS

Ends(w) == w.kind = "end"

(***************************************************************************)
(* Words.                                                                  *)
(***************************************************************************)
Instantaneous(w) == w.to <= w.from

\* What a neighbour can lend: at most half of what lies beyond the edge.
Spare(remaining) ==
    IF remaining <= 0 THEN 0
    ELSE Larger(Smaller(remaining - 60, remaining \div 2), remaining \div 3)

\* One run of words stamped at the same instant, from first to last, gets 120 ms
\* for each: free time around it, then time of its neighbours.
RepairRun(words, first, last) ==
    LET n == last - first + 1
        anchor == words[first].from
        wanted == n * 120
        hasPrevious == first > 1
        hasNext == last < Len(words)
        freeHigh == Larger(anchor, Smaller(IF hasNext THEN words[last + 1].from ELSE anchor + wanted, anchor + wanted))
        freeLow == Smaller(anchor, Larger(IF hasPrevious THEN words[first - 1].to ELSE 0,
                                          anchor - (wanted - (freeHigh - anchor))))
        missing == wanted - (freeHigh - freeLow)
        right == IF hasNext THEN Spare(words[last + 1].to - freeHigh) ELSE 0
        left == IF hasPrevious THEN Spare(freeLow - words[first - 1].from) ELSE 0
        fromRight == IF missing > 0 THEN Smaller(right, missing - Smaller(left, missing \div 2)) ELSE 0
        fromLeft == IF missing > 0 THEN Smaller(left, missing - fromRight) ELSE 0
        low == freeLow - fromLeft
        high == Larger(freeHigh + fromRight, low + n)
        slot(k) == low + ((high - low) * k) \div n
    IN [i \in DOMAIN words |->
          IF i \in first..last THEN [words[i] EXCEPT !.from = slot(i - first), !.to = slot(i - first + 1)]
          ELSE IF i = last + 1 /\ words[i].from < high /\ high < words[i].to THEN [words[i] EXCEPT !.from = high]
          ELSE IF i = first - 1 /\ words[i].from < low /\ low < words[i].to THEN [words[i] EXCEPT !.to = low]
          ELSE words[i]]

\* The words from the i-th on are looked at next; a run that was repaired is passed over.
RepairFrom(acc, i) ==
    IF i < acc.next \/ ~Instantaneous(acc.words[i]) THEN acc
    ELSE LET run == {j \in i..Len(acc.words) : \A k \in i..j :
                        Instantaneous(acc.words[k]) /\ acc.words[k].from = acc.words[i].from}
         IN [words |-> RepairRun(acc.words, i, Max(run)), next |-> Max(run) + 1]

RepairWordTimings(words) ==
    FoldLeft(RepairFrom, [words |-> words, next |-> 1], [i \in DOMAIN words |-> i]).words

\* get_absolute_words_in_range: the words heard in a range, cut at its ends.
WordsIn(words, a, b) ==
    LET fixed == RepairWordTimings(words)
        cut == [i \in DOMAIN fixed |-> [fixed[i] EXCEPT !.from = Larger(@, a), !.to = Smaller(@, b)]]
    IN SelectSeq(cut, LAMBDA w : w.to > w.from)

\* Variant: the padding ignores the next word.
PaddedBlindly(end, nexts) == end + Pad

\* A clip ends a little after its last word and never inside the next one.
PaddedEnd(end, nexts) ==
    IF nexts = {} THEN end + Pad ELSE Smaller(end + Pad, Larger(end, Min(nexts) - 30))
NextStarts(words, start) == {words[i].from : i \in DOMAIN words} \cap {t \in {words[i].from : i \in DOMAIN words} : t > start}

(***************************************************************************)
(* The opening.                                                            *)
(***************************************************************************)
StartsSentence(ws, i) == i = 1 \/ Ends(ws[i - 1]) \/ ws[i].from - ws[i - 1].to >= 800

\* The word a clip that starts near a position opens on; 0 is none.
SentenceStartIndex(ws, position, window) ==
    LET opening == {i \in DOMAIN ws : position - 20 <= ws[i].from /\ ws[i].from < position + 1000
                                        /\ StartsSentence(ws, i)}
        touched == {i \in DOMAIN ws : ws[i].to > position + 50}
        first == Min(touched)
        sentence == Max({i \in 1..first : StartsSentence(ws, i)})
    IN IF opening # {} THEN Min(opening)
       ELSE IF touched = {} THEN 0
       ELSE IF ws[first].from > position + window THEN 0
       ELSE IF sentence < first /\ ws[sentence].from < position - window THEN first ELSE sentence

\* Judged on the first word that is not a filler.
OpeningIsWeak(ws, i) ==
    LET content == {j \in i..Len(ws) : ws[j].kind # "filler"}
    IN IF content = {} THEN TRUE ELSE ws[Min(content)].kind = "weak"

OneSentenceBack(ws, i, position) ==
    LET previous == Max({j \in 1..(i - 1) : StartsSentence(ws, j)})
    IN IF ~OpeningIsWeak(ws, i) \/ i = 1 THEN i
       ELSE IF ws[i].from - ws[previous].from > 8000 \/ ws[previous].from < position - 8000 THEN i
       ELSE previous

PreferSelfContained(ws, i, position) == OneSentenceBack(ws, OneSentenceBack(ws, i, position), position)

StartBefore(ws, i, lead) ==
    Larger(0, IF i > 1 THEN Larger(ws[i].from - lead, ws[i - 1].to) ELSE ws[i].from - lead)

\* snap_clip_start_to_sentence, on the bounds the analysis chose.
SnapStart(words, start, end) ==
    LET ws == WordsIn(words, Larger(0, start - SnapWindow - 10000), start + SnapWindow + 1000)
        index == SentenceStartIndex(ws, start, SnapWindow)
        snapped == StartBefore(ws, PreferSelfContained(ws, index, start), 100)
    IN IF ws = <<>> THEN start
       ELSE IF index = 0 THEN start
       ELSE IF Distance(snapped, start) < 10 \/ end - snapped < 500 THEN start
       ELSE snapped

(***************************************************************************)
(* Pauses and fillers.                                                     *)
(***************************************************************************)
\* _merge_active_windows: action seen or heard in a gap, padded and joined.
ActiveRanges(windows, gap) ==
    LET clip(r) == Range2(Larger(gap.from, r.from - 200), Smaller(gap.to, r.to + 200))
        join(acc, r) == IF acc # <<>> /\ r.from <= Last(acc).to + 350
                        THEN Append(Front(acc), Range2(Last(acc).from, Larger(r.to, Last(acc).to)))
                        ELSE Append(acc, r)
    IN FoldLeft(join, <<>>, SetToSortSeq({q \in {clip(r) : r \in windows} : q.to > q.from}, Earlier))

\* A pause keeps a breath on both sides, and what is left to cut has some length.
CompressPause(a, b, before, after) ==
    IF (b - after) - (a + before) >= 50 THEN {Range2(a + before, b - after)} ELSE {}

\* Between two spoken words only the quiet windows around the action are cut.
CutGap(gap, threshold, windows) ==
    LET quiet(acc, action) ==
            [cuts |-> acc.cuts \cup (IF action.from - acc.cursor >= threshold
                        THEN CompressPause(acc.cursor, action.from, EdgePadding, EdgePadding) ELSE {}),
             cursor |-> Larger(acc.cursor, action.to)]
        done == FoldLeft(quiet, [cuts |-> {}, cursor |-> gap.from], ActiveRanges(windows, gap))
    IN done.cuts \cup (IF gap.to - done.cursor >= threshold
                       THEN CompressPause(done.cursor, gap.to, EdgePadding, EdgePadding) ELSE {})

PauseCuts(spoken, start, end, threshold, windows) ==
    LET first == spoken[1]
        last == spoken[Len(spoken)]
        gaps == {g \in {Range2(spoken[i].to, spoken[i + 1].from) : i \in 1..(Len(spoken) - 1)} :
                    g.to - g.from >= threshold}
    IN UNION {CutGap(g, threshold, windows) : g \in gaps}
       \cup (IF first.from - start >= threshold THEN CompressPause(start, first.from, 0, 100) ELSE {})
       \cup (IF end - last.to >= threshold THEN CompressPause(last.to, end, 250, 0) ELSE {})

\* build_clip_keep_ranges. Parts under 120 ms go with the cuts around them.
KeepRanges(words, start, end, cleanup, windows) ==
    LET ws == WordsIn(words, start, end)
        fillers == {i \in DOMAIN ws : cleanup.fillers /\ ws[i].kind = "filler"}
        spoken == SelectSeq([i \in DOMAIN ws |-> [ws[i] EXCEPT !.kind = IF i \in fillers THEN "cut" ELSE @]],
                            LAMBDA w : w.kind # "cut")
        cuts == MergeRanges({Range2(ws[i].from, ws[i].to) : i \in fillers}
                    \cup (IF cleanup.pauses THEN PauseCuts(spoken, start, end, cleanup.threshold, windows) ELSE {}),
                    0, 0)
        step(acc, cut) ==
            [keep |-> IF cut.from - acc.cursor >= 120 THEN Append(acc.keep, Range2(acc.cursor, cut.from)) ELSE acc.keep,
             cursor |-> Larger(acc.cursor, cut.to)]
        done == FoldLeft(step, [keep |-> <<>>, cursor |-> start], cuts)
        kept == IF end - done.cursor >= 120 THEN Append(done.keep, Range2(done.cursor, end)) ELSE done.keep
    IN IF end <= start THEN <<>>
       ELSE IF ws = <<>> THEN <<Range2(start, end)>>
       ELSE IF spoken = <<>> THEN <<Range2(start, end)>>
       ELSE IF Total(kept) < 500 THEN <<Range2(start, end)>>
       ELSE kept

(***************************************************************************)
(* The ending.                                                             *)
(***************************************************************************)
WithLast(ranges, end) == Append(Front(ranges), Range2(Last(ranges).from, end))

\* _drop_dangling_tail: a short unfinished sentence after a finished one goes.
DropDanglingTail(words, ranges) ==
    LET last == Last(ranges)
        ws == WordsIn(words, last.from, last.to + 50)
        finished == {i \in DOMAIN ws : Ends(ws[i])}
        done == ws[Max(finished)]
        dangling == SelectSeq(ws, LAMBDA w : w.from >= done.to - 20 /\ w.from < last.to - 20)
        trimmed == Smaller(last.to, PaddedEnd(done.to, {dangling[1].from}))
    IN IF finished = {} THEN ranges
       ELSE IF Len(dangling) \notin 1..12 THEN ranges
       ELSE IF last.to - dangling[1].from > 4000 THEN ranges
       ELSE IF Length2(last) >= 8000 /\ trimmed - last.from < 8000 THEN ranges
       ELSE WithLast(ranges, trimmed)

\* extend_keep_ranges_to_sentence_boundary; duration 0 is unknown.
ExtendToSentence(words, ranges, duration) ==
    LET last == Last(ranges)
        cap == IF duration > 0 THEN Smaller(last.to + Extension, duration) ELSE last.to + Extension
        near == WordsIn(words, Larger(0, last.to - 6000), cap)
        boundary == {i \in DOMAIN near : near[i].from <= last.to + 50}
        closed == boundary # {} /\ near[Max(boundary)].to <= last.to + 50 /\ Ends(near[Max(boundary)])
        beyond == SelectSeq(near, LAMBDA w : w.to > last.to + 50)
        stops == {i \in DOMAIN beyond : Ends(beyond[i])}
        reached == IF stops # {}
                   THEN PaddedEnd(beyond[Min(stops)].to, NextStarts(words, beyond[Min(stops)].from))
                   ELSE IF beyond # <<>> THEN Last(beyond).to ELSE last.to
        trimmed == DropDanglingTail(words, ranges)
        end == Smaller(IF duration > 0 THEN Smaller(reached, duration) ELSE reached, cap + Pad)
    IN IF cap <= last.to \/ near = <<>> \/ closed THEN ranges
       ELSE IF stops = {} /\ Last(trimmed).to < last.to - 50 THEN trimmed
       ELSE IF reached <= last.to \/ end - last.from <= 50 THEN ranges
       ELSE WithLast(ranges, end)

\* The cap lands on a sentence end that is close enough, else on a word.
EndAtCap(words, start, cut, backoff) ==
    LET ws == WordsIn(words, start, cut + 5000)
        fitting == {i \in DOMAIN ws : ws[i].to <= cut + 50}
        endings == {i \in fitting : Ends(ws[i]) /\ cut - ws[i].to <= backoff}
        chosen == ws[IF endings # {} THEN Max(endings) ELSE Max(fitting)]
    IN IF fitting = {} THEN cut
       ELSE Larger(start + 500, Smaller(cut, PaddedEnd(chosen.to, NextStarts(words, chosen.from))))

\* clamp_keep_ranges_to_max_duration: the range the cap falls in is shortened
\* and the ranges after it are dropped.
ClampToMax(words, ranges, max) ==
    LET place(acc, r) ==
            LET cut == EndAtCap(words, r.from, r.from + Larger(0, acc.budget),
                                Larger(3000, max \div 4))
            IN IF acc.full THEN acc
               ELSE IF Length2(r) <= acc.budget + 1
                    THEN [acc EXCEPT !.kept = Append(@, r), !.budget = @ - Length2(r)]
               ELSE [acc EXCEPT !.full = TRUE,
                                !.kept = IF cut - r.from >= 500 THEN Append(@, Range2(r.from, cut)) ELSE @]
        done == FoldLeft(place, [kept |-> <<>>, budget |-> max, full |-> FALSE], ranges)
    IN IF Total(ranges) <= max + 50 \/ done.kept = <<>> THEN ranges ELSE done.kept

(***************************************************************************)
(* The hook teaser, played before the body.                                *)
(***************************************************************************)
NoTeaser == Range2(0, 0)

TeaserRange(words, body, hook) ==
    LET ws == WordsIn(words, body.from, body.to)
        first == SentenceStartIndex(ws, hook.from, 1000)
        start == StartBefore(ws, first, 80)
        fitting == {i \in first..Len(ws) : ws[i].to <= hook.to + 1000 /\ ws[i].to - ws[first].from <= 5000}
        endings == {i \in fitting : Ends(ws[i]) \/ (i < Len(ws) /\ ws[i + 1].from - ws[i].to >= 400)}
        last == IF endings # {} THEN Max(endings) ELSE Max(fitting)
        tail == IF last < Len(ws) THEN Smaller(ws[last].to + 150, ws[last + 1].from) ELSE ws[last].to + 150
        end == Smaller(tail, body.to)
    IN IF hook.to <= hook.from \/ hook.from < body.from + 3000 \/ hook.to > body.to + 1000 THEN NoTeaser
       ELSE IF ws = <<>> THEN NoTeaser
       ELSE IF first = 0 THEN NoTeaser
       ELSE IF fitting = {} \/ start < body.from + 3000 THEN NoTeaser
       ELSE IF ws[last].to - ws[first].from < 1500 \/ end - start < 1500 THEN NoTeaser
       ELSE Range2(start, end)

\* The cuts of the body are made in the teaser too.
AddTeaser(words, ranges, hook) ==
    LET teaser == TeaserRange(words, Range2(ranges[1].from, Last(ranges).to), hook)
        inside(r) == Range2(Larger(teaser.from, r.from), Smaller(teaser.to, r.to))
        parts == SelectSeq([i \in DOMAIN ranges |-> inside(ranges[i])], LAMBDA r : r.to - r.from >= 120)
    IN IF teaser = NoTeaser THEN ranges
       ELSE IF Total(parts) < 1500 THEN ranges
       ELSE parts \o ranges

(***************************************************************************)
(* create_single_clip, up to the render.                                   *)
(***************************************************************************)
Body(words, start, end, cleanup, windows, duration) ==
    ExtendToSentence(words, KeepRanges(words, SnapStart(words, start, end), end, cleanup, windows), duration)

PlayedRanges(words, start, end, cleanup, windows, duration, hook, max) ==
    ClampToMax(words, AddTeaser(words, Body(words, start, end, cleanup, windows, duration), hook), max)

\* Crossfades between the parts of a clip that plays in source order.
Fade(ranges) ==
    LET shortest == Min({Length2(ranges[i]) : i \in DOMAIN ranges})
        fade == Smaller(150, shortest \div 2)
    IN IF Len(ranges) \notin 2..8 THEN 0
       ELSE IF \E i \in 1..(Len(ranges) - 1) : ranges[i + 1].from < ranges[i].from THEN 0
       ELSE IF shortest < 450 \/ fade < 60 THEN 0
       ELSE fade

\* output_offsets_for_ranges: where each part starts in the rendered clip.
Offsets(ranges) ==
    [i \in DOMAIN ranges |-> Total(SubSeq(ranges, 1, i - 1)) - (i - 1) * Fade(ranges)]

\* get_words_for_keep_ranges: the words of the clip on its own timeline.
OutputWords(words, ranges) ==
    FlattenSeq([i \in DOMAIN ranges |->
        LET ws == WordsIn(words, ranges[i].from, ranges[i].to)
            shift == Offsets(ranges)[i] - ranges[i].from
        IN [j \in DOMAIN ws |-> [ws[j] EXCEPT !.from = @ + shift, !.to = @ + shift]]])

(***************************************************************************)
(* Properties.                                                             *)
(***************************************************************************)
\* repair_word_timings keeps every word, in order, and leaves none without time.
RepairKeepsWords(words) ==
    LET fixed == RepairWordTimings(words)
    IN /\ \A i \in DOMAIN fixed : fixed[i].kind = words[i].kind /\ fixed[i].from < fixed[i].to
       /\ \A i \in 2..Len(fixed) : fixed[i - 1].from <= fixed[i].from

\* "Ranges stay inside the selected duration cap" up to the half second a cut at
\* a word may add; the parts of the body follow each other in the source; a clip
\* that is not capped starts and ends outside its words; and where only pauses
\* are cut the crossfades blend silence, never words.
CutsFollowSpeech(words, start, end, cleanup, windows, duration, hook, max) ==
    LET cut == KeepRanges(words, SnapStart(words, start, end), end, cleanup, windows)
        body == Body(words, start, end, cleanup, windows, duration)
        played == PlayedRanges(words, start, end, cleanup, windows, duration, hook, max)
        output == OutputWords(words, played)
        heard == RepairWordTimings(words)
        within(t) == \E i \in DOMAIN heard : heard[i].from + 50 < t /\ t + 50 < heard[i].to
    IN /\ Total(played) <= max + 500
       /\ \A i \in DOMAIN played : 0 <= played[i].from /\ played[i].from < played[i].to
       /\ \A i \in 2..Len(body) : body[i - 1].to < body[i].from
       /\ ~within(body[1].from)
       /\ within(Last(body).to) => Last(body).to >= Last(cut).to + Extension
       /\ played = body /\ ~cleanup.fillers =>
            \A i \in 2..Len(output) : output[i - 1].to <= output[i].from
=============================================================================
