------------------------------- MODULE SpeakerCuts -------------------------------
(* The cuts between the speakers of a wide shot (media/speaker_framing.py): turns  *)
(* from diarized words, the crop of each moment, and the stretches where both talk *)
(* and are stacked. Who sits where, and which mouths move, are inputs.             *)
EXTENDS ShotFraming, ClipCaptions

\* Overlapping parts as one, across gaps of up to gap.
MergeWithin(ranges, gap) ==
    FoldLeft(LAMBDA acc, r : IF acc # <<>> /\ r.from <= Last(acc).to + gap
                             THEN Amend(acc, Range2(Last(acc).from, Larger(Last(acc).to, r.to))) ELSE Append(acc, r),
             <<>>, SetToSortSeq({r \in ranges : r.from < r.to}, Earlier))

(***************************************************************************)
(* Turns.                                                                  *)
(***************************************************************************)
SpokenRuns(words) ==
    FoldLeft(LAMBDA acc, w :
                IF w.to <= w.from \/ (w.who = "none" /\ acc = <<>>) THEN acc
                ELSE IF acc # <<>> /\ w.who \in {"none", Last(acc).who}
                     THEN Amend(acc, [Last(acc) EXCEPT !.to = Larger(@, w.to)]) ELSE Append(acc, w), <<>>, words)
JoinSpeaker(runs) ==
    FoldLeft(LAMBDA acc, r : IF acc # <<>> /\ Last(acc).who = r.who
                             THEN Amend(acc, [Last(acc) EXCEPT !.to = Larger(@, r.to)]) ELSE Append(acc, r), <<>>, runs)
\* The shortest, under 1.2 seconds, is given to the speaker before it.
AbsorbShortest(runs) ==
    LET i == CHOOSE i \in DOMAIN runs : \A j \in DOMAIN runs :
                Length2(runs[i]) < Length2(runs[j]) \/ (Length2(runs[i]) = Length2(runs[j]) /\ i <= j)
        with == IF i > 1 THEN i - 1 ELSE 2
        low == Smaller(i, with)
        one == [who |-> runs[with].who, from |-> runs[low].from, to |-> Larger(runs[low].to, runs[low + 1].to)]
    IN IF Len(runs) <= 1 THEN runs
       ELSE IF Length2(runs[i]) >= 1200 THEN runs
       ELSE JoinSpeaker([k \in 1..Len(runs) - 1 |-> IF k < low THEN runs[k] ELSE IF k = low THEN one ELSE runs[k + 1]])
\* Each cut 150 ms before the new speaker, but not into the words of the last one.
SpeakerTurns(words) ==
    LET runs == Repeatedly(Len(words), AbsorbShortest, JoinSpeaker(SpokenRuns(words)))
        end(i) == IF AtLast(runs, i) THEN runs[i].to
                  ELSE Larger(runs[i + 1].from - 150, Smaller(runs[i].to, runs[i + 1].from))
        until(i) == Max({end(j) : j \in 1..i} \cup {0})
    IN IF Cardinality({runs[i].who : i \in DOMAIN runs}) < 2 THEN <<>>
       ELSE [i \in DOMAIN runs |-> [who |-> runs[i].who, from |-> IF i = 1 THEN 0 ELSE until(i - 1), to |-> until(i)]]

(***************************************************************************)
(* The crop of each moment.                                                *)
(***************************************************************************)
SnapTo(value, cuts) ==
    LET near == {c \in cuts : Distance(c, value) <= 300}
    IN IF near = {} THEN value
       ELSE CHOOSE c \in near : \A d \in near :
                Distance(c, value) < Distance(d, value) \/ (Distance(c, value) = Distance(d, value) /\ c <= d)
At(range, a, b) == 2 * range.from <= a + b /\ a + b < 2 * range.to
\* A wide shot follows who speaks, if known where; another shot has its own crop.
FramedParts(turns, seat, shots, wide, shotX, cuts, duration) ==
    LET points == Ordered({p \in {0, duration} \cup {SnapTo(turns[i].from, cuts) : i \in DOMAIN turns \ {1}}
                                  \cup {shots[i].from : i \in DOMAIN shots} \cup {shots[i].to : i \in DOMAIN shots} :
                             p <= duration})
        speaker(a, b) == LET now == SelectSeq(turns, LAMBDA t : At(t, a, b)) IN
                         IF now # <<>> THEN now[1].who ELSE IF turns = <<>> THEN "none" ELSE Last(turns).who
        shot(a, b) == LET here == {i \in DOMAIN shots : At(shots[i], a, b)} IN IF here = {} THEN 0 ELSE Min(here)
        known == SelectSeq(turns, LAMBDA t : t.who \in DOMAIN seat)
        piece(acc, i) ==
            LET a == points[i]  b == points[i + 1]  s == shot(a, b)  who == speaker(a, b)
                x == IF s \in wide THEN IF who \in DOMAIN seat THEN seat[who] ELSE acc.held
                     ELSE IF s \in DOMAIN shotX THEN shotX[s] ELSE acc.held
            IN [held |-> IF s \in wide THEN x ELSE acc.held,
                parts |-> Append(acc.parts, [from |-> a, to |-> b, x |-> x, shot |-> s])]
    IN FoldLeft(piece, [held |-> IF known = <<>> THEN 0 ELSE seat[known[1].who], parts |-> <<>>],
                [i \in 1..Len(points) - 1 |-> i]).parts
\* Variant: a sliver joins whatever is before it.
FoldSliversAny(parts) ==
    FoldLeft(LAMBDA acc, p : IF Length2(p) < 400 /\ acc # <<>> THEN Amend(acc, [Last(acc) EXCEPT !.to = p.to])
                             ELSE Append(acc, p), <<>>, parts)
\* A part under 400 ms joins a neighbour of the same shot, never one of another.
FoldSlivers(parts) ==
    LET fold(acc, i) ==
            LET p == IF acc.from < 0 THEN parts[i] ELSE [parts[i] EXCEPT !.from = acc.from]
                same(q) == q.shot = p.shot
            IN IF Length2(p) < 400 /\ acc.out # <<>> /\ same(Last(acc.out))
               THEN [out |-> Amend(acc.out, [Last(acc.out) EXCEPT !.to = p.to]), from |-> -1]
               ELSE IF Length2(p) < 400 /\ ~AtLast(parts, i) /\ same(parts[i + 1]) THEN [acc EXCEPT !.from = p.from]
               ELSE [out |-> Append(acc.out, p), from |-> -1]
    IN FoldLeft(fold, [out |-> <<>>, from |-> -1], [i \in DOMAIN parts |-> i]).out
SpeakerSegments(turns, seat, shots, wide, shotX, cuts, duration) ==
    FoldLeft(LAMBDA acc, p : IF acc # <<>> /\ Last(acc).x = p.x THEN Amend(acc, [Last(acc) EXCEPT !.to = p.to])
                             ELSE Append(acc, [from |-> p.from, to |-> p.to, x |-> p.x]),
             <<>>, FoldSlivers(FramedParts(turns, seat, shots, wide, shotX, cuts, duration)))

(***************************************************************************)
(* Both at once.                                                           *)
(***************************************************************************)
\* Variant: a breath is bridged whoever speaks in it.
MergeSpeechAny(mine, others) == MergeWithin(mine, 250)
\* The words of one speaker, across breaths of 250 ms in which the other is silent.
MergeSpeech(mine, others) ==
    FoldLeft(LAMBDA acc, r :
                IF acc # <<>> /\ r.from <= Last(acc).to + 250
                   /\ (r.from <= Last(acc).to \/ \A o \in others : o.to <= Last(acc).to \/ o.from >= r.from)
                THEN Amend(acc, Range2(Last(acc).from, Larger(Last(acc).to, r.to))) ELSE Append(acc, r),
             <<>>, MergeWithin(mine, 0))
\* Sustained for 600 ms, really both in six tenths of it, and held 350 ms longer, but
\* never over a cut.
SpeakerOverlaps(one, other, wide, mouths) ==
    LET a == ToSet(MergeSpeech(one, other))
        b == ToSet(MergeSpeech(other, one))
        timed == {Range2(Larger(r.from, q.from), Smaller(r.to, q.to)) : r \in a, q \in b}
        inside(r, shot) == Range2(Larger(r.from, shot.from), Smaller(r.to, shot.to))
        observed(shot) == MergeWithin({inside(r, shot) : r \in timed \cup mouths}, 0)
        support(r, shot) == FoldLeft(LAMBDA s, o : s + Overlap(r, o), 0, observed(shot))
        held(shot) == {r \in ToSet(MergeWithin(ToSet(observed(shot)), 250)) :
                         Length2(r) >= 600 /\ support(r, shot) * 10 >= Length2(r) * 6}
    IN FlattenSeq([i \in DOMAIN wide |->
            MergeWithin({Range2(r.from, Smaller(wide[i].to, r.to + 350)) : r \in held(wide[i])}, 0)])

(***************************************************************************)
(* Properties                                                              *)
(***************************************************************************)
\* The turns have no gap and no flicker, and no cut "earlier than the previous
\* speaker's last word" (speaker_framing.py:72) where the words are in turn.
TurnsHold(words) ==
    LET turns == SpeakerTurns(words)
        spoken(who) == {i \in DOMAIN words : words[i].who = who}
    IN turns # <<>> =>
       /\ turns[1].from = 0
       /\ \A i \in 2..Len(turns) :
            /\ turns[i].from = turns[i - 1].to /\ turns[i].who # turns[i - 1].who
            /\ turns[i].to - turns[i].from >= 1200 - 150
            /\ \E w \in spoken(turns[i].who) : words[w].from \in turns[i].from..turns[i].from + 150
\* Each moment has one crop. "Extending another shot's framing across a camera change
\* could crop the visible face out" (speaker_framing.py:660): a shot with a crop of its
\* own has it from cut to cut; and in a wide shot the crop is on who speaks.
SegmentsHold(turns, seat, shots, wide, shotX, cuts, duration) ==
    LET segments == SpeakerSegments(turns, seat, shots, wide, shotX, cuts, duration)
        in(turn, shot) == Range2(Larger(turn.from, shot.from), Smaller(turn.to, shot.to))
    IN /\ Tiles(segments, duration)
       /\ \A s \in DOMAIN shotX \ wide, i \in DOMAIN segments :
            Overlap(segments[i], shots[s]) > 0 => segments[i].x = shotX[s]
       /\ \A s \in wide, t \in DOMAIN turns, i \in DOMAIN segments :
            LET now == in(turns[t], shots[s]) IN
            turns[t].who \in DOMAIN seat /\ Length2(now) >= 1000 /\ At(segments[i], now.from, now.to) =>
                segments[i].x = seat[turns[t].who]
\* Nobody is stacked for taking turns: without words at once, or mouths, nothing is;
\* and every stretch is in a wide shot and lasts.
OverlapsHold(one, other, wide, mouths) ==
    LET both == SpeakerOverlaps(one, other, wide, mouths)
        speech == {Range2(Larger(a.from, b.from), Smaller(a.to, b.to)) : a \in one, b \in other}
    IN /\ (\A r \in speech : r.from >= r.to) /\ mouths = {} => both = <<>>
       /\ \A i \in DOMAIN both :
            /\ Length2(both[i]) >= 600 /\ \E j \in DOMAIN wide : wide[j].from <= both[i].from /\ both[i].to <= wide[j].to
            /\ i > 1 => both[i - 1].to <= both[i].from
=============================================================================
