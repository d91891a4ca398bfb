---------------------------- MODULE EditDocuments ----------------------------
(* The editor's documents: what a document plays, the document of a combined  *)
(* clip, and the operations of an AI edit. A document is a list of segments of *)
(* the clip, played in order, with words and B-roll at clip times. Times are   *)
(* milliseconds; ids are tuples, a fresh one names the step that made it.      *)
EXTENDS SourceTimeline

Clamp(v, low, high) == Smaller(high, Larger(low, v))
Distinct(seq) == \A i, j \in DOMAIN seq : i # j => seq[i].id # seq[j].id

(***************************************************************************)
(* EditDocument and its validators.                                        *)
(***************************************************************************)
LeastBRoll(b) == IF b.in /\ b.out THEN 200 ELSE 40
ByStart(seq) == SortSeq(seq, LAMBDA r, q : r.from < q.from)
CaptionIsValid(c) ==
    /\ c.size \in 20..132 /\ c.y \in 100..900
    /\ c.moved => c.dy \in -1000..1000 /\ c.scale[2] <= 4 * c.scale[1] /\ c.scale[1] <= 4 * c.scale[2]
PlacementIsValid(p) == p.size \in 5..528 /\ p.dy \in -1000..1000
Valid(doc, duration) ==
    /\ Len(doc.segments) \in 1..100
    /\ \A i \in DOMAIN doc.segments : Length2(doc.segments[i]) >= 40 /\ doc.segments[i].from >= 0
    /\ \A i \in DOMAIN doc.words : doc.words[i].to > doc.words[i].from
    /\ Len(doc.broll) <= 60 /\ \A i \in DOMAIN doc.broll : Length2(doc.broll[i]) >= LeastBRoll(doc.broll[i])
    /\ CaptionIsValid(doc.captions) /\ \A i \in DOMAIN doc.placed : PlacementIsValid(doc.placed[i])
    /\ \A seq \in {doc.segments, doc.words, doc.broll} :
         Distinct(seq) /\ \A i \in DOMAIN seq : seq[i].to <= duration + 50
    /\ LET o == ByStart(doc.broll) IN \A i \in 1..(Len(o) - 1) : o[i + 1].from >= o[i].to - 10

(***************************************************************************)
(* What a document plays.                                                  *)
(***************************************************************************)
Cursor(segments, i) == Total(SubSeq(segments, 1, i - 1))
\* mapped_words: a word that runs over a cut where nothing was removed is one word.
GoesOn(segments, w, i) ==
    /\ i > 1 /\ segments[i - 1].to = segments[i].from
    /\ Overlap(w, segments[i - 1]) > 0 /\ Overlap(w, segments[i]) > 0
\* Variant: every segment starts its words anew.
GoesOnNever(segments, w, i) == FALSE
MappedWords(doc) ==
    LET segs == doc.segments
        words == ByStart(doc.words)
        piece(w, i) ==
            LET j == Max({k \in i..Len(segs) : \A n \in (i + 1)..k : GoesOn(segs, w, n)})
            IN [id |-> w.id, mark |-> w.mark,
                from |-> Cursor(segs, i) + Larger(segs[i].from, w.from) - segs[i].from,
                to |-> Cursor(segs, j) + Smaller(segs[j].to, w.to) - segs[j].from]
        startsIn(i) == SelectSeq(words, LAMBDA w : Overlap(w, segs[i]) > 0 /\ ~GoesOn(segs, w, i))
    IN FlattenSeq([i \in DOMAIN segs |-> [k \in DOMAIN startsIn(i) |-> piece(startsIn(i)[k], i)]])

ContinuousSegments(segments) ==
    FoldLeft(LAMBDA acc, s : IF acc # <<>> /\ Last(acc).to = s.from
                             THEN Append(Front(acc), [Last(acc) EXCEPT !.to = s.to]) ELSE Append(acc, s),
             <<>>, segments)

\* The captions: groups of words, each known by its segment and its first word.
CaptionKey(doc, word) ==
    LET segs == ContinuousSegments(doc.segments)
        past == {i \in DOMAIN segs : word.from < Cursor(segs, i + 1)}
    IN <<segs[IF past = {} THEN Len(segs) ELSE Min(past)].id, word.id>>
CaptionGroups(doc) ==
    LET words == MappedWords(doc) IN {i \in DOMAIN words : (i - 1) % doc.captions.perLine = 0}
CaptionKeys(doc) == {CaptionKey(doc, MappedWords(doc)[i]) : i \in CaptionGroups(doc)}
PlacementsAt(doc, key) == {i \in DOMAIN doc.placed : doc.placed[i].id = key}

MappedBRoll(doc) ==
    LET broll == ByStart(doc.broll)
        pieces(i) ==
            LET s == doc.segments[i]
                piece(b) ==
                    LET from == Larger(s.from, b.from)  to == Smaller(s.to, b.to) IN
                    [b EXCEPT !.from = Cursor(doc.segments, i) + from - s.from,
                              !.to = Cursor(doc.segments, i) + to - s.from,
                              !.offset = @ + from - b.from,
                              !.in = @ /\ from - b.from < 20, !.out = @ /\ b.to - to < 20]
                seen == SelectSeq(broll, LAMBDA b : Smaller(s.to, b.to) - Larger(s.from, b.from) >= 40)
            IN [k \in DOMAIN seen |-> piece(seen[k])]
    IN FlattenSeq([i \in DOMAIN doc.segments |-> pieces(i)])

\* render_document: the size of the output, of the scaled picture, and what is
\* cropped from it. zoom is in tenths; a length is rounded to an even one.
Even(n, d) == Larger(2, 2 * ((n + d) \div (2 * d)))
EvenDown(n, d) == Larger(2, 2 * (n \div (2 * d)))
OutputSize(aspect, sw, sh) ==
    CASE aspect = "square" -> <<1080, 1080>>
      [] aspect = "vertical" -> <<1080, 1920>>
      [] OTHER -> LET side == Larger(sw, sh) IN
                  IF side <= 1920 THEN <<EvenDown(sw, 1), EvenDown(sh, 1)>>
                  ELSE <<EvenDown(sw * 1920, side), EvenDown(sh * 1920, side)>>
Framed(aspect, fit, zoom, sw, sh) ==
    LET out == OutputSize(aspect, sw, sh)
        wide == out[1] * sh >= out[2] * sw                   \* width/sw >= height/sh
        byWidth == IF fit = "cover" THEN wide ELSE ~wide
        scaled(x) == IF byWidth THEN Even(x * out[1] * zoom, sw * 10) ELSE Even(x * out[2] * zoom, sh * 10)
    IN [out |-> out, scaled |-> <<scaled(sw), scaled(sh)>>,
        crop |-> <<Smaller(out[1], scaled(sw)), Smaller(out[2], scaled(sh))>>]

(***************************************************************************)
(* combine_editor: the document of several, one after the other.           *)
(***************************************************************************)
AfterDocs(docs, k) == FoldLeft(LAMBDA sum, d : sum + Total(d.segments), 0, SubSeq(docs, 1, k - 1))
Combined(docs) ==
    LET at(k) == AfterDocs(docs, k)
        end == AfterDocs(docs, Len(docs) + 1)
        moved(seq, k, kind) == [n \in DOMAIN seq |-> [seq[n] EXCEPT !.id = <<kind, k, n>>, !.from = @ + at(k), !.to = @ + at(k)]]
        \* rebased_caption_transforms
        placed(k) ==
            LET words == MappedWords(docs[k])
                kept == SelectSeq([i \in DOMAIN words |-> i], LAMBDA i :
                            i \in CaptionGroups(docs[k]) /\ PlacementsAt(docs[k], CaptionKey(docs[k], words[i])) # {})
            IN [n \in DOMAIN kept |->
                  LET p == Min(PlacementsAt(docs[k], CaptionKey(docs[k], words[kept[n]])))
                  IN [docs[k].placed[p] EXCEPT !.id = <<<<9>>, <<1, k, kept[n]>>>>]]
    IN [docs[1] EXCEPT
          !.segments = <<[id |-> <<9>>, from |-> 0, to |-> end]>>,
          !.words = FlattenSeq([k \in DOMAIN docs |-> moved(MappedWords(docs[k]), k, 1)]),
          !.broll = FlattenSeq([k \in DOMAIN docs |-> moved(MappedBRoll(docs[k]), k, 2)]),
          !.placed = FlattenSeq([k \in DOMAIN docs |-> placed(k)])]

(***************************************************************************)
(* apply_plan: the operations of an AI edit, each on the document the last *)
(* one left; one that cannot be done leaves it and a note.                 *)
(***************************************************************************)
\* Variant: what is left of a segment may be of any length.
LeftAtAll(r) == Length2(r) > 0
Left(r) == Length2(r) >= 40
\* _subtract: the first piece keeps the id, one under 40 ms goes.
Subtract(segments, cuts, step) ==
    LET minus(r, c) == IF c.to <= r.from \/ c.from >= r.to THEN <<r>>
                       ELSE SelectSeq(<<Range2(r.from, c.from), Range2(c.to, r.to)>>, Left)
        left(s) == FoldLeft(LAMBDA acc, c : FlattenSeq([i \in DOMAIN acc |-> minus(acc[i], c)]),
                            <<Range2(s.from, s.to)>>, cuts)
    IN FlattenSeq([i \in DOMAIN segments |->
         LET rs == left(segments[i])
         IN [k \in DOMAIN rs |-> [id |-> IF k = 1 THEN segments[i].id ELSE <<step, i, k>>,
                                  from |-> rs[k].from, to |-> rs[k].to]]])

\* keep_cuts
KeepCuts(doc, segments) ==
    IF Len(segments) > 100 \/ Total(segments) < 500 THEN doc ELSE [doc EXCEPT !.segments = segments]

KeepOnly(doc, ranges, step, duration) ==
    LET within == SelectSeq([i \in DOMAIN ranges |-> Range2(Clamp(ranges[i].from, 0, duration), Clamp(ranges[i].to, 0, duration))],
                            Left)
    IN KeepCuts(doc, [i \in DOMAIN within |-> [id |-> <<step, i>>, from |-> within[i].from, to |-> within[i].to]])
CutRanges(doc, ranges, step, duration) ==
    LET clamped == {Range2(Clamp(r.from, 0, duration), Clamp(r.to, 0, duration)) : r \in ToSet(ranges)}
    IN KeepCuts(doc, Subtract(doc.segments, MergeRanges(clamped, 0, 0), step))
\* With each word goes the silence after it, up to a quarter of a second.
RemoveWords(doc, ids, step) ==
    LET words == ByStart(doc.words)
        following(i) == IF i < Len(words) THEN words[i + 1].from ELSE words[i].to
        cuts == {Range2(words[i].from, Larger(words[i].to, Smaller(following(i), words[i].to + 250))) :
                   i \in {k \in DOMAIN words : words[k].id \in ids}}
    IN IF cuts = {} THEN doc ELSE KeepCuts(doc, Subtract(doc.segments, MergeRanges(cuts, 0, 0), step))
RemovePauses(doc, least, kept, step) ==
    LET speech == MergeRanges({Range2(doc.words[i].from, doc.words[i].to) : i \in DOMAIN doc.words}, 0, 0)
        keep == Clamp(kept, 50, 500)
        long == Larger(Clamp(least, 300, 3000), keep)
        pauses == SelectSeq([i \in 1..(Len(speech) - 1) |-> Range2(speech[i].to, speech[i + 1].from)],
                            LAMBDA r : Length2(r) > long)
    IN KeepCuts(doc, Subtract(doc.segments,
                              [i \in DOMAIN pauses |-> Range2(pauses[i].from + keep \div 2, pauses[i].to - keep \div 2)], step))

\* _apply_setting, of the settings that also move the captions placed by hand.
SetSize(doc, value) ==
    LET size == Clamp(value, 20, 132)
        c == doc.captions
        base == Clamp(c.size, Larger(20, (size + 3) \div 4), Smaller(132, 4 * size))
    IN [doc EXCEPT !.captions = IF c.moved THEN [c EXCEPT !.size = base, !.scale = <<size, base>>] ELSE [c EXCEPT !.size = size],
                   !.placed = [i \in DOMAIN doc.placed |-> [doc.placed[i] EXCEPT !.size = size]]]
\* Variant: a placement keeps the offset from the position the captions had.
SetPositionOnly(doc, value) ==
    LET y == Clamp(value, 100, 900) IN
    [doc EXCEPT !.captions = IF @.moved THEN [@ EXCEPT !.dy = y - @.y] ELSE [@ EXCEPT !.y = y]]
SetPosition(doc, value) ==
    LET y == Clamp(value, 100, 900)
        captions == IF doc.captions.moved THEN [doc.captions EXCEPT !.dy = y - doc.captions.y] ELSE [doc.captions EXCEPT !.y = y]
    IN [doc EXCEPT !.captions = captions, !.placed = [i \in DOMAIN doc.placed |-> [doc.placed[i] EXCEPT !.dy = y - captions.y]]]

Highlight(doc, ids) == [doc EXCEPT !.words = [i \in DOMAIN doc.words |-> [doc.words[i] EXCEPT !.mark = @ \/ doc.words[i].id \in ids]]]

Free(doc, from, to, but) == \A i \in DOMAIN doc.broll : doc.broll[i].id = but \/ from >= doc.broll[i].to \/ doc.broll[i].from >= to
\* footage: the length of what the search finds, 0 when it finds nothing long enough.
AddBRoll(doc, op, step, duration) ==
    LET from == Clamp(op.from, 0, duration)
        to == Clamp(op.to, from, Smaller(duration, from + 6000))
    IN IF Len(doc.broll) >= 60 \/ to - from < 500 \/ ~Free(doc, from, to, <<>>) \/ op.footage < to - from THEN doc
       ELSE [doc EXCEPT !.broll = ByStart(Append(@, [id |-> <<step>>, from |-> from, to |-> to, offset |-> 0,
                                                     footage |-> op.footage, in |-> TRUE, out |-> TRUE]))]
RemoveBRoll(doc, ids) == [doc EXCEPT !.broll = SelectSeq(@, LAMBDA b : b.id \notin ids)]
MoveBRoll(doc, op, duration) ==
    LET found == {i \in DOMAIN doc.broll : doc.broll[i].id = op.id}
        b == doc.broll[Min(found)]
        from == Clamp(op.from, 0, duration)
        length == Smaller(Clamp(op.to, from + 200, duration) - from, b.footage - b.offset)
    IN IF found = {} THEN doc
       ELSE IF length < 200 \/ ~Free(doc, from, from + length, b.id) THEN doc
       ELSE [doc EXCEPT !.broll = ByStart([@ EXCEPT ![Min(found)] = [@ EXCEPT !.from = from, !.to = from + length]])]

Applied(doc, op, step, duration) ==
    CASE op.op = "keep"      -> KeepOnly(doc, op.ranges, step, duration)
      [] op.op = "cut"       -> CutRanges(doc, op.ranges, step, duration)
      [] op.op = "words"     -> RemoveWords(doc, op.ids, step)
      [] op.op = "pauses"    -> RemovePauses(doc, op.least, op.keep, step)
      [] op.op = "size"      -> SetSize(doc, op.value)
      [] op.op = "position"  -> SetPosition(doc, op.value)
      [] op.op = "highlight" -> Highlight(doc, op.ids)
      [] op.op = "add"       -> AddBRoll(doc, op, step, duration)
      [] op.op = "remove"    -> RemoveBRoll(doc, op.ids)
      [] op.op = "move"      -> MoveBRoll(doc, op, duration)
ApplyPlan(doc, plan, duration) ==
    FoldLeft(LAMBDA acc, k : Applied(acc, plan[k], 20 + k, duration), doc, [k \in DOMAIN plan |-> k])

(***************************************************************************)
(* Properties.                                                             *)
(***************************************************************************)
PlayedOf(doc, id) == Total(SelectSeq(MappedWords(doc), LAMBDA w : w.id = id))
\* What a document plays lies in its edited time, in order, and its B-roll inside
\* its footage; joining segments that touch (as the render does) changes no word,
\* no caption key, and no B-roll but where two pieces of one were cut apart.
PlaysInside(doc) ==
    LET words == MappedWords(doc)  broll == MappedBRoll(doc)  total == Total(doc.segments)
        joined == [doc EXCEPT !.segments = ContinuousSegments(@)]
        shows(pieces, t) == {<<pieces[i].id, pieces[i].offset + t - pieces[i].from>> :
                               i \in {k \in DOMAIN pieces : pieces[k].from <= t /\ t < pieces[k].to}}
    IN /\ \A i \in DOMAIN words : 0 <= words[i].from /\ words[i].from < words[i].to /\ words[i].to <= total
       /\ \A i \in 1..(Len(broll) - 1) : broll[i + 1].from >= broll[i].to - 10
       /\ \A i \in DOMAIN broll : broll[i].to <= total /\ broll[i].offset + Length2(broll[i]) <= broll[i].footage
       /\ MappedWords(joined) = words /\ CaptionKeys(joined) = CaptionKeys(doc)
       /\ \A i \in DOMAIN broll : LET t == (broll[i].from + broll[i].to) \div 2
                                  IN shows(broll, t) \subseteq shows(MappedBRoll(joined), t)

\* A combined clip plays what its documents play, one after the other, and is a
\* document again (but for B-roll cut to under 200 ms by less than its fades show);
\* when captions hold equally many words everywhere and none is shared, each keeps
\* the place it was given.
CombineKeeps(docs) ==
    LET whole == Combined(docs)
        shifted(seq, k) == [i \in DOMAIN seq |-> Range2(seq[i].from + AfterDocs(docs, k), seq[i].to + AfterDocs(docs, k))]
        all(Of(_)) == FlattenSeq([k \in DOMAIN docs |-> shifted(Of(docs[k]), k)])
        times(seq) == [i \in DOMAIN seq |-> Range2(seq[i].from, seq[i].to)]
        per == docs[1].captions.perLine
    IN /\ times(MappedWords(whole)) = all(MappedWords) /\ times(MappedBRoll(whole)) = all(MappedBRoll)
       /\ (\A i \in DOMAIN whole.broll : Length2(whole.broll[i]) >= LeastBRoll(whole.broll[i])) =>
            Valid(whole, Total(whole.segments))
       /\ (\A k \in DOMAIN docs : docs[k].captions.perLine = per /\ Len(MappedWords(docs[k])) % per = 0) =>
            {whole.placed[i].id : i \in DOMAIN whole.placed} \subseteq CaptionKeys(whole)
       /\ \A k \in DOMAIN docs : \A key \in CaptionKeys(docs[k]) : PlacementsAt(docs[k], key) # {} =>
            \E i \in DOMAIN whole.placed : whole.placed[i].id[2][2] = k

\* An AI edit leaves a valid document of half a second or more; words it removed are
\* silent, words it did not are whole but for the frame at a cut, and a setting
\* reaches the captions placed by hand too.
PlanIsKept(doc, plan, duration) ==
    LET new == ApplyPlan(doc, plan, duration)
        op == plan[1]
        same == new.segments = doc.segments
        words == ToSet(doc.words)
        removed == {w \in words : op.op = "words" /\ w.id \in op.ids}
        apart == {w \in words \ removed : \A r \in removed : Overlap(w, r) = 0}
    IN /\ Valid(new, duration) /\ (same \/ Total(new.segments) >= 500)
       /\ Len(plan) = 1 /\ op.op = "words" /\ ~same => \A w \in removed : PlayedOf(new, w.id) = 0
       /\ Len(plan) = 1 /\ op.op \in {"words", "pauses"} => \A w \in apart : PlayedOf(new, w.id) >= PlayedOf(doc, w.id) - 80
       /\ Last(plan).op = "position" =>
            \A y \in {new.captions.y + new.placed[i].dy : i \in DOMAIN new.placed}
                     \cup {new.captions.y + IF new.captions.moved THEN new.captions.dy ELSE 0} : y = Clamp(Last(plan).value, 100, 900)
       /\ Last(plan).op = "size" =>
            /\ new.captions.size * (IF new.captions.moved THEN new.captions.scale[1] ELSE 1)
                 = Clamp(Last(plan).value, 20, 132) * (IF new.captions.moved THEN new.captions.scale[2] ELSE 1)
            /\ \A i \in DOMAIN new.placed : new.placed[i].size = Clamp(Last(plan).value, 20, 132)

\* A picture that covers leaves no bars, one that is contained loses nothing.
FrameFits(aspect, fit, zoom, sw, sh) ==
    LET f == Framed(aspect, fit, zoom, sw, sh) IN
    \A i \in {1, 2} : /\ fit = "cover" => f.crop[i] = f.out[i]
                      /\ fit = "contain" /\ zoom = 10 => f.crop[i] = f.scaled[i]
=============================================================================
