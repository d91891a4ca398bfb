-------------------------------- MODULE BRoll --------------------------------
(* The stock cutaways of a clip (broll.py, media/broll_overlay.py): where the  *)
(* planned cues may play, which footage each gets, what of it the render shows, *)
(* and the way of a placement through the editor. Times are milliseconds.       *)
EXTENDS EditDocuments

EarliestStart == 3000
EndGuard == 1000
MinCue == 1500
MaxCue == 4000
MinGap == 2000

\* plan_clip_broll: how many cues a clip may hold.
MaxCues(length) == Clamp((length + 6000) \div 12000, 1, 4)

\* A cue of the model, moved to the word nearest its start; <<>> when it has no room.
Snapped(cue, starts, length) ==
    LET off(s) == Distance(s, cue.from)
        near == CHOOSE s \in starts : \A r \in starts : off(s) < off(r) \/ (off(s) = off(r) /\ s <= r)
        from == Larger(EarliestStart, IF starts # {} /\ off(near) <= 1000 THEN near - 100 ELSE cue.from)
        to == Smaller(from + Clamp(cue.length, MinCue, MaxCue), length - EndGuard)
    IN IF to - from < MinCue THEN <<>> ELSE <<[cue EXCEPT !.from = from, !.length = to - from]>>
\* Variant: a cue keeps its distance from the start of the one before.
ApartFromStart(previous, cue) == cue.from >= previous.from + MinGap
Apart(previous, cue) == cue.from >= previous.from + previous.length + MinGap
\* select_cues
SelectCues(cues, starts, length) ==
    LET candidates == SortSeq(FlattenSeq([i \in DOMAIN cues |-> Snapped(cues[i], starts, length)]),
                              LAMBDA c, d : c.from < d.from)
        covered(chosen) == FoldLeft(LAMBDA sum, c : sum + c.length, 0, chosen)
        take(chosen, c) == IF \/ Len(chosen) >= MaxCues(length)
                              \/ chosen # <<>> /\ ~Apart(Last(chosen), c)
                              \/ 10 * (covered(chosen) + c.length) > 4 * length
                           THEN chosen ELSE Append(chosen, c)
    IN IF length < EarliestStart + MinCue + EndGuard \/ starts = {} THEN <<>> ELSE FoldLeft(take, <<>>, candidates)

\* choose_video, of what the query and then its fallback found: the best that is long
\* enough, lies the right way, is not used yet and does not contradict the speech.
Choose(videos, least, used) ==
    LET fit == {i \in DOMAIN videos : /\ videos[i].id \notin used /\ videos[i].length >= least
                                      /\ videos[i].portrait /\ ~videos[i].mismatch}
        best == {i \in fit : \A j \in fit : videos[j].score < videos[i].score \/ (videos[j].score = videos[i].score /\ i <= j)}
    IN {videos[i] : i \in best}
\* _source_cue and the download of plan_clip_broll
Source(cues, found, downloadable) ==
    LET try(acc, cue) ==
            LET first == Choose(found[cue.query], cue.length + 500, acc.used)
                second == Choose(found[cue.fallback], cue.length + 500, acc.used)
                video == CHOOSE v \in IF first # {} THEN first ELSE second : TRUE
            IN IF first \cup second = {} THEN acc
               ELSE [used |-> acc.used \cup {video.id},
                     placed |-> Append(acc.placed, [start |-> cue.from, length |-> cue.length, offset |-> 0, video |-> video.id,
                                                    footage |-> video.length, in |-> TRUE, out |-> TRUE])]
    IN SelectSeq(FoldLeft(try, [used |-> {}, placed |-> <<>>], cues).placed, LAMBDA p : p.video \in downloadable)

\* normalize_broll_overlays: what of the placements a render of this length shows.
Overlays(placements, length, least) ==
    LET cut(p) == [p EXCEPT !.start = Larger(0, @), !.length = Smaller(@, length - Larger(0, p.start))]
        long == SelectSeq([i \in DOMAIN placements |-> cut(placements[i])],
                          LAMBDA p : p.length >= IF p.in /\ p.out THEN least ELSE 40)
        after(acc, p) == IF acc # <<>> /\ p.start < Last(acc).start + Last(acc).length - 10 THEN acc ELSE Append(acc, p)
    IN FoldLeft(after, <<>>, SortSeq(long, LAMBDA p, q : p.start < q.start))

\* editor_broll_from_placements and placement_to_editor_clip
ToEditor(placements, length) ==
    LET clip(p, i) == [id |-> <<3, i, p.video>>, from |-> Larger(0, p.start), to |-> Smaller(length, Larger(0, p.start) + p.length),
                       offset |-> p.offset, footage |-> p.footage, in |-> p.in, out |-> p.out]
        clips == SelectSeq([i \in DOMAIN placements |-> clip(placements[i], i)], LAMBDA b : Length2(b) >= LeastBRoll(b))
    IN FoldLeft(LAMBDA acc, b : IF acc # <<>> /\ b.from < Last(acc).to - 10 THEN acc ELSE Append(acc, b), <<>>, clips)
\* editor_piece_to_placement
ToPlacement(piece) ==
    [start |-> piece.from, length |-> Length2(piece), offset |-> piece.offset, video |-> piece.id[3],
     footage |-> piece.footage, in |-> piece.in, out |-> piece.out]

(***************************************************************************)
(* Properties.                                                             *)
(***************************************************************************)
\* The cutaways of a clip leave its opening and its end alone, lie two seconds or more
\* apart and over no more than two fifths of it; no video shows twice, none is shorter
\* than its cutaway, the render shows them all, and so do the render of the untouched
\* editor document and the placements stored with that export.
CutawaysHold(cues, starts, length, found, downloadable) ==
    LET chosen == SelectCues(cues, starts, length)
        placed == Source(chosen, found, downloadable)
        document == [segments |-> <<[id |-> <<1>>, from |-> 0, to |-> length]>>, broll |-> ToEditor(placed, length)]
        back == [i \in DOMAIN MappedBRoll(document) |-> ToPlacement(MappedBRoll(document)[i])]
    IN /\ \A i \in DOMAIN placed : LET p == placed[i] IN
            /\ p.start >= EarliestStart /\ p.length \in MinCue..MaxCue /\ p.start + p.length <= length - EndGuard
            /\ p.footage >= p.offset + p.length + 500
            /\ \A j \in 1..(i - 1) : placed[j].start + placed[j].length + MinGap <= p.start /\ placed[j].video # p.video
       /\ 5 * FoldLeft(LAMBDA sum, p : sum + p.length, 0, placed) <= 2 * length
       /\ Overlays(placed, length, 600) = placed
       /\ back = placed /\ Overlays(back, length, 200) = placed
=============================================================================
