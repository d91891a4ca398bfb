------------------------------- MODULE ClipEdits -------------------------------
(* The clips of a finished task under the edits of ClipEditingMixin and the    *)
(* editor's combine. Edits are serialized by the row lock of the task and       *)
(* commit as one transaction, so each is one step. A file is what it plays (a   *)
(* tape: source ranges at output offsets, which overlap where the render        *)
(* crossfades) and what its source map says it plays. The map is checked when   *)
(* it is read, and guessed when it does not pass. Times are milliseconds.       *)
EXTENDS ClipCuts, Integers

CONSTANTS Ids, MaxEdits

VARIABLES clips,        \* rows of generated_clips: [id, order, file]
          files,        \* files by number: [tape, map, broll, guessed, duration]
          toDelete,     \* files in media_deletions
          edits

kvars == <<clips, files, toDelete, edits>>

Part(from, to, at) == [from |-> from, to |-> to, at |-> at]
EndOf(p) == p.at + p.to - p.from
TapeLength(tape) == Max({0} \cup {EndOf(tape[i]) : i \in DOMAIN tape})
Shifted(tape, by) == [i \in DOMAIN tape |-> [tape[i] EXCEPT !.at = @ + by]]
\* rendered_clip_duration: a file is made of whole frames, of 40 ms here.
Frame == 40
FileLength(tape) == Frame * ((TapeLength(tape) + Frame - 1) \div Frame)
Timeline(ranges, offsets) == [i \in DOMAIN ranges |-> Part(ranges[i].from, ranges[i].to, offsets[i])]
RangesOf(map) == [i \in DOMAIN map |-> Range2(map[i].from, map[i].to)]

(***************************************************************************)
(* clip_source_map.py and the cuts of clip_editor.py.                      *)
(***************************************************************************)
\* The parts of a timeline inside a window, when longer than least.
Window(tape, from, to, least) ==
    LET cut(p) == LET a == Larger(from, p.at)  b == Smaller(to, EndOf(p))
                  IN Part(p.from + a - p.at, p.from + b - p.at, a - from)
    IN SelectSeq([i \in DOMAIN tape |-> cut(tape[i])], LAMBDA p : p.to - p.from > least)
\* slice_source_timeline
Sliced(map, from, to) ==
    LET total == TapeLength(map)
    IN Window(map, Larger(0, Smaller(from, total)), Larger(0, Smaller(to, total)), 50)
\* save_clip_source_ranges without offsets: the ranges one after the other.
HardCut(ranges) == [i \in DOMAIN ranges |-> Total(SubSeq(ranges, 1, i - 1))]
Rendered(ranges) == Timeline(ranges, Offsets(ranges))

\* load_clip_output_offsets: the stored offsets, when each part starts inside the one
\* before it; else those a render of the ranges would have.
Accepted(map) ==
    map # <<>> /\ map[1].at = 0 /\ \A i \in 2..Len(map) : map[i].at \in map[i - 1].at..EndOf(map[i - 1])
\* Variant: the stored offsets are never used.
AlwaysGuessed(map) == Rendered(RangesOf(map))
Loaded(map) == IF Accepted(map) THEN map ELSE Rendered(RangesOf(map))
\* A guess that assumes crossfades, or forgets them.
Crossfades(map) == \E i \in 2..Len(map) : map[i].at < EndOf(map[i - 1])
Guesses(map) == ~Accepted(map) /\ (Crossfades(map) \/ Crossfades(Rendered(RangesOf(map))))

\* shift_broll_placements: what is left of a placement, 1.5 s or more.
ShiftBRoll(broll, offset, length) ==
    LET moved(b) == LET a == Larger(0, b.start - offset)  z == Smaller(length, b.start - offset + b.length)
                    IN [start |-> a, length |-> z - a, skip |-> b.skip + Larger(0, offset - b.start)]
    IN {moved(b) : b \in {x \in broll : moved(x).length >= 1500}}

(***************************************************************************)
(* The rows.                                                               *)
(***************************************************************************)
\* guessed (a history variable): the map goes back to offsets no render had.
New(tape, map, broll, guessed) ==
    [tape |-> tape, map |-> map, broll |-> broll, guessed |-> guessed, duration |-> FileLength(tape)]
Row(id, order, file) == [id |-> id, order |-> order, file |-> file]
Fresh == CHOOSE i \in Ids : \A c \in clips : c.id # i
FileOf(c) == files[c.file]
Guessed(f) == f.guessed \/ Guesses(f.map)
\* reorder_task_clips: 1..n by clip_order, then by age.
Older(c, d) == c.order < d.order \/ (c.order = d.order /\ c.file < d.file)
Reorder(rows) == {[c EXCEPT !.order = Cardinality({d \in rows : Older(d, c)}) + 1] : c \in rows}
\* Variant: the order of the new half is not freed.
MakeNoRoom(rows, order) == rows
\* make_room_for_clip
MakeRoom(rows, order) == {[c EXCEPT !.order = IF @ >= order THEN @ + 1 ELSE @] : c \in rows}
Drop(gone) == toDelete' = toDelete \cup {c.file : c \in gone}
Edit == edits < MaxEdits /\ edits' = edits + 1

\* The pipeline's clips: one with a crossfade, one with a cold open.
Pipeline ==
    <<New(Rendered(<<Range2(10000, 14000), Range2(15000, 20000)>>), Rendered(<<Range2(10000, 14000), Range2(15000, 20000)>>),
          {[start |-> 3000, length |-> 4000, skip |-> 0]}, FALSE),
      New(Rendered(<<Range2(33000, 34000), Range2(30000, 36000)>>), Rendered(<<Range2(33000, 34000), Range2(30000, 36000)>>),
          {}, FALSE)>>
Init ==
    /\ files = Pipeline
    /\ \E a, b \in Ids : a # b /\ clips = {Row(a, 1, 1), Row(b, 2, 2)} /\ a = CHOOSE i \in Ids : TRUE
    /\ toDelete = {} /\ edits = 0

\* A task without clips, past its last edit.
Gone == files = <<>> /\ clips = {} /\ toDelete = {} /\ edits = MaxEdits

Trim(c, from, back) ==
    LET f == FileOf(c)
        length == FileLength(f.tape)
        end == Smaller(Larger(from + 100, length - back), length)
        map == Sliced(Loaded(f.map), from, TapeLength(Loaded(f.map)) - back)
        tape == Window(f.tape, from, end, 0)
    IN /\ Edit /\ from < length /\ map # <<>>
       /\ files' = Append(files, New(tape, map, ShiftBRoll(f.broll, from, FileLength(tape)), Guessed(f)))
       /\ clips' = (clips \ {c}) \cup {[c EXCEPT !.file = Len(files')]}
       /\ Drop({c})

Split(c, time) ==
    LET f == FileOf(c)
        map == Loaded(f.map)
        at == Larger(200, Smaller(time, f.duration - 200))
        half(from, to, end) ==
            LET tape == Window(f.tape, from, to, 0)
            IN New(tape, Sliced(map, from, end), ShiftBRoll(f.broll, from, FileLength(tape)), Guessed(f))
        first == half(0, at, at)
        second == half(at, FileLength(f.tape), TapeLength(map))
    IN /\ Edit /\ first.map # <<>> /\ second.map # <<>>
       /\ files' = files \o <<first, second>>
       /\ clips' = Reorder(MakeRoom((clips \ {c}) \cup {[c EXCEPT !.file = Len(files) + 1]}, c.order + 1)
                           \cup {Row(Fresh, c.order + 1, Len(files) + 2)})
       /\ Drop({c})

\* merge_clips, in the order of the clips; the first keeps its row. The files are put
\* one after the other, and the maps at the durations of the rows.
Merge(chosen) ==
    LET ordered == SetToSortSeq(chosen, LAMBDA c, d : c.order < d.order)
        put(acc, c) ==
            LET f == FileOf(c)  by == FileLength(acc.tape)
                joined == New(acc.tape \o Shifted(f.tape, by), acc.map \o Shifted(Loaded(f.map), acc.duration),
                              acc.broll \cup ShiftBRoll(f.broll, -by, by + FileLength(f.tape)), acc.guessed \/ Guessed(f))
            IN [joined EXCEPT !.duration = acc.duration + f.duration]
        merged == FoldLeft(put, New(<<>>, <<>>, {}, FALSE), ordered)
    IN /\ Edit /\ Cardinality(chosen) >= 2
       /\ files' = Append(files, [merged EXCEPT !.duration = FileLength(merged.tape)])
       /\ clips' = Reorder((clips \ chosen) \cup {[ordered[1] EXCEPT !.file = Len(files')]})
       /\ Drop(chosen)

Delete(c) ==
    /\ Edit /\ clips' = Reorder(clips \ {c}) /\ Drop({c}) /\ UNCHANGED files

\* update_clip_captions renders the clip again from its source ranges, with the
\* crossfades they allow, and stores the ranges without their offsets.
Recaption(c) ==
    LET f == FileOf(c)  ranges == RangesOf(f.map) IN
    /\ Edit
    /\ files' = Append(files, New(Rendered(ranges), Timeline(ranges, HardCut(ranges)), f.broll, TRUE))
    /\ clips' = (clips \ {c}) \cup {[c EXCEPT !.file = Len(files')]}
    /\ Drop({c})

\* regenerate_all_clips_for_task: every clip from its ranges, the last one longer
\* when its sentence is; a clip that fails is left out, and nothing is replaced
\* when all fail. (The new rows keep the names of the clips they show.)
Regenerate(kept, more) ==
    LET ordered == SetToSortSeq(kept, LAMBDA c, d : c.order < d.order)
        again(c) == LET ranges == WithLast(RangesOf(FileOf(c).map), Last(FileOf(c).map).to + more)
                    IN New(Rendered(ranges), Rendered(ranges), FileOf(c).broll, FALSE)
    IN /\ Edit /\ kept # {}
       /\ files' = files \o [i \in DOMAIN ordered |-> again(ordered[i])]
       /\ clips' = {Row(ordered[i].id, i, Len(files) + i) : i \in DOMAIN ordered}
       /\ Drop(clips)

\* combine_editor: the segments of two drafts, played on copies of the clips that
\* have no captions, one after the other; the clips stay. The copies are rendered with
\* the offsets that were read.
Combine(c, d, cut) ==
    LET taken(f, at, segments) ==
            FoldLeft(LAMBDA acc, s :
                        [acc EXCEPT !.tape = @ \o Shifted(Window(f.tape, s.from, s.to, 0), acc.cursor),
                                    !.map = @ \o Shifted(Sliced(f.map, s.from, s.to), acc.cursor),
                                    !.cursor = @ + Length2(s)],
                     [tape |-> <<>>, map |-> <<>>, cursor |-> at], segments)
        segmentsOf(f) == <<Range2(FileLength(f.tape) - cut, FileLength(f.tape)), Range2(0, cut)>>
        clean(x) == [tape |-> Loaded(FileOf(x).map), map |-> Loaded(FileOf(x).map)]
        first == taken(clean(c), 0, segmentsOf(clean(c)))
        second == taken(clean(d), first.cursor, segmentsOf(clean(d)))
    IN /\ Edit /\ c # d /\ \A x \in {c, d} : FileLength(clean(x).tape) > cut
       /\ files' = Append(files, [New(first.tape \o second.tape, first.map \o second.map, {}, FALSE)
                                  EXCEPT !.duration = second.cursor])
       /\ clips' = Reorder(clips \cup {Row(Fresh, Max({x.order : x \in clips}) + 1, Len(files'))})
       /\ UNCHANGED toDelete

Times == {40, 960, 3925, 4500}
Next ==
    \/ \E c \in clips :
         \/ \E from \in {0} \cup Times, back \in {0, 1200} : from + back > 0 /\ Trim(c, from, back)
         \/ \E t \in Times : Cardinality(clips) < Cardinality(Ids) /\ Split(c, t)
         \/ Delete(c) \/ Recaption(c)
    \/ \E chosen \in SUBSET clips : Merge(chosen) \/ \E more \in {0, 700} : Regenerate(chosen, more)
    \/ Cardinality(clips) < Cardinality(Ids) /\ \E c, d \in clips : Combine(c, d, 905)
Spec == Init /\ [][Next]_kvars

(***************************************************************************)
(* Properties.                                                             *)
(***************************************************************************)
\* What a part says about an output instant.
SourceAt(p, t) == p.from + t - p.at
\* The map and the tape agree: within 100 ms, at every instant either names.
Agrees(map, tape) ==
    /\ \A i \in DOMAIN map : \A t \in {map[i].at, EndOf(map[i])} :
         \E j \in DOMAIN tape : /\ tape[j].at - 100 <= t /\ t <= EndOf(tape[j]) + 100
                                /\ Distance(SourceAt(tape[j], t), SourceAt(map[i], t)) <= 100
    /\ \A j \in DOMAIN tape : EndOf(tape[j]) - tape[j].at > 100 =>
         \E i \in DOMAIN map : Distance(SourceAt(map[i], tape[j].at), tape[j].from) <= 100

\* "Actual source contributions on the rendered timeline, including crossfade overlaps."
TellsTheFile(f) == Agrees(Loaded(f.map), f.tape)

\* load_clip_output_offsets: the map of a clip, as it is read, tells where its source
\* plays, crossfade overlaps included, after each sequence of MaxEdits edits, but for two
\* cases: a caption edit stores hard-cut offsets, and stored offsets that do not pass the
\* check are replaced by those of a render, with crossfades the file does not have or
\* without those it has; what is cut from such a clip is as wrong, until it is regenerated
\* or combined. (A guess without crossfades closes gaps of a frame or a sliver, which add
\* up: the 100 ms do not hold over any number of edits.) The B-roll of a clip lies inside
\* it, but for two crossfades, and apart; and every file is shown or queued for deletion,
\* not both.
ClipsStayTrue ==
    /\ \A c \in clips : LET f == FileOf(c) IN
         /\ Guessed(f) \/ TellsTheFile(f)
         /\ f.guessed \/ \A b \in f.broll :
              /\ b.start >= 0 /\ b.length >= 1500 /\ b.start + b.length <= FileLength(f.tape) + 300
              /\ \A d \in f.broll : d = b \/ d.start >= b.start + b.length \/ b.start >= d.start + d.length
    /\ {c.file : c \in clips} = DOMAIN files \ toDelete

\* The clips are numbered from 1 in the order they play, and an edit moves none of
\* the others: the second half of a split comes right after the first, a combined clip
\* last.
OrderKept ==
    [][/\ {c.order : c \in clips'} = 1..Cardinality(clips')
       /\ \A c, d \in clips : \A x, y \in clips' :
            x.id = c.id /\ y.id = d.id /\ c.order < d.order => x.order < y.order
       /\ \A n \in clips' : (\A c \in clips : c.id # n.id) =>
            IF toDelete' = toDelete
            THEN n.order = Cardinality(clips')
            ELSE \E x \in clips' : x.order = n.order - 1 /\ x.file = n.file - 1]_kvars
=============================================================================
