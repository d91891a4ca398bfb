------------------------------ MODULE ClipCaptions ------------------------------
(* The captions and the title burned into a clip (media/captions.py): how words  *)
(* are divided into lines, when each is shown, and where. Times are milliseconds *)
(* of the clip, sizes pixels; what a word measures is an input.                  *)
EXTENDS ClipCuts

(***************************************************************************)
(* Lines.                                                                  *)
(***************************************************************************)
\* A group of words that is too wide is cut where the wider part is narrowest, the
\* later cut of two; a word too wide alone stays alone, and is drawn smaller. Runs
\* of words are half-open.
Width(widths, space, a, b) == FoldLeft(LAMBDA s, w : s + w, space * Larger(0, b - a - 1), SubSeq(widths, a, b - 1))
SplitChunk(widths, space, max, first, end) ==
    LET wider(a, c, b) == Larger(Width(widths, space, a, c), Width(widths, space, c, b))
        cut(a, b) == CHOOSE c \in a + 1..b - 1 : \A d \in a + 1..b - 1 :
                        wider(a, c, b) < wider(a, d, b) \/ (wider(a, c, b) = wider(a, d, b) /\ c >= d)
        split[r \in (first..end) \X (first..end)] ==
            IF r[2] - r[1] <= 1 \/ Width(widths, space, r[1], r[2]) <= max THEN <<Range2(r[1], r[2])>>
            ELSE split[<<r[1], cut(r[1], r[2])>>] \o split[<<cut(r[1], r[2]), r[2]>>]
    IN split[<<first, end>>]
\* Variant: the halves of a line that is too wide are not looked at again.
CaptionLinesOnce(widths, space, max, size) ==
    LET n == Len(widths) IN
    FlattenSeq([g \in 1..(n + size - 1) \div size |->
        LET first == (g - 1) * size + 1
            end == Smaller(n + 1, g * size + 1)
            mid == (first + end) \div 2
        IN IF end - first <= 1 \/ Width(widths, space, first, end) <= max THEN <<Range2(first, end)>>
           ELSE <<Range2(first, mid), Range2(mid, end)>>])
CaptionLines(widths, space, max, size) ==
    LET n == Len(widths) IN
    FlattenSeq([g \in 1..(n + size - 1) \div size |->
        SplitChunk(widths, space, max, (g - 1) * size + 1, Smaller(n + 1, g * size + 1))])

\* One event per word of a karaoke line, until the next word of the line starts;
\* otherwise one per line. None is empty.
Shown(from, to) == Range2(from, IF to <= from THEN from + 50 ELSE to)
KaraokeEvents(words, lines) ==
    FlattenSeq([k \in DOMAIN lines |->
        [i \in 1..Length2(lines[k]) |->
            LET w == lines[k].from + i - 1
            IN Shown(words[w].from, IF w + 1 < lines[k].to THEN words[w + 1].from ELSE words[w].to)]])
LineEvents(words, lines) ==
    [k \in DOMAIN lines |-> Shown(words[lines[k].from].from, words[lines[k].to - 1].to)]

(***************************************************************************)
(* Places.                                                                 *)
(***************************************************************************)
FontSize(base, width) == Smaller(132, Larger(26, (base * width + 280) \div 560))
BottomPad(height) == Larger(120, height \div 10)
SafeY(height, text, permille) ==
    Larger(Larger(40, height \div 20),
           Smaller((height * permille) \div 1000 - text \div 2, height - BottomPad(height) - text))
\* Off the captions that are burned into the source: above them, unless that would be
\* on the face, or below them, unless that would leave the safe area.
ClearOf(center, text, band, height) ==
    LET gap == Larger(12, (height * 15) \div 1000)
        half == text \div 2
        top == (band.from * height) \div 1000
        bottom == (band.to * height) \div 1000
        above == top - gap - half
        below == bottom + gap + half
        lowest == height - BottomPad(height) - half
    IN IF center + half + gap <= top \/ center - half - gap >= bottom THEN center
       ELSE IF above * 100 >= height * 45 THEN above
       ELSE IF below <= lowest THEN below
       ELSE Larger(above, (height * 45) \div 100)

(***************************************************************************)
(* The title of the hook.                                                  *)
(***************************************************************************)
\* One line, or the two whose longer one is shortest.
TitleLines(lengths, max) ==
    LET n == Len(lengths)
        whole == Width(lengths, 1, 1, n + 1)
        longer(i) == Larger(Width(lengths, 1, 1, i), Width(lengths, 1, i, n + 1))
    IN IF whole <= max \/ n < 2 THEN <<whole>>
       ELSE LET i == CHOOSE i \in 2..n : \A j \in 2..n : longer(i) < longer(j) \/ (longer(i) = longer(j) /\ i <= j)
            IN <<Width(lengths, 1, 1, i), Width(lengths, 1, i, n + 1)>>
TitleBase(font) == Smaller(96, Larger(font + 8, (font * 135 + 50) \div 100))
\* Smaller where a line is too long; the editor keeps it readable.
TitleSize(lengths, base, usable, edited) ==
    LET max == Larger(10, (usable * 100) \div (base * 52))
        longest == Max(ToSet(TitleLines(lengths, max)))
        fitted == Smaller(base, Larger(1, (usable * 100) \div (longest * 52)))
    IN IF longest <= max THEN base ELSE IF edited THEN Larger(30, fitted) ELSE fitted
\* wanted: the times of the editor, if it has any.
TitleTime(duration, wanted) ==
    LET from == Larger(0, Smaller(wanted[1].from, Larger(0, duration - 40)))
    IN IF wanted # <<>>
       THEN Range2(from, Larger(from + Smaller(40, duration), Smaller(wanted[1].to, duration)))
       ELSE IF duration <= 1500 THEN Range2(0, Larger(500, duration))
       ELSE Range2(120, Smaller(4000, Larger(1500, duration - 250)))

(***************************************************************************)
(* Properties                                                              *)
(***************************************************************************)
\* Every word is in one line, in order; a line fits unless it is one word, and a
\* group that fits is not divided. Two captions are on screen at once only where the
\* words themselves are spoken at once, in either animation.
CaptionsHold(words, widths, space, max, size) ==
    LET lines == CaptionLines(widths, space, max, size)
        karaoke == KaraokeEvents(words, lines)
        whole == LineEvents(words, lines)
        group(w) == (w - 1) \div size
    IN /\ FlattenSeq([k \in DOMAIN lines |-> [i \in 1..Length2(lines[k]) |-> lines[k].from + i - 1]])
             = [i \in DOMAIN words |-> i]
       /\ \A k \in DOMAIN lines :
            /\ Length2(lines[k]) = 1 \/ Width(widths, space, lines[k].from, lines[k].to) <= max
            /\ group(lines[k].from) = group(lines[k].to - 1)
       /\ \A k \in 1..Len(lines) - 1 :
            LET g == group(lines[k].from) IN
            g = group(lines[k + 1].from) => Width(widths, space, g * size + 1, Smaller(Len(widths) + 1, (g + 1) * size + 1)) > max
       /\ \A i \in 1..Len(karaoke) - 1 :
            karaoke[i].to > karaoke[i + 1].from =>
                words[i].to > words[i + 1].from \/ words[i + 1].from <= words[i].from \/ words[i].to <= words[i].from
       /\ \A k \in 1..Len(whole) - 1 :
            whole[k].to > whole[k + 1].from =>
                LET w == lines[k].to - 1 IN words[w].to > words[w + 1].from \/ words[w].to <= words[w].from
\* A caption is clear of the burned-in captions wherever a place between the face and
\* the safe area is, and stays above the safe area.
PlacesHold(height, text, permille, band) ==
    LET at == SafeY(height, text, permille)
        moved == ClearOf(at, text, band, height)
        half == text \div 2
        clear(y) == y + half <= (band.from * height) \div 1000 \/ y - half >= (band.to * height) \div 1000
        gap == Larger(12, (height * 15) \div 1000)
        free == {y \in ((height * 45) \div 100 + 1)..height - BottomPad(height) - half :
                    clear(y - gap) /\ clear(y + gap)}
    IN /\ free # {} => clear(moved)
       /\ moved + half <= height - BottomPad(height)
\* A title fits its width as far as it may shrink, and is shown within the clip.
TitleHolds(lengths, base, usable, duration, wanted) ==
    LET size == TitleSize(lengths, base, usable, wanted # <<>>)
        max == Larger(10, (usable * 100) \div (base * 52))
        longest == Max(ToSet(TitleLines(lengths, max)))
        time == TitleTime(duration, wanted)
    IN /\ size <= Larger(base, 30) /\ size >= (IF wanted # <<>> THEN Smaller(30, base) ELSE 1)
       /\ longest > 10 /\ size > (IF wanted # <<>> THEN 30 ELSE 1) => longest * size * 52 <= usable * 100
       /\ 0 <= time.from /\ time.from < time.to
       /\ time.to <= Larger(duration, IF wanted = <<>> THEN 500 ELSE 0)
=============================================================================
