------------------------------ MODULE SourceLimits ------------------------------
(* The ceiling of 1080p and 60 fps on a source (media/source_limits.py), and the   *)
(* lines its transcript is shown to the model in (media/transcription.py). Times   *)
(* are milliseconds, rates thousandths of a frame per second; a ratio is <<n, d>>. *)
EXTENDS SourceTimeline

\* Python's round: to the even one when halfway.
Rounded(n, d) == LET q == n \div d
                     r == 2 * (n % d)
                 IN IF r > d \/ (r = d /\ q % 2 = 1) THEN q + 1 ELSE q
Evened(x) == x - (x % 2)

(***************************************************************************)
(* Geometry: coded width and height, pixel shape, rotation, rate (0 when   *)
(* it is unknown).                                                         *)
(***************************************************************************)
Anamorphic(g) == Distance(g.shape[1], g.shape[2]) * 100 > g.shape[2]
\* As it is shown: square pixels, upright.
DisplaySize(g) ==
    LET w == IF Anamorphic(g) THEN Larger(2, Evened(Rounded(g.width * g.shape[1], g.shape[2]))) ELSE g.width
    IN IF g.turned THEN <<g.height, w>> ELSE <<w, g.height>>
TooFast(g) == g.rate > 60010
ExceedsLimits(g) == LET d == DisplaySize(g) IN Larger(d[1], d[2]) > 1920 \/ Smaller(d[1], d[2]) > 1080 \/ TooFast(g)

\* Variant: the long edge decides alone.
FitLongEdge(size) ==
    LET long == Larger(size[1], size[2])
    IN IF long <= 1920 THEN size ELSE [i \in 1..2 |-> Larger(2, Evened(Rounded(size[i] * 1920, long)))]
\* The size within both edges, even, of the same shape; a source is never enlarged.
FitWithin(size) ==
    LET long == Larger(size[1], size[2])
        short == Smaller(size[1], size[2])
        byLong == 1920 * short <= 1080 * long
        scaled(x) == IF byLong THEN Rounded(x * 1920, long) ELSE Rounded(x * 1080, short)
        cap(i) == IF size[i] = long /\ (i = 1 \/ size[1] # long) THEN 1920 ELSE 1080
    IN IF long <= 1920 /\ short <= 1080 THEN size
       ELSE [i \in 1..2 |-> Larger(2, Smaller(Evened(scaled(size[i])), cap(i)))]

\* What the filters of a successful encode leave: upright, square, scaled, slowed.
Encoded(g) ==
    LET shown == DisplaySize(g)
        frame == IF g.turned THEN <<g.height, g.width>> ELSE <<g.width, g.height>>
        shape == IF g.turned THEN <<g.shape[2], g.shape[1]>> ELSE g.shape
        square == IF Anamorphic(g) THEN <<((frame[1] * shape[1]) \div (2 * shape[2])) * 2, frame[2]>> ELSE frame
        size == IF FitWithin(shown) # shown THEN FitWithin(shown) ELSE square
    IN [width |-> size[1], height |-> size[2], shape |-> <<1, 1>>, turned |-> FALSE,
        rate |-> IF TooFast(g) THEN 60000 ELSE g.rate]
\* Tone mapping comes first, and is given up last; audio is copied before it is encoded.
Attempts(hdr, sound) ==
    LET audio == IF sound THEN <<"copy", "encode">> ELSE <<"copy">>
        with(tone) == [i \in DOMAIN audio |-> [tone |-> tone, audio |-> audio[i]]]
    IN (IF hdr THEN with(TRUE) ELSE <<>>) \o with(FALSE)

\* A source above the ceiling is below it once encoded, so that it is never encoded
\* twice, keeps its shape to the pixel, and fills the ceiling along one of its edges.
CapHolds(g) ==
    LET e == Encoded(g)
        shown == DisplaySize(g)
        fitted == FitWithin(shown)
    IN ExceedsLimits(g) =>
         /\ ~ExceedsLimits(e)
         /\ Distance(e.width * shown[2], e.height * shown[1]) <= 2 * (shown[1] + shown[2])
         /\ fitted # shown => /\ e.width % 2 = 0 /\ e.height % 2 = 0
                              /\ Larger(e.width, e.height) >= 1918 \/ Smaller(e.width, e.height) >= 1078

(***************************************************************************)
(* Lines of the transcript.                                                *)
(***************************************************************************)
\* The limits of the code, and how far a long utterance is split.
LineLimits == [min |-> 8, max |-> 8, ms |-> 12000, longMax |-> 24, longMs |-> 20000,
               splitMs |-> 45000, splitWords |-> 80]
LineOf(from, to, words) == [from |-> from \div 1000, to |-> to \div 1000, words |-> words]
WordsLine(words) == LineOf(Head(words).from, Last(words).to, words)
\* A line ends when it is full, or, with enough words, at a sentence or after its time.
FullLine(words, min, max, ms) ==
    \/ Len(words) >= max
    \/ Len(words) >= min /\ (Last(words).kind = "end" \/ Last(words).to - Head(words).from >= ms)
FillLines(words, min, max, ms) ==
    FoldLeft(LAMBDA acc, w :
                LET line == Append(acc.open, w)
                IN IF FullLine(line, min, max, ms) THEN [lines |-> Append(acc.lines, WordsLine(line)), open |-> <<>>]
                   ELSE [acc EXCEPT !.open = line],
             [lines |-> <<>>, open |-> <<>>], words)
\* Variant: what is left over at the end is dropped.
WordLinesUnflushed(words, min, max, ms) == FillLines(words, min, max, ms).lines
WordLines(words, min, max, ms) ==
    LET all == FillLines(words, min, max, ms)
    IN IF all.open = <<>> THEN all.lines ELSE Append(all.lines, WordsLine(all.open))
\* An utterance is one line unless it is long; without utterances the words are cut.
AnalysisLines(utterances, words, l) ==
    LET long(u) == u.words # <<>> /\ (u.to - u.from > l.splitMs \/ Len(u.words) > l.splitWords)
        lines(u) == IF long(u) THEN WordLines(u.words, l.min, l.longMax, l.longMs)
                    ELSE <<LineOf(u.from, u.to, u.words)>>
    IN IF utterances = <<>> THEN WordLines(words, l.min, l.max, l.ms)
       ELSE FlattenSeq([i \in DOMAIN utterances |-> lines(utterances[i])])

\* The model is shown every word once and in order; no line is longer than a whole
\* utterance may be, or goes on past its limits; and the times of the lines, cut to
\* seconds, never run backwards.
LinesHold(utterances, words, l) ==
    LET lines == AnalysisLines(utterances, words, l)
        split(i) == utterances = <<>> \/ ~\E u \in DOMAIN utterances : utterances[u].words = lines[i].words
        line(i) == lines[i].words
    IN /\ FlattenSeq([i \in DOMAIN lines |-> line(i)]) = words
       /\ \A i \in DOMAIN lines :
            /\ line(i) # <<>>
            /\ Len(line(i)) <= Larger(Larger(l.max, l.longMax), l.splitWords)
            /\ ~split(i) => Last(line(i)).to - Head(line(i)).from <= l.splitMs \/ Len(line(i)) <= l.longMax
            /\ split(i) =>
                 LET ms == IF utterances = <<>> THEN l.ms ELSE l.longMs
                     before == SubSeq(line(i), 1, Len(line(i)) - 1)
                 IN Len(before) >= l.min => Last(before).to - Head(before).from < ms /\ Last(before).kind # "end"
            /\ lines[i].from <= lines[i].to
            /\ i < Len(lines) => lines[i].to <= lines[i + 1].from
=============================================================================
