----------------------------- MODULE MCClipMaking -----------------------------
(* One computation of the clip pipeline per behaviour: an input from a bounded *)
(* set, and the properties of its result. The gaps, lengths and scores around  *)
(* each threshold of the code are all among the inputs.                        *)
EXTENDS DownloadFormats, BRoll, SpeakerCuts, SourceLimits

VARIABLES input, done

\* Words laid end to end from <<gap before, length, kind>>.
Lay(base, parts) ==
    FoldLeft(LAMBDA acc, p :
                LET from == (IF acc = <<>> THEN base ELSE Last(acc).to) + p[1]
                IN Append(acc, [from |-> from, to |-> from + p[2], kind |-> p[3]]),
             <<>>, parts)
Starts(points) == {Range2(a, b) : a, b \in points}
Growing(points) == {r \in Starts(points) : r.from < r.to}

(***************************************************************************)
(* A partial download: planned ranges, and what the cache holds.           *)
(***************************************************************************)
RenderInputs ==
    {[alg |-> "render", pieces |-> p, ranges |-> r, padding |-> pad, duration |-> d, words |-> w] :
        p \in UNION {kSubset(k, Growing({0, 40, 300, 1000, 1060, 2000})) : k \in 0..2},
        r \in UNION {kSubset(k, Growing({0, 300, 1000, 2000})) : k \in 1..2},
        pad \in {0, 100}, d \in {0, 2000},
        w \in {Lay(250, <<<<0, 100, "plain">>, <<500, 200, "plain">>, <<0, 300, "end">>>>)}}

(***************************************************************************)
(* Tracks, and playlists of segments around a gap of five seconds.         *)
(***************************************************************************)
Track(id, proto, original, lang, dub, desc, prefer) ==
    [id |-> id, kind |-> "audio", proto |-> proto, original |-> original, lang |-> lang, dub |-> dub, desc |-> desc,
     prefer |-> prefer, plain |-> id < 5, common |-> id = 1, m4a |-> id < 4, mp4 |-> FALSE, abr |-> 20 * (id % 4),
     height |-> 0, timed |-> proto = "dash"]
Muxed(id, height, lang, dub) ==
    [Track(id, "hls", FALSE, lang, dub, FALSE, FALSE) EXCEPT !.kind = "muxed", !.height = height, !.mp4 = TRUE]
Audios == {Track(1, "https", o, l, FALSE, FALSE, FALSE) : o \in BOOLEAN, l \in {"none", "de"}}
          \cup {Track(2, "dash", FALSE, l, FALSE, d, p) : l \in {"de", "en"}, d, p \in BOOLEAN}
          \cup {Track(3, "https", FALSE, "en", TRUE, FALSE, TRUE)}
          \cup {Track(i, "hls", o, l, FALSE, d, i = 6) : i \in {4, 6}, o, d \in BOOLEAN, l \in {"none", "de", "en"}}
          \cup {Track(5, "hls", FALSE, "en", TRUE, FALSE, TRUE)}
Videos == {Muxed(7, h, l, d) : h \in {360, 1440}, l \in {"none", "de", "en"}, d \in BOOLEAN}
Addressed(lengths) == [i \in 1..2 * Len(lengths) |-> IF i % 2 = 1 THEN [tag |-> "length", value |-> lengths[(i + 1) \div 2]]
                                                     ELSE [tag |-> "address", value |-> 0]]
Playlists == {m \o Addressed(l) \o t :
                m \in {<<>>, <<[tag |-> "sequence", value |-> 3], [tag |-> "map", value |-> 0]>>},
                l \in {<<5000, 5000>>, <<4000, 1, 4000>>, <<2000, 9000, 1000>>, <<0, 9000>>, <<15000>>},
                t \in {<<>>, <<[tag |-> "length", value |-> 400]>>, <<[tag |-> "unsupported", value |-> 0]>>,
                       <<[tag |-> "map", value |-> 0]>>}}
FormatInputs ==
    {[alg |-> "formats", formats |-> <<a, b, c, v>>, language |-> l, limit |-> 720] :
        a \in {x \in Audios : x.id < 4}, b \in {x \in Audios : x.id >= 4},
        c \in {x \in Audios : x.dub \/ (x.lang = "none" /\ x.id \in {1, 6} /\ ~x.desc /\ ~x.original)},
        v \in {Muxed(7, 360, "de", FALSE), Muxed(7, 1440, "en", TRUE)}, l \in {"none", "en", "de"}}
    \cup {[alg |-> "formats", formats |-> <<v, w>>, language |-> l, limit |-> 720] :
            v, w \in Videos \cup {[Track(8, "dash", FALSE, "none", FALSE, FALSE, FALSE) EXCEPT !.kind = "video", !.height = 720]},
            l \in {"none", "en"}}
RelayInputs ==
    {[alg |-> "relay", audios |-> <<a, b>>, size |-> s, chunk |-> 4] : s \in {1, 4, 5, 8, 11},
        a, b \in [tag : {"original", "dubbed", "none"}, drc : BOOLEAN, rate : {0, 128}]}
PlaylistInputs ==
    {[alg |-> "playlist", video |-> v, audio |-> a, from |-> f, to |-> f + 3000, duration |-> d] :
        v \in Playlists, a \in {p \in Playlists : Last(p).tag = "address"}, f \in {0, 4900, 9200}, d \in {9000, 10000, 11999, 17001}}

(***************************************************************************)
(* The cuts of a clip.                                                     *)
(***************************************************************************)
CutParts == {20, 1500, 12000} \X {400} \X {"plain", "end", "weak", "filler"}
CutInputs ==
    {[alg |-> "cuts", words |-> Lay(0, <<p, q, r>>), from |-> s, to |-> s + len, hook |-> Range2(4000, 8000),
      cleanup |-> [pauses |-> c, fillers |-> f, threshold |-> 1200], windows |-> {Range2(6500, 6900)}, max |-> 30000] :
        p, q, r \in CutParts, s \in {0, 1000}, len \in {15000, 35000}, c, f \in BOOLEAN}
    \cup {[alg |-> "cuts", words |-> Lay(100, <<<<0, a, "plain">>, <<g, b, "plain">>, <<0, b, "end">>, <<h, 0, "plain">>>>),
           from |-> 0, to |-> 9000, hook |-> Range2(4000, 8000),
           cleanup |-> [pauses |-> TRUE, fillers |-> FALSE, threshold |-> 600], windows |-> {}, max |-> 6000] :
        a, b \in {0, 90, 3000}, g \in {0, 10, 700}, h \in {0, 40, 2500}}

(***************************************************************************)
(* Plans.                                                                  *)
(***************************************************************************)
Planned(a, b, s) == [from |-> a, to |-> b, scores |-> s, relevance |-> 1, hook |-> Range2(a + 5, a + 9)]
ShortLines == <<Range2(0, 12), Range2(12, 20), Range2(20, 33), Range2(30, 60), Range2(60, 80), Range2(80, 81),
                Range2(90, 200)>>
LongLines == [i \in 1..31 |-> Range2((i - 1) * 30, i * 30 - 2)]
Answers == {Planned(a, b, s) : a \in {0, 13, 35}, b \in {18, 62, 300},
                               s \in {<<25, 25, 25, 20>>, <<10, 0, 0, 0>>, <<0, 0, 0, 0>>}}
Rankings == {<<>>, <<[id |-> 2, score |-> 90], [id |-> 1, score |-> 95]>>,
             <<[id |-> 7, score |-> 90], [id |-> 2, score |-> 7], [id |-> 2, score |-> 70]>>}
PlanInputs ==
    {[alg |-> "plan", lines |-> ShortLines, answers |-> <<<<s, t>>>>, ranking |-> <<>>, length |-> ClipLengths[l]] :
        s, t \in Answers, l \in {"auto", "long"}}
    \cup {[alg |-> "plan", lines |-> LongLines, answers |-> <<<<s>>, <<t>>>>, ranking |-> r, length |-> ClipLengths["auto"]] :
            s, t \in {x \in Answers : x.from # 35}, r \in Rankings}
WindowInputs ==
    {[alg |-> "windows", lines |-> Append([i \in 1..(t \div 60) |-> Range2((i - 1) * 60, i * 60)], Range2(t - 1, t))] :
        t \in {5, 500, 900, 901, 1200, 1319, 1320, 1321, 1500, 1679, 1680, 1920, 3000}}

\* The opening of a segment: four words of every kind and spacing, then a
\* sentence that could start a clip.
OpeningParts == {20, 900} \X {300} \X {"plain", "end", "weak", "filler", "dangling"}
Rest == <<<<0, 300, "plain">>, <<900, 300, "plain">>, <<20, 300, "end">>, <<20, 300, "plain">>>>
OpeningInputs ==
    {[alg |-> "opening", words |-> Lay(300, <<p, q, r, t>> \o Rest), seg |-> Planned(s, 40, <<8, 5, 5, 5>>)] :
        p, q \in OpeningParts, r \in {x \in OpeningParts : x[3] # "weak"}, t \in {x \in OpeningParts : x[3] = "end"},
        s \in {0, 1}}

(***************************************************************************)
(* Documents of a clip of four seconds.                                    *)
(***************************************************************************)
Segs(cuts) == [i \in DOMAIN cuts |-> [id |-> <<0, i>>, from |-> cuts[i][1], to |-> cuts[i][2]]]
Spoken(times) == [i \in DOMAIN times |-> [id |-> <<1, i>>, mark |-> FALSE, from |-> times[i][1], to |-> times[i][2]]]
Cutaway(n, from, to, offset) ==
    [id |-> <<2, n>>, from |-> from, to |-> to, offset |-> offset, footage |-> offset + 2000, in |-> TRUE, out |-> TRUE]
Document(cuts, times, broll, perLine, moved, placed) ==
    [segments |-> Segs(cuts), words |-> Spoken(times), broll |-> broll,
     captions |-> [size |-> 54, y |-> 780, perLine |-> perLine, moved |-> moved, dy |-> -100, scale |-> <<3, 2>>],
     placed |-> [i \in DOMAIN placed |-> [id |-> placed[i], size |-> 40, dy |-> 50]]]
Documents ==
    {Document(c, t, b, p, m, <<<<<<0, 1>>, <<1, 1>>>>, <<<<0, 2>>, <<1, 3>>>>>>) :
        c \in {<<<<0, 4000>>>>, <<<<0, 2000>>, <<2000, 4000>>>>, <<<<2020, 4000>>, <<0, 1980>>>>,
              <<<<0, 1500>>, <<1530, 3000>>, <<3000, 4000>>>>},
        t \in {<<<<100, 600>>, <<650, 2100>>, <<2050, 2400>>, <<3300, 3990>>>>, <<<<2400, 2500>>, <<0, 500>>, <<530, 560>>>>},
        b \in {<<>>, <<Cutaway(1, 2310, 2700, 500), Cutaway(2, 1300, 2300, 0)>>}, p \in {1, 2}, m \in BOOLEAN}
Operations ==
    {[op |-> "keep", ranges |-> r] : r \in {<<Range2(1000, 5000)>>, <<Range2(3000, 3300), Range2(0, 180)>>}}
    \cup {[op |-> "cut", ranges |-> r] : r \in {<<Range2(20, 1970), Range2(1400, 1510)>>, <<Range2(0, 3900)>>}}
    \cup {[op |-> "words", ids |-> {<<1, i>> : i \in w}] : w \in {{1}, {2}, {1, 3}, {9}}}
    \cup {[op |-> "pauses", least |-> l, keep |-> 100] : l \in {0, 700}}
    \cup {[op |-> "size", value |-> v] : v \in {1, 30, 200}} \cup {[op |-> "position", value |-> v] : v \in {0, 500}}
    \cup {[op |-> "highlight", ids |-> {<<1, 2>>}], [op |-> "remove", ids |-> {<<2, 1>>}]}
    \cup {[op |-> "add", from |-> f, to |-> f + 800, footage |-> 1000] : f \in {0, 500, 2700, 3600}}
    \cup {[op |-> "move", id |-> <<2, 1>>, from |-> f, to |-> f + 900] : f \in {300, 2301, 3850}}
EditInputs ==
    {[alg |-> "plan edit", doc |-> d, plan |-> p] : d \in Documents, p \in [1..1 -> Operations]}
    \cup {[alg |-> "plan edit", doc |-> d, plan |-> p] :
            d \in {x \in Documents : x.captions.moved /\ x.captions.perLine = 1 /\ x.broll # <<>>}, p \in [1..2 -> Operations]}
    \cup {[alg |-> "combine", docs |-> <<d, e>>] :
            d \in Documents, e \in {x \in Documents : ~x.captions.moved /\ x.broll # <<>>}}
    \cup {[alg |-> "frame", aspect |-> a, fit |-> f, zoom |-> z, width |-> w, height |-> h] :
            a \in {"vertical", "square", "original"}, f \in {"cover", "contain"}, z \in {10, 13, 30},
            w, h \in {2, 639, 720, 1080, 1281, 1920, 3840}}

(***************************************************************************)
(* Cutaways.                                                               *)
(***************************************************************************)
Cue(from, length, query) == [from |-> from, length |-> length, query |-> query, fallback |-> "sea"]
Video(id, length, score) == [id |-> id, length |-> length, score |-> score, portrait |-> id # 3, mismatch |-> id = 4]
CutawayInputs ==
    {[alg |-> "cutaways", cues |-> <<c, d, e>>, starts |-> s, length |-> l,
      found |-> ("sky" :> <<Video(1, 2500, 1), Video(2, 6000, 1), Video(3, 9000, 5)>>) @@
                ("sea" :> <<Video(1, 2500, 2), Video(2, 6000, 1), Video(4, 9000, 9), Video(5, v, 0)>>), downloadable |-> w] :
        c, d, e \in {Cue(f, n, q) : f \in {0, 9100, 16000}, n \in {500, 3500}, q \in {"sky", "sea"}},
        s \in {{0, 3300, 9900}}, l \in {5499, 14000, 30000}, v \in {4500}, w \in {{1, 2, 5}, {2, 5}}}

(***************************************************************************)
(* Shots, faces and details of a clip that is framed.                      *)
(***************************************************************************)
Sample(risk, single) == [risk |-> risk, single |-> single]
Safe == Sample("none", TRUE)
ShotKinds == {<<Safe, Safe>>, <<Sample("no close subject", TRUE)>>, <<Sample("no close subject", FALSE), Safe>>,
              <<Sample("cut text", TRUE), Safe, Safe>>, <<Sample("interaction", FALSE)>>, <<>>}
ShotsOf(parts) ==
    [i \in DOMAIN parts |->
        LET from == FoldLeft(LAMBDA s, p : s + p[1], 0, SubSeq(parts, 1, i - 1))
        IN [from |-> from, to |-> from + parts[i][1], samples |-> parts[i][2]]]
ShotParts == {400, 1500, 4000} \X ShotKinds
Fit(from, to, reason) == [from |-> from, to |-> to, kind |-> "fit", reason |-> reason]
Detail(time, needed) == [at |-> time, detail |-> needed, protect |-> Range2(needed.from \div 2, needed.to)]
Details == {Range2(0, 500), Range2(300, 890), Range2(400, 400), Range2(100, 840), Range2(50, 900)}
FramingInputs ==
    {[alg |-> "layout", shots |-> ShotsOf(<<p, q, r, <<len, <<Safe>>>>>>)] :
        p, r \in ShotParts, q \in {x \in ShotParts : x[1] # 4000}, len \in {400, 4000}}
    \cup {[alg |-> "faces", faces |-> f, cuts |-> c] :
            f \in [1..10 -> BOOLEAN], c \in {{100, 1400, 2900, 5950}, {2600, 3100}}}
    \cup {[alg |-> "details", samples |-> <<Detail(0, a), Detail(t[1], b), Detail(t[2], c), Detail(t[3], d)>>,
           width |-> w, plan |-> p] :
            a, b, c, d \in Details, w \in {1920, 1280}, t \in {<<4000, 9000, 15000>>, <<5000, 11000, 17000>>},
            p \in {<<Fit(0, 22000, "crowd")>>,
                   <<Fit(0, 5000, "crowd"), Fit(5000, 9000, "cut text"),
                     [from |-> 9000, to |-> 11000, kind |-> "face", reason |-> "subject"], Fit(11000, 23000, "crowd")>>}}

(***************************************************************************)
(* Who speaks, and the captions.                                           *)
(***************************************************************************)
\* Diarized words from <<speaker, gap before, length>>.
Said(parts) ==
    FoldLeft(LAMBDA acc, p :
                LET from == (IF acc = <<>> THEN 200 ELSE Last(acc).to) + p[2]
                IN Append(acc, [who |-> p[1], from |-> from, to |-> from + p[3]]), <<>>, parts)
SaidParts == {"A", "B", "none"} \X {-300, 0, 900} \X {300, 1500}
Turn(who, from, to) == [who |-> who, from |-> from, to |-> to]
Speech == UNION {kSubset(k, {Range2(0, 700), Range2(700, 900), Range2(900, 1100), Range2(1100, 1300),
                             Range2(1300, 2000), Range2(650, 1750)}) : k \in 1..3}
SpeakerInputs ==
    {[alg |-> "turns", words |-> Said(<<<<"A", 0, 1300>>, p, q, r>>)] : p, q, r \in SaidParts}
    \cup {[alg |-> "segments", cuts |-> {s, t}, wide |-> w, crops |-> [i \in own |-> 300 + i], seat |-> m,
           turns |-> <<Turn("A", 0, a), Turn("B", a, b), Turn("C", b, c), Turn("A", c, 9000)>>,
           shots |-> <<Range2(0, s), Range2(s, t), Range2(t, 9000)>>] :
            a \in {900, 1500, 2900}, b \in {3100, 4200}, c \in {4500, 5400, 7200}, s \in {1000, 3000},
            t \in {3300, 5200, 7000}, w \in {{1, 3}, {2}, {1, 2, 3}}, own \in {{2}, {1, 2}, {}},
            m \in {"A" :> 100 @@ "B" :> 900, "B" :> 900}}
    \cup {[alg |-> "overlaps", one |-> a, other |-> b, wide |-> w, mouths |-> m] :
            a, b \in Speech, w \in {<<Range2(0, 3000)>>, <<Range2(0, 1600), Range2(1600, 4000)>>},
            m \in {{}, {Range2(700, 1000), Range2(1200, 1400)}}}
CaptionInputs ==
    {[alg |-> "captions", words |-> Lay(200, <<p, q, r, p, q>>), widths |-> <<a, b, c, a, c>>, size |-> s] :
        p, q, r \in ({0, 40} \X {0, 300} \X {"plain"}) \cup {<<-100, 400, "plain">>},
        a, b, c \in {10, 60, 130}, s \in {2, 4}}
    \cup {[alg |-> "places", height |-> h, font |-> FontSize(f, w), y |-> y, band |-> Range2(b, b + l)] :
            h \in {1080, 1920}, w \in {608, 1080}, f \in {12, 34, 72}, y \in {300, 620, 800, 940},
            b \in {100, 400, 450, 500, 700, 780, 850}, l \in {20, 100, 300}}
    \cup {[alg |-> "title", lengths |-> <<a, b, c>>, font |-> FontSize(f, 1080), usable |-> u, duration |-> d, wanted |-> w] :
            a, b, c \in {1, 6, 20}, f \in {12, 34, 72}, u \in {384, 929}, d \in {20, 400, 1500, 1600, 4000, 20000},
            w \in {<<>>, <<Range2(0, 30)>>, <<Range2(1400, 1200)>>}}

(***************************************************************************)
(* A source as it is made ready: its size, and the lines of its transcript. *)
(***************************************************************************)
Edges == {2, 607, 1079, 1080, 1081, 1440, 1919, 1920, 1922, 2160, 3839, 4096}
CapInputs ==
    {[alg |-> "cap", source |-> [width |-> w, height |-> h, shape |-> s, turned |-> t, rate |-> r]] :
        w, h \in Edges, s \in {<<1, 1>>, <<4, 3>>, <<3, 4>>}, t \in {FALSE}, r \in {0, 60010, 60011}}
    \cup {[alg |-> "cap", source |-> [width |-> w, height |-> h, shape |-> <<1, 1>>, turned |-> TRUE, rate |-> r]] :
            w, h \in Edges, r \in {30000, 120000}}
SmallLimits == [min |-> 2, max |-> 3, ms |-> 3000, longMax |-> 4, longMs |-> 5000, splitMs |-> 6000, splitWords |-> 4]
WordKinds == {<<0, 900, "plain">>, <<100, 900, "end">>, <<1400, 2000, "plain">>}
Utterance(words) == [from |-> Head(words).from, to |-> Last(words).to, words |-> words]
LineInputs ==
    {[alg |-> "lines", words |-> Lay(500, p), uttered |-> u, limits |-> SmallLimits] :
        p \in UNION {[1..n -> WordKinds] : n \in {1, 4, 6}}, u \in {{}, {1}, {1, 3}, {1, 6}}}
    \cup {[alg |-> "lines", words |-> Lay(0, [i \in 1..100 |-> <<0, l, IF i % e = 0 THEN "end" ELSE "plain">>]),
           uttered |-> u, limits |-> LineLimits] : l \in {200, 700, 2000}, e \in {5, 11, 30}, u \in {{}, {1}, {1, 70}}}
\* An utterance begins at each of the places that are there.
Utterances(words, begins) ==
    LET at == SetToSortSeq(begins \cap DOMAIN words, <)
    IN [i \in DOMAIN at |-> Utterance(SubSeq(words, at[i], IF i < Len(at) THEN at[i + 1] - 1 ELSE Len(words)))]

\* A computation takes an input, and its result is judged by the step that ends it.
Pending(stage) == input = [alg |-> stage] /\ done = FALSE
Compute(stage, inputs) == Pending(stage) /\ done' = TRUE /\ input' \in inputs
NoInput == input = [alg |-> "none"] /\ done = TRUE
Deliver == done /\ ~NoInput /\ input' = [alg |-> "none"] /\ UNCHANGED done
NextComputation ==
    \/ Compute("source", RenderInputs) \/ Compute("formats", FormatInputs \cup RelayInputs)
    \/ Compute("playlists", PlaylistInputs) \/ Compute("cuts", CutInputs)
    \/ Compute("plans", PlanInputs) \/ Compute("windows", WindowInputs) \/ Compute("openings", OpeningInputs)
    \/ Compute("edits", EditInputs) \/ Compute("cutaways", CutawayInputs)
    \/ Compute("framing", FramingInputs) \/ Compute("speakers", SpeakerInputs) \/ Compute("captions", CaptionInputs)
    \/ Compute("readings", CapInputs \cup LineInputs)
    \/ Deliver
Stages == {"source", "formats", "playlists", "cuts", "plans", "windows", "openings", "edits", "cutaways",
           "framing", "speakers", "captions", "readings"}
Chosen == \E stage \in Stages : Pending(stage)

Computed(alg) == done /\ input.alg = alg
computation == <<input, done>>
\* What is downloaded is the original speech, the whole of each gap, and enough for
\* the plan, and what is rendered is what was planned.
RenderOk ==
  [][/\ Computed("render") => RenderFollowsSource(input.pieces, input.ranges, input.padding, input.duration, input.words)
     /\ Computed("formats") => SpeaksOriginal(input.formats, input.language, input.limit)
     /\ Computed("cap") => CapHolds(input.source)
     /\ Computed("relay") => RelayHolds(input.audios, input.size, input.chunk)
     /\ Computed("playlist") => SectionsCover(input.video, input.audio, input.from, input.to, input.duration)]_computation
\* A clip plays its speech whole, in order and within its cap, and a repair of the
\* word timings loses no word; at each moment one crop of it is shown, that of the shot
\* or of who speaks, and every word has its caption, clear of what is burned in.
CutsOk ==
  [][/\ Computed("cuts") => RepairKeepsWords(input.words) /\
            CutsFollowSpeech(input.words, input.from, input.to, input.cleanup, input.windows, 0, input.hook, input.max)
     /\ Computed("layout") => LayoutsHold(input.shots, [plan |-> LayoutPlan(input.shots), narrow |-> FALSE, reaction |-> FALSE,
                                                       talking |-> "stack", speakers |-> "cuts"])
     /\ Computed("faces") => RunsHold([i \in 1..10 |-> (i - 1) * 600], input.faces, 1, input.cuts, 6000)
     /\ Computed("details") => WindowsHold(input.plan, input.samples, input.width, 1080)
     /\ Computed("turns") => TurnsHold(input.words)
     /\ Computed("segments") =>
            SegmentsHold(input.turns, input.seat, input.shots, input.wide, input.crops, input.cuts, 9000)
     /\ Computed("overlaps") => OverlapsHold(input.one, input.other, input.wide, input.mouths)
     /\ Computed("captions") => CaptionsHold(input.words, input.widths, 5, 140, input.size)
     /\ Computed("places") => PlacesHold(input.height, (input.font * 3) \div 2, input.y, input.band)
     /\ Computed("title") => TitleHolds(input.lengths, TitleBase(input.font), input.usable, input.duration, input.wanted)
  ]_computation
\* The plan is sound whatever the model answers, the model sees every line, and the
\* opening the review chose is the one the render plays.
PlanOk ==
  [][/\ Computed("lines") => LinesHold(Utterances(input.words, input.uttered), input.words, input.limits)
     /\ Computed("plan") => PlanIsSound(input.lines, input.answers, input.ranking, input.length, 10)
     /\ Computed("windows") => WindowsCover(input.lines)
     /\ Computed("opening") => ReviewedOpeningIsPlayed(input.words, input.seg, 15)]_computation
\* Edits and combined clips stay documents that play what they did.
EditsOk ==
  [][/\ Computed("plan edit") => /\ PlaysInside(input.doc) /\ PlanIsKept(input.doc, input.plan, 4000)
                                 /\ PlaysInside(ApplyPlan(input.doc, input.plan, 4000))
     /\ Computed("combine") => CombineKeeps(input.docs)
     /\ Computed("cutaways") => CutawaysHold(input.cues, input.starts, input.length, input.found, input.downloadable)
     /\ Computed("frame") => FrameFits(input.aspect, input.fit, input.zoom, input.width, input.height)]_computation
\* A clip is what its cuts and its edits say.
ClipsOk == CutsOk /\ EditsOk
=============================================================================
