---------------------------- MODULE DownloadFormats ----------------------------
(* Which tracks of a YouTube video are downloaded, and which of their fragments   *)
(* (youtube_proxy.py, rapidapi_youtube_downloader.py). A format is a record; its  *)
(* labels are what the code reads in notes, ids and language preferences.         *)
EXTENDS ClipSelection

\* The order of several yes-or-no criteria, best first, then of a number.
Rank(flags, number) == 10000 * FoldLeft(LAMBDA sum, b : 2 * sum + (IF b THEN 0 ELSE 1), 0, flags) + number
HasVideo(f) == f.kind \in {"video", "muxed"} /\ f.height > 0
Fragmented(f) == f.proto \in {"dash", "hls"}

(***************************************************************************)
(* Tracks.                                                                 *)
(***************************************************************************)
PickVideo(formats, limit) ==
    LET fit == SelectSeq(formats, LAMBDA f : HasVideo(f) /\ f.height <= limit)
    IN IF fit = <<>> THEN {}
       ELSE {Least(fit, LAMBDA f : Rank(<<f.timed, Fragmented(f), f.mp4>>, 9999 - f.height))}

\* What the video was spoken in, from every audio track but dubs and descriptions:
\* a track labelled original says it, the language of the video only without one.
OriginalAudio(formats, videoLanguage) ==
    LET labeled == SelectSeq(formats, LAMBDA f : f.kind = "audio" /\ ~f.dub /\ ~f.desc /\ f.original)
        spoken == SelectSeq(labeled, LAMBDA f : f.lang # "none")
    IN IF labeled = <<>> THEN videoLanguage ELSE IF spoken = <<>> THEN "none" ELSE spoken[1].lang
Identifiable(f, language) == f.original \/ (language # "none" /\ f.lang = language)
PreferOriginal(formats, language) ==
    LET heard == SelectSeq(formats, LAMBDA f : ~f.dub)
        plainSpeech == SelectSeq(heard, LAMBDA f : ~f.desc)
        spoken == IF plainSpeech = <<>> THEN heard ELSE plainSpeech
        known == SelectSeq(spoken, LAMBDA f : Identifiable(f, language))
        kept == IF known = <<>> \/ language = "none" THEN spoken
                ELSE SelectSeq(spoken, LAMBDA f : f.original \/ f.lang \in {"none", language})
        unnumbered == SelectSeq(kept, LAMBDA f : f.plain)
        preferred == SelectSeq(kept, LAMBDA f : f.prefer)
    IN IF known # <<>> THEN known \o SelectSeq(kept, LAMBDA f : f.prefer /\ ~Identifiable(f, language))
       ELSE IF unnumbered \notin {<<>>, kept} THEN unnumbered
       ELSE IF preferred # <<>> THEN preferred ELSE kept

\* For the analysis a modest track; for a section one whose fragments have times.
PickAudio(formats, language, modest) ==
    LET pool == PreferOriginal(SelectSeq(formats, LAMBDA f : f.kind = "audio"), language)
        small == SelectSeq(pool, LAMBDA f : f.common \/ (f.abr \in 1..160 /\ f.m4a))
    IN IF pool = <<>> THEN {}
       ELSE IF modest
       THEN {Least(IF small = <<>> THEN pool ELSE small, LAMBDA f : Rank(<<f.common>>, 9999 - f.abr))}
       ELSE {Least(pool, LAMBDA f : Rank(<<f.timed, Fragmented(f), f.m4a \/ f.common>>, 9999 - f.abr))}
\* After a 403: an HLS track, or the smallest HLS video that speaks the language.
PickHls(formats, excluded, language, limit) ==
    LET hls == SelectSeq(formats, LAMBDA f : f.proto = "hls" /\ f.id \notin excluded)
        pool == PreferOriginal(SelectSeq(hls, LAMBDA f : f.kind = "audio"), language)
        unknown == \A i \in DOMAIN pool : ~Identifiable(pool[i], language)
        muxed == PreferOriginal(SelectSeq(hls, LAMBDA f : f.kind = "muxed" /\ f.height \in 1..limit), language)
        size(f) == IF f.abr = 0 THEN 9999 ELSE f.abr
    IN IF pool # <<>>
       THEN {Least(pool, LAMBDA f : Rank(<<Identifiable(f, language), unknown /\ f.plain>>, size(f)))}
       ELSE IF muxed = <<>> THEN {}
       ELSE {Least(muxed, LAMBDA f : Rank(<<Identifiable(f, language)>>, f.height))}
\* The relay's tracks say what they are, or all of them say nothing.
PickRelayed(audios) ==
    LET originals == SelectSeq(audios, LAMBDA a : a.tag = "original")
        untagged == SelectSeq(audios, LAMBDA a : a.tag = "none" /\ ~a.drc)
        fit == IF originals # <<>> THEN originals
               ELSE IF \A i \in DOMAIN audios : audios[i].tag = "none" THEN untagged ELSE <<>>
    IN IF fit = <<>> THEN {} ELSE {Least(fit, LAMBDA a : Rank(<<~a.drc>>, 9999 - a.rate))}
\* The byte ranges its eight threads fetch.
ByteParts(size, chunk) == {Range2(p * chunk, Smaller((p + 1) * chunk, size) - 1) : p \in 0..(size - 1) \div chunk}

(***************************************************************************)
(* Fragments.                                                              *)
(***************************************************************************)
\* A media playlist, line by line: its segments from the start of the source, or
\* nothing where a line is not understood or the whole is not as long as the source.
Refused(acc) == [acc EXCEPT !.ok = FALSE]
ReadLine(acc, line) ==
    CASE line.tag = "unsupported" -> Refused(acc)
      [] line.tag = "sequence" -> IF acc.seen THEN Refused(acc) ELSE [acc EXCEPT !.number = line.value]
      [] line.tag = "map" -> IF acc.out # <<>> THEN Refused(acc)
                             ELSE [acc EXCEPT !.out = Append(@, [init |-> TRUE, from |-> 0, to |-> 0, number |-> 0])]
      [] line.tag = "length" -> IF acc.length # 0 \/ line.value <= 0 THEN Refused(acc)
                                ELSE [acc EXCEPT !.length = line.value]
      [] line.tag = "address" ->
            IF acc.length = 0 THEN Refused(acc)
            ELSE [acc EXCEPT !.out = Append(@, [init |-> FALSE, from |-> acc.at, to |-> acc.at + acc.length,
                                                number |-> acc.number]),
                             !.at = @ + acc.length, !.number = @ + 1, !.length = 0, !.seen = TRUE]
ParseHls(lines, duration) ==
    LET read == FoldLeft(ReadLine, [ok |-> TRUE, at |-> 0, length |-> 0, number |-> 0, seen |-> FALSE, out |-> <<>>], lines)
    IN IF read.ok /\ read.length = 0 /\ read.seen
          /\ Distance(read.at, duration) <= Larger(2000, duration \div 1000)
       THEN read.out ELSE <<>>

\* The fragments that overlap a window, and what they span.
SelectFragments(fragments, start, end) ==
    LET chosen == SelectSeq(fragments, LAMBDA f : f.init \/ f.to - f.from <= 1 \/ (f.to > start /\ f.from < end))
        media == {i \in DOMAIN chosen : ~chosen[i].init /\ chosen[i].to > start /\ chosen[i].from < end
                                        /\ chosen[i].to - chosen[i].from > 1}
    IN IF end <= start \/ media = {} THEN <<>>
       ELSE <<[fragments |-> chosen, from |-> Min({chosen[i].from : i \in media}),
               to |-> Max({chosen[i].to : i \in media})]>>

\* One section: what both tracks have of it, cut to a common start.
Section(video, audio, start, end, duration) ==
    LET stop == IF duration > 0 THEN Smaller(end, duration) ELSE end
        v == SelectFragments(video, start, stop)
        a == SelectFragments(audio, start, stop)
        from == Larger(v[1].from, a[1].from)
        to == Smaller(v[1].to, a[1].to)
    IN IF v = <<>> \/ a = <<>> THEN <<>>
       ELSE IF to - from < 500 THEN <<>>
       ELSE <<[from |-> from, to |-> to, videoOffset |-> from - v[1].from, audioOffset |-> from - a[1].from,
               video |-> v[1], audio |-> a[1]]>>

(***************************************************************************)
(* Properties                                                              *)
(***************************************************************************)
\* "Dubbed tracks are removed before bitrate ranking so a low-abr auto-dub cannot
\* win" (youtube_proxy.py:870): whatever the client's locale says, no dub is ever
\* downloaded, a description only where there is nothing else, and where a track of
\* the original language can be told, no track of another language; the retry in HLS
\* takes one that can be told.
SpeaksOriginal(formats, videoLanguage, limit) ==
    LET language == OriginalAudio(formats, videoLanguage)
        some(test(_)) == \E i \in DOMAIN formats : formats[i].kind = "audio" /\ ~formats[i].dub /\ test(formats[i])
        hls == PickHls(formats, {}, language, limit)
    IN /\ \A f \in PickAudio(formats, language, TRUE) \cup PickAudio(formats, language, FALSE) :
            /\ f.kind = "audio" /\ ~f.dub
            /\ f.desc => ~some(LAMBDA g : ~g.desc)
            /\ some(LAMBDA g : ~g.desc /\ Identifiable(g, language)) /\ language # "none" =>
                  f.original \/ f.lang \in {"none", language}
       /\ \A f \in hls :
            /\ ~f.dub /\ f.proto = "hls" /\ (f.kind = "muxed" => f.height <= limit)
            /\ f.kind = "audio" /\ some(LAMBDA g : g.proto = "hls" /\ ~g.desc /\ Identifiable(g, language)) =>
                  Identifiable(f, language) /\ ~f.desc
       /\ \A f \in PickVideo(formats, limit) : f.height <= limit
       /\ PickVideo(formats, limit) = {} => \A i \in DOMAIN formats : HasVideo(formats[i]) => formats[i].height > limit
\* The relay never mixes a language in, and its parts are the file.
RelayHolds(audios, size, chunk) ==
    /\ \A a \in PickRelayed(audios) : a.tag = "original" \/ \A i \in DOMAIN audios : audios[i].tag = "none"
    /\ \A b \in 0..size - 1 : Cardinality({p \in ByteParts(size, chunk) : b \in p.from..p.to}) = 1
    /\ \A p \in ByteParts(size, chunk) : p.from \in 0..p.to /\ p.to < size
\* An accepted playlist is the source end to end, in order and numbered through, and a
\* section cut from two of them has all of its window that both tracks have.
SectionsCover(videoLines, audioLines, start, end, duration) ==
    LET video == ParseHls(videoLines, duration)
        audio == ParseHls(audioLines, duration)
        media(fs) == SelectSeq(fs, LAMBDA f : ~f.init)
        length(fs) == Last(media(fs)).to
        stop == Smaller(end, Smaller(duration, Smaller(length(video), length(audio))))
        cut == Section(video, audio, start, end, duration)
    IN /\ \A fs \in {video, audio} : fs # <<>> =>
            LET m == media(fs) IN
            /\ m[1].from = 0 /\ Distance(Last(m).to, duration) <= Larger(2000, duration \div 1000)
            /\ \A i \in 1..Len(m) - 1 : m[i].to = m[i + 1].from /\ m[i + 1].number = m[i].number + 1
            /\ \A i \in DOMAIN fs : fs[i].init => i = 1
       /\ video # <<>> /\ audio # <<>> =>
            /\ stop - start >= 500 => cut # <<>>
            /\ cut # <<>> =>
                 LET c == cut[1] IN
                 /\ (stop > start => c.from <= start /\ c.to >= stop) /\ c.to - c.from >= 500
                 /\ c.videoOffset >= 0 /\ c.audioOffset >= 0 /\ c.videoOffset * c.audioOffset = 0
                 /\ \A f \in {c.video.fragments[i] : i \in DOMAIN c.video.fragments} :
                        ~f.init /\ f.to - f.from > 1 => f.to > start /\ f.from < end
=============================================================================
