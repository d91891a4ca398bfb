------------------------------- MODULE ShotFraming -------------------------------
(* How each shot of a vertical clip is framed: one layout per shot, and readable    *)
(* crops of what is shown whole (media/scene_context.py, media/reframing.py). What  *)
(* a frame shows is an input. Times are milliseconds, fractions of the frame        *)
(* thousandths, x pixels.                                                           *)
EXTENDS ClipSelection

Amend(seq, r) == Append(Front(seq), r)
Ordered(S) == [i \in 1..Cardinality(S) |-> CHOOSE p \in S : Cardinality({q \in S : q < p}) = i - 1]
Repeatedly(times, step(_), first) == FoldLeft(LAMBDA acc, k : step(acc), first, [k \in 1..times |-> k])
AtLast(seq, i) == i = Len(seq)
\* Parts that follow each other without a gap from 0 to the end.
Tiles(seq, end) ==
    /\ seq # <<>> /\ seq[1].from = 0 /\ Last(seq).to = end
    /\ \A i \in DOMAIN seq : seq[i].from < seq[i].to
    /\ \A i \in 2..Len(seq) : seq[i - 1].to = seq[i].from

(***************************************************************************)
(* One layout per shot. A sample is why a crop would lose something, or    *)
(* "none", and whether a single face is in it.                             *)
(***************************************************************************)
MostCommon(seq) == Least(seq, LAMBDA r : 0 - Len(SelectSeq(seq, LAMBDA q : q = r)))
JoinShots(plan) ==
    FoldLeft(LAMBDA acc, p :
                IF acc # <<>> /\ Last(acc).kind = p.kind /\ Last(acc).reason = p.reason
                THEN Amend(acc, [Last(acc) EXCEPT !.to = p.to, !.soft = @ /\ p.soft]) ELSE Append(acc, p),
             <<>>, plan)
\* Risky in three of ten samples: the whole frame. Soft: only a steady speaker that
\* looks small.
LayoutShot(shot) ==
    LET risks == SelectSeq(shot.samples, LAMBDA s : s.risk # "none")
        fit == 10 * Len(risks) >= 3 * Len(shot.samples)
        reason == CASE shot.samples = <<>> -> "unknown" [] fit /\ risks # <<>> -> MostCommon(risks).risk [] OTHER -> "subject"
    IN [from |-> shot.from, to |-> shot.to, kind |-> IF fit THEN "fit" ELSE "face", reason |-> reason,
        soft |-> /\ fit /\ reason = "no close subject"
                 /\ 10 * Len(SelectSeq(shot.samples, LAMBDA s : s.single)) >= 6 * Len(shot.samples)]

\* Neighbours of one kind, as the indices of the first and the last.
Groups(plan) ==
    FoldLeft(LAMBDA acc, i : IF acc # <<>> /\ plan[Last(acc).to].kind = plan[i].kind
                             THEN Amend(acc, Range2(Last(acc).from, i)) ELSE Append(acc, Range2(i, i)),
             <<>>, [i \in DOMAIN plan |-> i])
Lasts(plan, g) == plan[g.to].to - plan[g.from].from
\* Variant: every short part joins its neighbour.
FlipsAll(plan, groups) ==
    SelectSeq([k \in DOMAIN groups |-> [at |-> k, rank |-> 0]],
              LAMBDA c : Lasts(plan, groups[c.at]) < 2500 /\ Len(groups) > 1)
\* One group takes over the layout of the longer one beside it: the soft ones between
\* crops first, then the short crops, then the short rest.
Flips(plan, groups) ==
    LET soft(g) == \A i \in g.from..g.to : plan[i].soft
        short(k) == Lasts(plan, groups[k]) < 2500 /\ Len(groups) > 1
        face(k) == plan[groups[k].from].kind = "face"
        inner(k) == k > 1 /\ ~AtLast(groups, k)
    IN SelectSeq([k \in DOMAIN groups |-> [at |-> k, rank |-> IF face(k) THEN 1 ELSE IF soft(groups[k]) /\ inner(k) THEN 0 ELSE 2]],
                 LAMBDA c : short(c.at) /\ (face(c.at) \/ soft(groups[c.at]) \/ Lasts(plan, groups[c.at]) < 500))
FlipOne(plan) ==
    LET groups == Groups(plan)
        flips == Flips(plan, groups)
        k == Least(flips, LAMBDA c : 1000000 * c.rank + Lasts(plan, groups[c.at])).at
        g == groups[k]
        beside == SelectSeq(<<k - 1, k + 1>>, LAMBDA j : j \in DOMAIN groups)
        donor == Least(beside, LAMBDA j : 0 - Lasts(plan, groups[j]))
        source == IF donor < k THEN plan[groups[donor].to] ELSE plan[groups[donor].from]
    IN IF flips = <<>> THEN plan
       ELSE JoinShots([i \in DOMAIN plan |->
                IF i \in g.from..g.to
                THEN [plan[i] EXCEPT !.kind = source.kind, !.reason = source.reason, !.soft = source.soft] ELSE plan[i]])
\* Content between crops, or most of the time: one composition of the whole frame.
Settled(plan) ==
    LET groups == Groups(plan)
        whole == SelectSeq(plan, LAMBDA p : p.kind = "fit")
        hard == \E i \in DOMAIN whole : ~whole[i].soft /\ Length2(whole[i]) >= 500
        length == Last(plan).to - plan[1].from
    IN IF hard /\ (Len(groups) >= 3 \/ (Len(groups) > 1 /\ 10 * Total(whole) > 6 * length))
       THEN <<[from |-> plan[1].from, to |-> Last(plan).to, kind |-> "fit", reason |-> "stable", soft |-> FALSE]>>
       ELSE plan
StabilizeLayout(plan) == Settled(Repeatedly(Len(plan), FlipOne, plan))
LayoutPlan(shots) == StabilizeLayout(JoinShots([i \in DOMAIN shots |-> LayoutShot(shots[i])]))

\* Without samples of the scene: shots with a face in a quarter of the samples around,
\* none shorter than a second and a half, cut where the camera does.
FaceRuns(times, faces, half, cuts, duration) ==
    LET near(i) == Larger(1, i - half)..Smaller(Len(times), i + half)
        face == [i \in DOMAIN times |-> 4 * Cardinality({j \in near(i) : faces[j]}) >= Cardinality(near(i))]
        run(i, v) == [from |-> IF i = 1 THEN 0 ELSE times[i], to |-> duration, face |-> v]
        runs == FoldLeft(LAMBDA acc, i : IF Last(acc).face = face[i] THEN acc
                                         ELSE Append(Amend(acc, [Last(acc) EXCEPT !.to = times[i]]), run(i, face[i])),
                         <<run(1, face[1])>>, [i \in 1..Len(times) - 1 |-> i + 1])
        join(rs) == FoldLeft(LAMBDA acc, r : IF acc # <<>> /\ Last(acc).face = r.face
                                             THEN Amend(acc, [Last(acc) EXCEPT !.to = r.to]) ELSE Append(acc, r), <<>>, rs)
        flip(rs) == LET shorts == {i \in DOMAIN rs : Length2(rs[i]) < 1500} IN
                    IF Len(rs) = 1 \/ shorts = {} THEN rs ELSE join([rs EXCEPT ![Min(shorts)].face = ~@])
        snap(rs, i) ==
            LET close == {c \in cuts : 50 < c /\ c < duration - 50 /\ Distance(c, rs[i].to) <= 600}
                cut == CHOOSE c \in close : \A d \in close :
                          Distance(c, rs[i].to) < Distance(d, rs[i].to) \/ (Distance(c, rs[i].to) = Distance(d, rs[i].to) /\ c <= d)
            IN IF close # {} /\ rs[i].from + 100 < cut /\ cut < rs[i + 1].to - 100
               THEN [rs EXCEPT ![i].to = cut, ![i + 1].from = cut] ELSE rs
        held == Repeatedly(Len(runs), flip, runs)
    IN FoldLeft(snap, held, [i \in 1..Len(held) - 1 |-> i])

(***************************************************************************)
(* Readable crops of the shots that are shown whole: narrower where all    *)
(* that was measured still fits.                                           *)
(***************************************************************************)
Levels(width, height) == {v \in {600, 700, 800, 900} : v * width * 1040 >= height * 1080 * 1000}
Needed(levels, left, right) == Min({v \in levels : right - left <= v} \cup {1000})
Spread(r, q) == [r EXCEPT !.left = Smaller(@, q.left), !.right = Larger(@, q.right)]
AddRun(levels, acc, from, to, detail) ==
    LET mid == (detail.from + detail.to) \div 2
        seen == IF detail.to <= detail.from THEN Range2(mid, mid) ELSE detail
        run == [from |-> from, to |-> to, left |-> Larger(0, seen.from - 30), right |-> Smaller(1000, seen.to + 30),
                level |-> 0, settled |-> FALSE]
        level == Needed(levels, run.left, run.right)
        both == Spread(Last(acc), run)
    IN IF to <= from THEN acc
       ELSE IF acc # <<>> /\ Last(acc).to = from /\ Last(acc).level = level /\ Needed(levels, both.left, both.right) = level
       THEN Amend(acc, [both EXCEPT !.to = to])
       ELSE Append(acc, [run EXCEPT !.level = level])
\* What was measured holds until the next sample; nothing measured: everything.
DetailRuns(plan, samples, levels) ==
    LET inside(shot) == SelectSeq(samples, LAMBDA s : shot.from <= s.at /\ s.at < shot.to)
        parts(shot) ==
            LET ss == inside(shot) IN
            [i \in DOMAIN ss |-> [from |-> IF i = 1 THEN shot.from ELSE ss[i].at,
                                  to |-> IF AtLast(ss, i) THEN shot.to ELSE ss[i + 1].at,
                                  detail |-> IF shot.reason = "cut text" THEN ss[i].protect ELSE ss[i].detail]]
        all(shot) == IF inside(shot) = <<>> THEN <<[from |-> shot.from, to |-> shot.to, detail |-> Range2(0, 1000)]>>
                     ELSE parts(shot)
    IN FoldLeft(LAMBDA acc, p : AddRun(levels, acc, p.from, p.to, p.detail), <<>>,
                FlattenSeq([i \in DOMAIN plan |-> IF plan[i].kind = "fit" THEN all(plan[i]) ELSE <<>>]))
Holds(host, run) == Spread(host, run).right - Spread(host, run).left <= host.level
\* The shortest run under five seconds joins a neighbour that shows its detail, or is
\* shown whole; one without neighbours stays.
HoldOne(runs) ==
    LET short == SelectSeq([i \in DOMAIN runs |-> i], LAMBDA i : ~runs[i].settled /\ Length2(runs[i]) < 5000)
        i == Least(short, LAMBDA k : Length2(runs[k]))
        beside == SelectSeq(<<i - 1, i + 1>>, LAMBDA j :
                      j \in DOMAIN runs /\ (runs[j].to = runs[i].from \/ runs[i].to = runs[j].from))
        hosts == SelectSeq(beside, LAMBDA j : Holds(runs[j], runs[i]))
        host == Least(hosts, LAMBDA j : 0 - Length2(runs[j]))
        joined == [Spread(runs[host], runs[i]) EXCEPT !.from = Smaller(@, runs[i].from), !.to = Larger(@, runs[i].to)]
    IN IF short = <<>> THEN runs
       ELSE IF beside = <<>> THEN [runs EXCEPT ![i].settled = TRUE]
       ELSE IF hosts # <<>> THEN Remove([runs EXCEPT ![host] = joined], runs[i])
       ELSE IF runs[i].level < 1000 THEN [runs EXCEPT ![i].level = 1000]
       ELSE [runs EXCEPT ![i].settled = TRUE]
\* Three sizes at most: the smallest grows.
CapSizes(runs) ==
    LET sizes == {runs[i].level : i \in DOMAIN runs} IN
    IF Cardinality(sizes) <= 3 THEN runs
    ELSE [i \in DOMAIN runs |-> IF runs[i].level = Min(sizes)
                                THEN [runs[i] EXCEPT !.level = Min(sizes \ {Min(sizes)})] ELSE runs[i]]
Window(run, width) ==
    LET even(v) == 2 * (v \div 2)
        crop == even((width * run.level) \div 1000)
        x == even(Larger(0, Smaller(((run.left + run.right) * width) \div 2000 - crop \div 2, width - crop)))
    IN [from |-> run.from, to |-> run.to, crop |-> IF run.level >= 1000 THEN 0 ELSE crop, x |-> IF run.level >= 1000 THEN 0 ELSE x]
FitWindows(plan, samples, width, height) ==
    LET runs == DetailRuns(plan, samples, Levels(width, height))
        held == Repeatedly(2, CapSizes, Repeatedly(3 * Len(runs), HoldOne, runs))
        merged == FoldLeft(LAMBDA acc, r :
                        IF acc # <<>> /\ Last(acc).to = r.from /\ Last(acc).level = r.level /\ Holds(Last(acc), r)
                        THEN Amend(acc, [Spread(Last(acc), r) EXCEPT !.to = r.to]) ELSE Append(acc, r), <<>>, held)
    IN IF \A i \in DOMAIN held : held[i].level >= 1000 THEN <<>> ELSE [i \in DOMAIN merged |-> Window(merged[i], width)]

(***************************************************************************)
(* The layout of the clip. What its frames show is an input.               *)
(***************************************************************************)
Layout(seen) ==
    LET fits(p) == p.kind = "fit"
        content == \E i \in DOMAIN seen.plan : fits(seen.plan[i]) /\ seen.plan[i].reason # "interaction"
        allFit == \A i \in DOMAIN seen.plan : fits(seen.plan[i])
        talking == IF content THEN "none" ELSE seen.talking
    IN IF seen.narrow THEN "crop"
       ELSE IF seen.reaction THEN "reaction"
       ELSE IF allFit /\ content THEN "fit"
       ELSE IF ~content /\ talking \in {"none", "stack"}
               /\ (seen.speakers = "overlap" \/ (seen.speakers = "cuts" /\ talking = "none")) THEN seen.speakers
       ELSE IF talking # "none" THEN talking
       ELSE IF allFit THEN "fit"
       ELSE IF \E i \in DOMAIN seen.plan : fits(seen.plan[i]) THEN "compositor" ELSE "crop"

(***************************************************************************)
(* Properties                                                              *)
(***************************************************************************)
\* "Content, crowds and cut text stay fit" (scene_context.py:328): whatever short
\* shots do to each other, a shot of half a second or more that only shows whole is
\* shown whole; no crop is shorter than it may be beside something else, and the plan
\* has each moment once. And where it is, the clip is neither cropped nor stacked.
LayoutsHold(shots, seen) ==
    LET plan == LayoutPlan(shots)
        groups == Groups(plan)
    IN /\ Tiles(plan, Last(shots).to)
       /\ \A i \in DOMAIN shots :
            LET s == LayoutShot(shots[i]) IN
            s.kind = "fit" /\ ~s.soft /\ Length2(s) >= 500 =>
                \A j \in DOMAIN plan : Overlap(plan[j], s) > 0 => plan[j].kind = "fit"
       /\ \A k \in DOMAIN groups :
            plan[groups[k].from].kind = "face" => Lasts(plan, groups[k]) >= 2500 \/ Len(groups) = 1
       /\ \A i \in DOMAIN seen.plan :
            seen.plan[i].kind = "fit" /\ seen.plan[i].reason # "interaction" =>
                Layout(seen) \in {"reaction", "fit", "compositor"} \/ seen.narrow
\* Faces and whole frames alternate, each for a second and a half.
RunsHold(times, faces, half, cuts, duration) ==
    LET runs == FaceRuns(times, faces, half, {}, duration)
        cut == FaceRuns(times, faces, half, cuts, duration)
    IN /\ Tiles(runs, duration) /\ Tiles(cut, duration)
       /\ \A i \in DOMAIN runs : Length2(runs[i]) >= 1500 \/ Len(runs) = 1
       /\ \A i \in 2..Len(runs) : runs[i].face # runs[i - 1].face
\* "Each window contains all detail measured during it" (reframing.py:1195), up to
\* the rounding to even pixels; the windows are the fitted shots, each moment once;
\* and a zoom that lasts less than five seconds has nothing fitted beside it.
WindowsHold(plan, samples, width, height) ==
    LET windows == FitWindows(plan, samples, width, height)
        fitted == SelectSeq(plan, LAMBDA p : p.kind = "fit")
        during(i) == {p \in ToSet(fitted) : p.from <= samples[i].at /\ samples[i].at < p.to}
        measuredAt(i, p) ==
            [from |-> IF \E j \in DOMAIN samples : j < i /\ p.from <= samples[j].at THEN samples[i].at ELSE p.from,
             to |-> IF i < Len(samples) /\ samples[i + 1].at < p.to THEN samples[i + 1].at ELSE p.to,
             detail |-> IF p.reason = "cut text" THEN samples[i].protect ELSE samples[i].detail]
        measured == UNION {{measuredAt(i, p) : p \in during(i)} : i \in DOMAIN samples}
    IN windows # <<>> =>
       /\ Total(windows) = Total(fitted)
       /\ \A i \in 2..Len(windows) : windows[i - 1].to <= windows[i].from
       /\ Cardinality({windows[i].crop : i \in DOMAIN windows}) <= 3
       /\ \A i \in DOMAIN windows :
            /\ \E j \in DOMAIN fitted : Overlap(windows[i], fitted[j]) > 0
            /\ windows[i].crop # 0 =>
                 /\ \A m \in measured : Overlap(m, windows[i]) > 0 =>
                      /\ windows[i].x * 1000 <= m.detail.from * width
                      /\ m.detail.to * width <= (windows[i].x + windows[i].crop) * 1000
                 /\ Length2(windows[i]) < 5000 =>
                      \A j \in DOMAIN windows : windows[j].to # windows[i].from /\ windows[i].to # windows[j].from
=============================================================================
