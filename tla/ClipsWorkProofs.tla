--------------------------- MODULE ClipsWorkProofs -----------------------------
(***************************************************************************)
(* Proofs about the work on clips and what is kept of it, in the           *)
(* behaviours of ClipParts: the runs of a task (GenerationRetries), for    *)
(* any number of runs, edits, keys and transcripts; the editor of a clip,  *)
(* its drafts and their copy (EditorDrafts), its background exports        *)
(* (EditorExports) and the requests it is charged for (AiEdits), for any   *)
(* number of tabs, preparations, jobs and requests; the two stores behind  *)
(* a media object (MediaReplicas), for any number of clients, bulk         *)
(* mirrors, passes of the retries, revisions and crashes; and a social     *)
(* account (SocialAccounts), for any number of sign-in links, callbacks,   *)
(* uses and disconnects.                                                   *)
(*                                                                         *)
(* While a run works, its own copy of the checkpoint is the checkpoint, or *)
(* both begin anew at its first save; so what a stage takes from its copy  *)
(* is what a later run will find.  Whoever writes in the stores holds the  *)
(* lock of the object, so what a thread has read is still so; the manifest *)
(* says which store holds what.  As long as no sign-in overlaps the other  *)
(* requests and the platform answers, each grant it still knows is in the  *)
(* account, or in the hands of one request that will store or end it.      *)
(***************************************************************************)
EXTENDS ClipParts, FiniteSetTheorems, WellFoundedInduction, TLAPS

-----------------------------------------------------------------------------
(* The runs of a task.                                                      *)

Numbers == 0..G!Shared
Plans == [id : Nat, of : Numbers, own : BOOLEAN, size : 0..PlanSize]
Payloads == [text : Numbers, words : Numbers, analysis : Plans, candidates : Plans, segments : Plans,
             positions : {{0}} \cup SUBSET (Nat \ {0})]
Runs == [at : {"none", "source", "retimed", "transcript", "analysis", "plan", "freeze", "open", "render", "save"},
         key : Keys \cup {0}, cp : Payloads, text : Numbers, cached : Plans, plan : Plans,
         done : {{0}} \cup SUBSET (Nat \ {0}), failed : BOOLEAN, next : Nat \ {0}]
Requested == [at : {"none", "read", "queued", "edited"}, read : [job : Nat, style : Nat]]
RunCheckpoints == [key : Keys, era : Nat, payload : Payloads]
Bounded(cs) == \E n \in Nat : \A c \in cs : c.order <= n
RunTyped ==
    /\ status \in {"queued", "processing", "completed", "cancelled", "error", "deleted"} /\ runKey \in Keys
    /\ checkpoint \in RunCheckpoints /\ run \in Runs /\ sidecar \in Numbers
    /\ cache \in [text : Numbers, analysis : Plans]
    /\ metadata \in [job : Nat, style : Nat] /\ resume \in Requested /\ settings \in Requested
    /\ resume.at # "edited" /\ settings.at # "queued"
    /\ counts \in [texts : 0..Texts, analyses : Nat, runs : Nat, edits : Nat, jobs : Nat]
    /\ Bounded(runClips) /\ \A c \in runClips : c.order \in Nat \ {0} /\ c.position \in 1..PlanSize

\* Plans come from the analysis beside them, and that one from the transcript.
PayloadInv(p) ==
    /\ \A plan \in {p.candidates, p.segments} : plan # G!None => p.analysis # G!None /\ plan.id = p.analysis.id
    /\ p.analysis.own => p.analysis.of = p.text
    /\ p.text = 0 => p.analysis = G!None

\* What a run has at each stage.
Saved == {"analysis", "plan", "freeze", "open", "render", "save"}
StageInv(r) ==
    /\ r.at # "none" => r.key \in Keys
    /\ r.at \in {"transcript", "retimed"} => r.text # 0
    /\ r.at = "transcript" => (r.cp.analysis.own => r.cp.analysis.of = r.text)
    /\ r.at \in Saved => r.text = r.cp.text /\ r.text # 0
    /\ r.at \in Saved \ {"analysis"} => r.cp.analysis # G!None
    /\ r.at = "freeze" => /\ r.plan # G!None /\ r.plan.id = r.cp.analysis.id
                          /\ r.cp.segments # G!None => r.plan = r.cp.segments
    /\ ~r.cached.own
    /\ r.at \notin {"none", "render", "save"} => r.next = 1
RenderInv(r) ==
    /\ r.at \in {"open", "render", "save"} => r.plan # G!None /\ r.plan = r.cp.segments
    /\ r.at \in {"render", "save"} =>
         /\ r.done = r.cp.positions /\ r.done # {0}
         /\ ~r.failed => 1..(r.next - 1) \subseteq r.done
    /\ r.at = "save" => r.next \notin r.done /\ r.next <= r.plan.size

\* The copy of a run is the checkpoint, until then under another key.
OwnCopyInv ==
    run.at # "none" =>
        \/ checkpoint.key = run.key /\ run.cp = checkpoint.payload
        \/ checkpoint.key # run.key /\ run.cp = G!Empty /\ run.at \notin Saved
\* No position was made twice, and those of the plan at hand are counted.
MadeInv ==
    \A m \in made :
        /\ ~m.again /\ m.era \in Nat /\ m.era <= checkpoint.era
        /\ m.era = checkpoint.era => checkpoint.payload.positions # {0} /\ m.position \in checkpoint.payload.positions
EndInv ==
    /\ status = "completed" => run.at = "none" /\ 1..checkpoint.payload.segments.size \subseteq checkpoint.payload.positions
    /\ metadata.job = counts.jobs /\ ~cache.analysis.own
RunsInv == RunTyped /\ PayloadInv(checkpoint.payload) /\ StageInv(run) /\ RenderInv(run) /\ OwnCopyInv /\ MadeInv /\ EndInv

LEMMA NoneIs ==
    /\ G!None \in Plans /\ G!None.id = 0 /\ ~G!None.own
    /\ G!Empty \in Payloads /\ G!Empty.text = 0 /\ G!Empty.analysis = G!None
    /\ G!Empty.candidates = G!None /\ G!Empty.segments = G!None /\ G!Empty.positions = {0}
<1>1. 0 \in Numbers /\ 0 \in 0..PlanSize
  BY RunsAssumption DEF Numbers, G!Shared
<1> QED
  BY <1>1 DEF G!None, G!Empty, Plans, Payloads

-----------------------------------------------------------------------------
(* The greatest of a set of numbers.                                        *)

Below == {p \in Nat \X Nat : p[1] < p[2]}
LEMMA BelowIsWellFounded == IsWellFoundedOn(Below, Nat)
BY NatLessThanWellFounded DEF OpToRel, Below

\* The least number that bounds the set is in it.
LEMMA GreatestIs ==
    ASSUME NEW numbers \in SUBSET Nat, numbers # {}, NEW n \in Nat, \A x \in numbers : x <= n
    PROVE  \E x \in numbers : \A y \in numbers : y <= x
<1> DEFINE bounds == {m \in Nat : \A x \in numbers : x <= m}
<1>1. PICK m \in bounds : \A y \in bounds : <<y, m>> \notin Below
  <2>1. bounds \subseteq Nat /\ n \in bounds
    OBVIOUS
  <2> HIDE DEF bounds
  <2> QED
    BY <2>1, BelowIsWellFounded, WFMin
<1>2. m \in Nat /\ \A y \in bounds : ~(y < m)
  BY <1>1 DEF Below
<1>3. m \in numbers
  <2> SUFFICES ASSUME m \notin numbers
               PROVE  FALSE
    OBVIOUS
  <2>1. PICK x \in numbers : TRUE
    OBVIOUS
  <2>2. \A y \in numbers : y \in Nat /\ y < m
    BY <1>1
  <2>3. m - 1 \in Nat /\ \A y \in numbers : y <= m - 1
    BY <1>2, <2>1, <2>2
  <2> QED
    BY <1>2, <2>3
<1> QED
  BY <1>1, <1>3

\* The order of the next clip.
LEMMA HighestIs ==
    ASSUME RunTyped
    PROVE  G!Highest(G!Orders) \in Nat /\ \A c \in runClips : c.order <= G!Highest(G!Orders)
<1>1. G!Orders \in SUBSET Nat /\ \A c \in runClips : c.order \in G!Orders
  BY DEF RunTyped, G!Orders
<1>2. PICK n \in Nat : \A x \in G!Orders : x <= n
  BY DEF RunTyped, Bounded, G!Orders
<1>3. G!Orders # {} => \E x \in G!Orders : \A y \in G!Orders : y <= x
  BY <1>1, <1>2, GreatestIs
<1> QED
  BY <1>1, <1>3 DEF G!Highest

-----------------------------------------------------------------------------
(* A patch replaces the fields it has and leaves the others.                *)

LEMMA MergedText ==
    ASSUME NEW p \in Payloads, NEW t \in Numbers, NEW w \in Numbers
    PROVE  LET q == G!Merged([text |-> t, words |-> w], p)
           IN  /\ q \in Payloads /\ q.text = t /\ q.words = w /\ q.analysis = p.analysis
               /\ q.candidates = p.candidates /\ q.segments = p.segments /\ q.positions = p.positions
BY DEF G!Merged, Payloads

LEMMA MergedAnalysis ==
    ASSUME NEW p \in Payloads, NEW a \in Plans
    PROVE  LET q == G!Merged([analysis |-> a], p)
           IN  /\ q \in Payloads /\ q.text = p.text /\ q.analysis = a
               /\ q.candidates = p.candidates /\ q.segments = p.segments /\ q.positions = p.positions
BY DEF G!Merged, Payloads

LEMMA MergedCandidates ==
    ASSUME NEW p \in Payloads, NEW a \in Plans
    PROVE  LET q == G!Merged([candidates |-> a], p)
           IN  /\ q \in Payloads /\ q.text = p.text /\ q.analysis = p.analysis
               /\ q.candidates = a /\ q.segments = p.segments /\ q.positions = p.positions
BY DEF G!Merged, Payloads

LEMMA MergedSegments ==
    ASSUME NEW p \in Payloads, NEW a \in Plans
    PROVE  LET q == G!Merged([segments |-> a], p)
           IN  /\ q \in Payloads /\ q.text = p.text /\ q.analysis = p.analysis
               /\ q.candidates = p.candidates /\ q.segments = a /\ q.positions = p.positions
BY DEF G!Merged, Payloads

LEMMA MergedPositions ==
    ASSUME NEW p \in Payloads, NEW counted \in {{0}} \cup SUBSET (Nat \ {0})
    PROVE  LET q == G!Merged([positions |-> counted], p)
           IN  /\ q \in Payloads /\ q.text = p.text /\ q.analysis = p.analysis
               /\ q.candidates = p.candidates /\ q.segments = p.segments /\ q.positions = counted
BY DEF G!Merged, Payloads

LEMMA MergedNone ==
    ASSUME NEW p \in Payloads
    PROVE  LET q == G!Merged([analysis |-> G!None, candidates |-> G!None, segments |-> G!None], p)
           IN  /\ q \in Payloads /\ q.text = p.text /\ q.analysis = G!None
               /\ q.candidates = G!None /\ q.segments = G!None /\ q.positions = p.positions
<1>1. G!None \in Plans
  BY NoneIs
<1> QED
  BY <1>1 DEF G!Merged, Payloads

-----------------------------------------------------------------------------
(* A save: the checkpoint and the copy of the run become the same.          *)

Era == IF checkpoint.key = run.key THEN checkpoint.era ELSE checkpoint.era + 1

LEMMA SaveDoes ==
    ASSUME RunsInv, run.at # "none", NEW patch, NEW next \in Runs, next.cp = run.cp, G!SaveAnd(patch, next)
    PROVE  LET q == G!Merged(patch, run.cp)
           IN  checkpoint' = [key |-> run.key, era |-> Era, payload |-> q] /\ run' = [next EXCEPT !.cp = q]
<1>1. run' = [next EXCEPT !.cp = G!Merged(patch, run.cp)]
  BY DEF G!SaveAnd, Runs
<1>2. CASE checkpoint.key = run.key
  <2>1. checkpoint' = [checkpoint EXCEPT !.payload = G!Merged(patch, checkpoint.payload)]
    BY <1>2 DEF G!SaveAnd, G!Save, RunsInv, RunTyped, RunCheckpoints
  <2>2. checkpoint.payload = run.cp
    BY <1>2 DEF RunsInv, OwnCopyInv
  <2> QED
    BY <1>1, <1>2, <2>1, <2>2 DEF RunsInv, RunTyped, RunCheckpoints, Era
<1>3. CASE checkpoint.key # run.key
  BY <1>1, <1>3 DEF G!SaveAnd, G!Save, RunsInv, OwnCopyInv, Era
<1> QED
  BY <1>2, <1>3

\* A stage ends in a save: run becomes r, whose copy is the checkpoint.
LEMMA RunStageKeeps ==
    ASSUME RunsInv, run.at # "none", status = "processing", NEW r \in Runs, r.at \in Saved \cup {"transcript"}, r.key = run.key,
           PayloadInv(r.cp), StageInv(r), RenderInv(r), run.cp.positions \in {{0}, r.cp.positions},
           checkpoint' = [key |-> run.key, era |-> Era, payload |-> r.cp], run' = r,
           UNCHANGED <<status, runClips, made, metadata, resume, settings, runKey, sidecar>>,
           cache' \in [text : Numbers, analysis : Plans], ~cache'.analysis.own,
           counts' \in [texts : 0..Texts, analyses : Nat, runs : Nat, edits : Nat, jobs : Nat], counts'.jobs = counts.jobs
    PROVE  RunsInv'
<1>1. run.key \in Keys /\ Era \in Nat /\ r.cp \in Payloads /\ checkpoint \in RunCheckpoints
  BY DEF RunsInv, StageInv, Era, RunTyped, RunCheckpoints, Runs
<1>2. /\ checkpoint' \in RunCheckpoints /\ checkpoint'.key = run.key /\ checkpoint'.era = Era
      /\ checkpoint'.payload = r.cp
  BY <1>1 DEF RunCheckpoints
<1>3. RunTyped'
  BY <1>2 DEF RunsInv, RunTyped
<1>4. OwnCopyInv' /\ EndInv'
  BY <1>2 DEF OwnCopyInv, RunsInv, EndInv
<1>5. MadeInv'
  <2> SUFFICES ASSUME NEW m \in made
               PROVE  /\ ~m.again /\ m.era \in Nat /\ m.era <= Era
                      /\ m.era = Era => r.cp.positions # {0} /\ m.position \in r.cp.positions
    BY <1>2 DEF MadeInv
  <2>1. ~m.again /\ m.era \in Nat /\ m.era <= checkpoint.era /\ checkpoint.era \in Nat
    BY <1>1 DEF RunsInv, MadeInv, RunCheckpoints
  <2>2. CASE checkpoint.key = run.key
    BY <2>1, <2>2 DEF Era, RunsInv, MadeInv, OwnCopyInv
  <2>3. CASE checkpoint.key # run.key
    BY <2>1, <2>3 DEF Era
  <2> QED
    BY <2>2, <2>3
<1> QED
  BY <1>2, <1>3, <1>4, <1>5 DEF RunsInv

\* A stage that saves nothing.
LEMMA QuietStageKeeps ==
    ASSUME RunsInv, status = "processing", run.at # "none", NEW r \in Runs, r.key = run.key, r.cp = run.cp,
           r.at \in Saved => run.at \in Saved, StageInv(r), RenderInv(r), run' = r,
           UNCHANGED <<status, checkpoint, cache, runClips, made, metadata, resume, settings, runKey>>, sidecar' \in Numbers,
           counts' \in [texts : 0..Texts, analyses : Nat, runs : Nat, edits : Nat, jobs : Nat], counts'.jobs = counts.jobs
    PROVE  RunsInv'
<1>1. RunTyped'
  BY DEF RunsInv, RunTyped
<1>2. OwnCopyInv' /\ EndInv' /\ MadeInv'
  BY DEF OwnCopyInv, RunsInv, EndInv, MadeInv
<1> QED
  BY <1>1, <1>2 DEF RunsInv

\* What a run takes from its copy is in order.
LEMMA CopyIs ==
    ASSUME RunsInv, run.at # "none"
    PROVE  /\ run \in Runs /\ run.cp \in Payloads /\ run.key \in Keys /\ PayloadInv(run.cp) /\ StageInv(run) /\ RenderInv(run)
           /\ run.text \in Numbers /\ run.cached \in Plans /\ run.plan \in Plans
BY NoneIs DEF RunsInv, RunTyped, Runs, OwnCopyInv, PayloadInv, StageInv

-----------------------------------------------------------------------------
(* The stages.                                                              *)

LEMMA NoRunIs == G!NoRun \in Runs /\ G!NoRun.at = "none" /\ G!NoRun.cached = G!None /\ G!NoRun.next = 1
<1>1. 0 \in Numbers
  BY RunsAssumption DEF Numbers, G!Shared
<1> QED
  BY <1>1, NoneIs DEF G!NoRun, Runs

LEMMA StartRunKeeps ==
    ASSUME RunsInv, G!StartRun
    PROVE  RunsInv'
<1> DEFINE copy == IF checkpoint.key = runKey THEN checkpoint.payload ELSE G!Empty
<1>1. PICK personal \in BOOLEAN :
        run' = [G!NoRun EXCEPT !.at = "source", !.key = runKey, !.cp = copy, !.text = cache.text,
                               !.cached = IF personal THEN G!None ELSE cache.analysis]
  BY DEF G!StartRun
<1> DEFINE cached == IF personal THEN G!None ELSE cache.analysis
           r == [G!NoRun EXCEPT !.at = "source", !.key = runKey, !.cp = copy, !.text = cache.text, !.cached = cached]
<1>2. copy \in Payloads /\ cached \in Plans /\ ~cached.own /\ runKey \in Keys /\ cache.text \in Numbers
  BY NoneIs DEF RunsInv, RunTyped, RunCheckpoints, EndInv
<1> HIDE DEF copy, cached
<1>4. r \in Runs /\ r.at = "source" /\ r.key = runKey /\ r.cp = copy /\ r.cached = cached /\ r.next = 1
  BY <1>2, NoRunIs DEF Runs
<1>5. run' = r
  BY <1>1 DEF copy, cached
<1> HIDE DEF r
<1>6. /\ status' = "processing" /\ UNCHANGED <<runClips, made, metadata, resume, settings, runKey, checkpoint, cache, sidecar>>
      /\ status \in {"queued", "processing"}
  BY DEF G!StartRun, G!Kept
<1>7. counts' \in [texts : 0..Texts, analyses : Nat, runs : Nat, edits : Nat, jobs : Nat] /\ counts'.jobs = counts.jobs
  BY DEF G!StartRun, RunsInv, RunTyped
<1>8. RunTyped'
  BY <1>4, <1>5, <1>6, <1>7 DEF RunsInv, RunTyped
<1>9. StageInv(r) /\ RenderInv(r)
  BY <1>2, <1>4 DEF StageInv, RenderInv, Saved
<1>10. OwnCopyInv'
  BY <1>4, <1>5, <1>6 DEF OwnCopyInv, copy, Saved
<1>11. MadeInv' /\ EndInv'
  BY <1>6, <1>7 DEF RunsInv, MadeInv, EndInv
<1> QED
  BY <1>5, <1>6, <1>8, <1>9, <1>10, <1>11 DEF RunsInv

LEMMA TranscribeKeeps ==
    ASSUME RunsInv, G!Transcribe
    PROVE  RunsInv'
<1> DEFINE heard == IF run.cp.text # 0 THEN run.cp.text ELSE run.text
           timed == IF run.cp.text # 0 /\ run.cp.words # 0 THEN run.cp.words ELSE sidecar
<1>1. /\ run.at = "source" /\ status = "processing" /\ UNCHANGED <<status, checkpoint, cache>>
      /\ UNCHANGED <<runClips, made, metadata, resume, settings, runKey>>
  BY DEF G!Transcribe, G!Stage, G!Kept
<1>2. /\ run \in Runs /\ run.cp \in Payloads /\ PayloadInv(run.cp) /\ StageInv(run)
      /\ run.cp.text \in Numbers /\ run.cp.words \in Numbers /\ run.text \in Numbers /\ sidecar \in Numbers
  BY <1>1, CopyIs DEF RunsInv, RunTyped, Payloads
<1>3. counts \in [texts : 0..Texts, analyses : Nat, runs : Nat, edits : Nat, jobs : Nat]
  BY DEF RunsInv, RunTyped
<1>4. CASE heard # 0 /\ timed # 0 /\ sidecar' = timed /\ run' = [run EXCEPT !.at = "transcript", !.text = heard] /\ UNCHANGED counts
  <2> DEFINE r == [run EXCEPT !.at = "transcript", !.text = heard]
  <2>1. heard \in Numbers /\ timed \in Numbers
    BY <1>2
  <2>2. (run.cp.analysis.own => run.cp.analysis.of = heard)
    BY <1>2, NoneIs DEF PayloadInv
  <2> HIDE DEF heard, timed
  <2>3. /\ r \in Runs /\ r.at = "transcript" /\ r.text = heard /\ r.cp = run.cp /\ r.key = run.key
        /\ r.cached = run.cached /\ r.next = run.next
    BY <1>2, <2>1 DEF Runs
  <2>4. run' = r
    BY <1>4
  <2> HIDE DEF r
  <2>5. StageInv(r) /\ RenderInv(r)
    BY <1>1, <1>2, <1>4, <2>2, <2>3 DEF StageInv, RenderInv, Saved
  <2> QED
    BY <1>1, <1>3, <1>4, <2>1, <2>3, <2>4, <2>5, QuietStageKeeps DEF Saved
<1>5. CASE /\ counts.texts < Texts /\ counts' = [counts EXCEPT !.texts = counts.texts + 1]
           /\ sidecar' \in {0, counts.texts + 1}
           /\ run' = [run EXCEPT !.text = counts.texts + 1,
                                 !.at = IF run.cp.analysis # G!None THEN "retimed" ELSE "transcript"]
  <2> DEFINE place == IF run.cp.analysis # G!None THEN "retimed" ELSE "transcript"
             r == [run EXCEPT !.text = counts.texts + 1, !.at = place]
  <2>1. counts.texts + 1 \in Numbers /\ counts.texts + 1 # 0 /\ counts.texts + 1 \in 0..Texts /\ sidecar' \in Numbers
    BY <1>3, <1>5, RunsAssumption DEF Numbers, G!Shared
  <2>2. counts' \in [texts : 0..Texts, analyses : Nat, runs : Nat, edits : Nat, jobs : Nat] /\ counts'.jobs = counts.jobs
    BY <1>3, <1>5, <2>1
  <2>3. /\ r \in Runs /\ r.at = place /\ r.text = counts.texts + 1 /\ r.cp = run.cp /\ r.key = run.key
        /\ r.cached = run.cached /\ r.next = run.next
    BY <1>2, <2>1 DEF Runs
  <2>4. run' = r
    BY <1>5
  <2> HIDE DEF r
  <2>5. StageInv(r) /\ RenderInv(r)
    BY <1>1, <1>2, <2>1, <2>3, NoneIs DEF StageInv, RenderInv, Saved
  <2>6. r.at \notin Saved
    BY <2>3 DEF Saved
  <2> QED
    BY <1>1, <2>1, <2>2, <2>3, <2>4, <2>5, <2>6, QuietStageKeeps
<1> QED
  BY <1>4, <1>5 DEF G!Transcribe

LEMMA DropPlanKeeps ==
    ASSUME RunsInv, G!DropPlan
    PROVE  RunsInv'
<1> DEFINE next == [run EXCEPT !.at = "transcript", !.cached = G!None]
           q == G!Merged([analysis |-> G!None, candidates |-> G!None, segments |-> G!None], run.cp)
           r == [next EXCEPT !.cp = q]
<1>1. /\ run.at = "retimed" /\ status = "processing"
      /\ UNCHANGED <<status, runClips, made, metadata, resume, settings, runKey, cache, sidecar, counts>>
  BY DEF G!DropPlan, G!Stage, G!Kept
<1>2. run \in Runs /\ run.cp \in Payloads /\ run.key \in Keys /\ StageInv(run)
  BY <1>1, CopyIs
<1>3. /\ q \in Payloads /\ q.text = run.cp.text /\ q.analysis = G!None
      /\ q.candidates = G!None /\ q.segments = G!None /\ q.positions = run.cp.positions
  BY <1>2, MergedNone
<1>4. next \in Runs /\ next.cp = run.cp
  BY <1>2, NoneIs DEF Runs
<1>5. checkpoint' = [key |-> run.key, era |-> Era, payload |-> q] /\ run' = r
  BY <1>1, <1>4, SaveDoes DEF G!DropPlan
<1> HIDE DEF q
<1>6. r \in Runs /\ r.at = "transcript" /\ r.text = run.text /\ r.cp = q /\ r.key = run.key /\ r.cached = G!None /\ r.next = run.next
  BY <1>2, <1>3, NoneIs DEF Runs
<1> HIDE DEF r
<1>7. PayloadInv(q) /\ StageInv(r) /\ RenderInv(r)
  BY <1>1, <1>2, <1>3, <1>6, NoneIs DEF PayloadInv, StageInv, RenderInv, Saved
<1>8. /\ cache' \in [text : Numbers, analysis : Plans] /\ ~cache'.analysis.own
      /\ counts' \in [texts : 0..Texts, analyses : Nat, runs : Nat, edits : Nat, jobs : Nat]
  BY <1>1 DEF RunsInv, RunTyped, EndInv
<1> QED
  BY <1>1, <1>3, <1>5, <1>6, <1>7, <1>8, RunStageKeeps

LEMMA SaveTranscriptKeeps ==
    ASSUME RunsInv, G!SaveTranscript
    PROVE  RunsInv'
<1> DEFINE next == [run EXCEPT !.at = "analysis"]
           q == G!Merged([text |-> run.text, words |-> sidecar], run.cp)
           r == [next EXCEPT !.cp = q]
<1>1. /\ run.at = "transcript" /\ status = "processing"
      /\ UNCHANGED <<status, runClips, made, metadata, resume, settings, runKey, cache, sidecar, counts>>
  BY DEF G!SaveTranscript, G!Stage, G!Kept
<1>2. run \in Runs /\ run.cp \in Payloads /\ run.key \in Keys /\ StageInv(run) /\ PayloadInv(run.cp) /\ run.text \in Numbers
  BY <1>1, CopyIs
<1>3. /\ q \in Payloads /\ q.text = run.text /\ q.analysis = run.cp.analysis
      /\ q.candidates = run.cp.candidates /\ q.segments = run.cp.segments /\ q.positions = run.cp.positions
  BY <1>2, MergedText DEF RunsInv, RunTyped
<1>4. next \in Runs /\ next.cp = run.cp
  BY <1>2 DEF Runs
<1>5. checkpoint' = [key |-> run.key, era |-> Era, payload |-> q] /\ run' = r
  BY <1>1, <1>4, SaveDoes DEF G!SaveTranscript
<1> HIDE DEF q
<1>6. r \in Runs /\ r.at = "analysis" /\ r.text = run.text /\ r.cp = q /\ r.key = run.key /\ r.cached = run.cached /\ r.next = run.next
  BY <1>2, <1>3 DEF Runs
<1> HIDE DEF r
<1>7. PayloadInv(q) /\ StageInv(r) /\ RenderInv(r)
  BY <1>1, <1>2, <1>3, <1>6 DEF PayloadInv, StageInv, RenderInv, Saved
<1>8. /\ cache' \in [text : Numbers, analysis : Plans] /\ ~cache'.analysis.own
      /\ counts' \in [texts : 0..Texts, analyses : Nat, runs : Nat, edits : Nat, jobs : Nat]
  BY <1>1 DEF RunsInv, RunTyped, EndInv
<1> QED
  BY <1>1, <1>3, <1>5, <1>6, <1>7, <1>8, RunStageKeeps DEF Saved

LEMMA AnalyzeKeeps ==
    ASSUME RunsInv, G!Analyze
    PROVE  RunsInv'
<1> DEFINE old == IF run.cp.analysis # G!None THEN run.cp.analysis ELSE run.cached
           new == [id |-> counts.analyses + 1, of |-> run.text, own |-> TRUE, size |-> PlanSize]
           next == [run EXCEPT !.at = "plan"]
<1>1. /\ run.at = "analysis" /\ status = "processing"
      /\ UNCHANGED <<status, runClips, made, metadata, resume, settings, runKey, cache, sidecar>>
  BY DEF G!Analyze, G!Stage, G!Kept
<1>2. /\ run \in Runs /\ run.cp \in Payloads /\ run.key \in Keys /\ StageInv(run) /\ PayloadInv(run.cp)
      /\ run.text \in Numbers /\ run.cached \in Plans /\ run.cp.analysis \in Plans
  BY <1>1, CopyIs DEF Payloads
<1>3. counts \in [texts : 0..Texts, analyses : Nat, runs : Nat, edits : Nat, jobs : Nat]
  BY DEF RunsInv, RunTyped
<1>4. PICK a \in Plans :
        /\ G!SaveAnd([analysis |-> a], next) /\ a # G!None
        /\ run.cp.analysis # G!None => a = run.cp.analysis
        /\ a.own => a.of = run.text
        /\ counts' \in [texts : 0..Texts, analyses : Nat, runs : Nat, edits : Nat, jobs : Nat] /\ counts'.jobs = counts.jobs
  <2>1. CASE old # G!None /\ G!SaveAnd([analysis |-> old], next) /\ UNCHANGED counts
    <3>1. old \in Plans /\ (old.own => old.of = run.text) /\ (run.cp.analysis # G!None => old = run.cp.analysis)
      BY <1>1, <1>2 DEF StageInv, PayloadInv, Saved
    <3> HIDE DEF old
    <3> QED
      BY <1>3, <2>1, <3>1
  <2>2. CASE old = G!None /\ counts' = [counts EXCEPT !.analyses = counts.analyses + 1] /\ G!SaveAnd([analysis |-> new], next)
    <3>1. new \in Plans /\ new.id # 0 /\ new.own /\ new.of = run.text
      BY <1>2, <1>3, RunsAssumption DEF Plans
    <3>2. new # G!None /\ run.cp.analysis = G!None
      BY <2>2, <3>1, NoneIs
    <3>3. counts' \in [texts : 0..Texts, analyses : Nat, runs : Nat, edits : Nat, jobs : Nat] /\ counts'.jobs = counts.jobs
      BY <1>3, <2>2
    <3> HIDE DEF new
    <3> QED
      BY <2>2, <3>1, <3>2, <3>3
  <2> QED
    BY <2>1, <2>2, <1>3 DEF G!Analyze
<1> DEFINE q == G!Merged([analysis |-> a], run.cp)
           r == [next EXCEPT !.cp = q]
<1>5. /\ q \in Payloads /\ q.text = run.cp.text /\ q.analysis = a
      /\ q.candidates = run.cp.candidates /\ q.segments = run.cp.segments /\ q.positions = run.cp.positions
  BY <1>2, MergedAnalysis
<1>6. next \in Runs /\ next.cp = run.cp
  BY <1>2 DEF Runs
<1>7. checkpoint' = [key |-> run.key, era |-> Era, payload |-> q] /\ run' = r
  BY <1>1, <1>4, <1>6, SaveDoes
<1> HIDE DEF q
<1>8. r \in Runs /\ r.at = "plan" /\ r.text = run.text /\ r.cp = q /\ r.key = run.key /\ r.cached = run.cached /\ r.next = run.next
  BY <1>2, <1>5 DEF Runs
<1> HIDE DEF r
<1>9. PayloadInv(q)
  BY <1>1, <1>2, <1>4, <1>5 DEF PayloadInv, StageInv, Saved
<1>10. StageInv(r) /\ RenderInv(r)
  BY <1>1, <1>2, <1>4, <1>5, <1>8 DEF StageInv, RenderInv, Saved
<1>11. cache' \in [text : Numbers, analysis : Plans] /\ ~cache'.analysis.own
  BY <1>1 DEF RunsInv, RunTyped, EndInv
<1> QED
  BY <1>1, <1>4, <1>5, <1>7, <1>8, <1>9, <1>10, <1>11, RunStageKeeps DEF Saved

LEMMA PlanCandidatesKeeps ==
    ASSUME RunsInv, G!PlanCandidates
    PROVE  RunsInv'
<1>1. /\ run.at = "plan" /\ status = "processing"
      /\ UNCHANGED <<status, runClips, made, metadata, resume, settings, runKey, cache, sidecar, counts>>
  BY DEF G!PlanCandidates, G!Stage, G!Kept
<1>2. /\ run \in Runs /\ run.cp \in Payloads /\ run.key \in Keys /\ StageInv(run) /\ PayloadInv(run.cp)
      /\ run.cp.analysis \in Plans /\ run.cp.candidates \in Plans /\ run.cp.segments \in Plans /\ run.cp.analysis # G!None
  BY <1>1, CopyIs DEF Payloads, StageInv, Saved
<1>3. /\ cache \in [text : Numbers, analysis : Plans] /\ ~cache.analysis.own /\ sidecar \in Numbers
      /\ counts \in [texts : 0..Texts, analyses : Nat, runs : Nat, edits : Nat, jobs : Nat]
  BY DEF RunsInv, RunTyped, EndInv
<1>4. CASE run.cp.segments # G!None /\ run' = [run EXCEPT !.at = "freeze", !.plan = run.cp.segments] /\ UNCHANGED checkpoint
  <2> DEFINE r == [run EXCEPT !.at = "freeze", !.plan = run.cp.segments]
  <2>1. /\ r \in Runs /\ r.at = "freeze" /\ r.text = run.text /\ r.cp = run.cp /\ r.key = run.key /\ r.cached = run.cached /\ r.next = run.next
        /\ r.plan = run.cp.segments
    BY <1>2 DEF Runs
  <2> HIDE DEF r
  <2>2. StageInv(r) /\ RenderInv(r)
    BY <1>1, <1>2, <1>4, <2>1 DEF StageInv, RenderInv, PayloadInv, Saved
  <2>3. run' = r
    BY <1>4 DEF r
  <2> QED
    BY <1>1, <1>3, <1>4, <2>1, <2>2, <2>3, QuietStageKeeps DEF Saved
<1>5. CASE run.cp.segments = G!None
  <2> DEFINE plan == IF run.cp.candidates # G!None THEN run.cp.candidates ELSE run.cp.analysis
             next == [run EXCEPT !.at = "freeze", !.plan = plan]
             q == G!Merged([candidates |-> plan], run.cp)
             r == [next EXCEPT !.cp = q]
  <2>1. plan \in Plans /\ plan # G!None /\ plan.id = run.cp.analysis.id
    BY <1>2 DEF PayloadInv
  <2>2. G!SaveAnd([candidates |-> plan], next)
    BY <1>5 DEF G!PlanCandidates
  <2> HIDE DEF plan
  <2>3. /\ q \in Payloads /\ q.text = run.cp.text /\ q.analysis = run.cp.analysis
        /\ q.candidates = plan /\ q.segments = run.cp.segments /\ q.positions = run.cp.positions
    BY <1>2, <2>1, MergedCandidates
  <2>4. next \in Runs /\ next.cp = run.cp
    BY <1>2, <2>1 DEF Runs
  <2>5. checkpoint' = [key |-> run.key, era |-> Era, payload |-> q] /\ run' = r
    BY <1>1, <2>2, <2>4, SaveDoes
  <2> HIDE DEF q
  <2>6. /\ r \in Runs /\ r.at = "freeze" /\ r.text = run.text /\ r.cp = q /\ r.key = run.key /\ r.cached = run.cached /\ r.next = run.next
        /\ r.plan = plan
    BY <1>2, <2>1, <2>3 DEF Runs
  <2> HIDE DEF r
  <2>7. PayloadInv(q) /\ StageInv(r) /\ RenderInv(r)
    BY <1>1, <1>2, <1>5, <2>1, <2>3, <2>6 DEF PayloadInv, StageInv, RenderInv, Saved
  <2> QED
    BY <1>1, <1>3, <2>3, <2>5, <2>6, <2>7, RunStageKeeps DEF Saved
<1> QED
  BY <1>4, <1>5 DEF G!PlanCandidates

LEMMA FreezePlanKeeps ==
    ASSUME RunsInv, G!FreezePlan
    PROVE  RunsInv'
<1>1. /\ run.at = "freeze" /\ status = "processing"
      /\ UNCHANGED <<status, runClips, made, metadata, resume, settings, runKey, sidecar, counts>>
  BY DEF G!FreezePlan, G!Stage, G!Kept
<1>2. /\ run \in Runs /\ run.cp \in Payloads /\ run.key \in Keys /\ StageInv(run) /\ PayloadInv(run.cp)
      /\ run.plan \in Plans /\ run.text \in Numbers /\ run.cp.analysis # G!None
      /\ run.plan # G!None /\ run.plan.id = run.cp.analysis.id /\ (run.cp.segments # G!None => run.plan = run.cp.segments)
  BY <1>1, CopyIs DEF StageInv, Saved
<1>3. PICK n \in 1..run.plan.size :
        /\ run.cp.segments # G!None => n = run.plan.size
        /\ G!SaveAnd([segments |-> [run.plan EXCEPT !.size = n]],
                     [run EXCEPT !.at = "open", !.plan = [run.plan EXCEPT !.size = n]])
        /\ cache' = [text |-> run.text, analysis |-> [[run.plan EXCEPT !.size = n] EXCEPT !.own = FALSE]]
  BY DEF G!FreezePlan
<1> DEFINE plan == [run.plan EXCEPT !.size = n]
           shared == [plan EXCEPT !.own = FALSE]
           next == [run EXCEPT !.at = "open", !.plan = plan]
           q == G!Merged([segments |-> plan], run.cp)
           r == [next EXCEPT !.cp = q]
<1>4. plan \in Plans /\ plan.id = run.plan.id /\ plan.size = n /\ n # 0 /\ (n = run.plan.size => plan = run.plan)
  BY <1>2, RunsAssumption DEF Plans
<1>5. plan # G!None
  BY <1>4 DEF G!None
<1>6. shared \in Plans /\ ~shared.own
  BY <1>4 DEF Plans
<1>7. G!SaveAnd([segments |-> plan], next) /\ cache' = [text |-> run.text, analysis |-> shared]
  BY <1>3
<1> HIDE DEF shared
<1>8. cache' \in [text : Numbers, analysis : Plans] /\ ~cache'.analysis.own
  BY <1>2, <1>6, <1>7
<1> HIDE DEF plan
<1>9. /\ q \in Payloads /\ q.text = run.cp.text /\ q.analysis = run.cp.analysis
      /\ q.candidates = run.cp.candidates /\ q.segments = plan /\ q.positions = run.cp.positions
  BY <1>2, <1>4, MergedSegments
<1>10. next \in Runs /\ next.cp = run.cp
  BY <1>2, <1>4 DEF Runs
<1>11. checkpoint' = [key |-> run.key, era |-> Era, payload |-> q] /\ run' = r
  BY <1>1, <1>7, <1>10, SaveDoes
<1> HIDE DEF q
<1>12. /\ r \in Runs /\ r.at = "open" /\ r.text = run.text /\ r.cp = q /\ r.key = run.key /\ r.cached = run.cached /\ r.next = run.next
       /\ r.plan = plan
  BY <1>2, <1>4, <1>9 DEF Runs
<1> HIDE DEF r
<1>13. PayloadInv(q) /\ StageInv(r) /\ RenderInv(r)
  BY <1>1, <1>2, <1>4, <1>5, <1>9, <1>12 DEF PayloadInv, StageInv, RenderInv, Saved
<1>14. counts' \in [texts : 0..Texts, analyses : Nat, runs : Nat, edits : Nat, jobs : Nat]
  BY <1>1 DEF RunsInv, RunTyped
<1> QED
  BY <1>1, <1>8, <1>9, <1>11, <1>12, <1>13, <1>14, RunStageKeeps DEF Saved

\* Without a count, the orders of the clips stand for the positions; none of them is 0.
LEMMA OpenPlanKeeps ==
    ASSUME RunsInv, G!OpenPlan
    PROVE  RunsInv'
<1> DEFINE counted == IF run.cp.positions = {0} THEN G!Orders ELSE run.cp.positions
           next == [run EXCEPT !.at = "render", !.done = counted]
           q == G!Merged([positions |-> counted], run.cp)
           r == [next EXCEPT !.cp = q]
<1>1. /\ run.at = "open" /\ status = "processing" /\ G!SaveAnd([positions |-> counted], next)
      /\ UNCHANGED <<status, runClips, made, metadata, resume, settings, runKey, sidecar, cache, counts>>
  BY DEF G!OpenPlan, G!Stage, G!Kept
<1>2. /\ run \in Runs /\ run.cp \in Payloads /\ run.key \in Keys /\ StageInv(run) /\ PayloadInv(run.cp) /\ RenderInv(run)
  BY <1>1, CopyIs
<1>3. G!Orders \subseteq Nat \ {0}
  BY DEF G!Orders, RunsInv, RunTyped
<1>4. counted \in {{0}} \cup SUBSET (Nat \ {0}) /\ counted # {0} /\ run.cp.positions \in {{0}, counted}
  BY <1>2, <1>3 DEF Payloads
<1> HIDE DEF counted
<1>5. /\ q \in Payloads /\ q.text = run.cp.text /\ q.analysis = run.cp.analysis
      /\ q.candidates = run.cp.candidates /\ q.segments = run.cp.segments /\ q.positions = counted
  BY <1>2, <1>4, MergedPositions
<1>6. next \in Runs /\ next.cp = run.cp
  BY <1>2, <1>4 DEF Runs
<1>7. checkpoint' = [key |-> run.key, era |-> Era, payload |-> q] /\ run' = r
  BY <1>1, <1>6, SaveDoes
<1> HIDE DEF q
<1>8. /\ r \in Runs /\ r.at = "render" /\ r.text = run.text /\ r.cp = q /\ r.key = run.key /\ r.cached = run.cached
      /\ r.plan = run.plan /\ r.done = counted /\ r.next = run.next /\ r.failed = run.failed
  BY <1>2, <1>4, <1>5 DEF Runs
<1> HIDE DEF r
<1>9. PayloadInv(q) /\ StageInv(r)
  BY <1>1, <1>2, <1>5, <1>8 DEF PayloadInv, StageInv, Saved
<1>10. run.next = 1 /\ 1..(run.next - 1) = {}
  BY <1>1, <1>2 DEF StageInv
<1>11. RenderInv(r)
  BY <1>1, <1>2, <1>4, <1>5, <1>8, <1>10 DEF RenderInv
<1>12. /\ cache' \in [text : Numbers, analysis : Plans] /\ ~cache'.analysis.own
       /\ counts' \in [texts : 0..Texts, analyses : Nat, runs : Nat, edits : Nat, jobs : Nat]
  BY <1>1 DEF RunsInv, RunTyped, EndInv
<1> QED
  BY <1>1, <1>4, <1>5, <1>7, <1>8, <1>9, <1>11, <1>12, RunStageKeeps DEF Saved

\* A position is passed when it is counted, and rendered when it is not.
LEMMA RenderClipKeeps ==
    ASSUME RunsInv, G!RenderClip
    PROVE  RunsInv'
<1>1. /\ run.at = "render" /\ status = "processing" /\ run.next <= run.plan.size
      /\ UNCHANGED <<status, checkpoint, runClips, made, metadata, resume, settings, runKey, sidecar, cache, counts>>
  BY DEF G!RenderClip, G!Stage, G!Kept
<1>2. /\ run \in Runs /\ StageInv(run) /\ RenderInv(run) /\ run.next \in Nat \ {0}
  BY <1>1, CopyIs DEF Runs
<1>3. \/ run.next \in run.done /\ run' = [run EXCEPT !.next = run.next + 1]
      \/ run.next \notin run.done /\ run' = [run EXCEPT !.at = "save"]
      \/ run.next \notin run.done /\ run' = [run EXCEPT !.next = run.next + 1, !.failed = TRUE]
  BY DEF G!RenderClip
<1>4. PICK place \in {"render", "save"}, next \in Nat \ {0}, failed \in BOOLEAN :
        /\ run' = [run EXCEPT !.at = place, !.next = next, !.failed = failed]
        /\ place = "save" => next = run.next /\ next \notin run.done
        /\ ~failed => ~run.failed /\ (next = run.next \/ (next = run.next + 1 /\ run.next \in run.done))
  <2>1. run.failed \in BOOLEAN /\ run.next + 1 \in Nat \ {0}
    BY <1>2 DEF Runs
  <2>2. CASE run.next \in run.done /\ run' = [run EXCEPT !.next = run.next + 1]
    <3>1. run' = [run EXCEPT !.at = "render", !.next = run.next + 1, !.failed = run.failed]
      BY <1>1, <1>2, <2>2 DEF Runs
    <3> QED
      BY <2>1, <2>2, <3>1
  <2>3. CASE run.next \notin run.done /\ run' = [run EXCEPT !.at = "save"]
    <3>1. run' = [run EXCEPT !.at = "save", !.next = run.next, !.failed = run.failed]
      BY <1>1, <1>2, <2>3 DEF Runs
    <3> QED
      BY <1>2, <2>1, <2>3, <3>1
  <2>4. CASE run.next \notin run.done /\ run' = [run EXCEPT !.next = run.next + 1, !.failed = TRUE]
    <3>1. run' = [run EXCEPT !.at = "render", !.next = run.next + 1, !.failed = TRUE]
      BY <1>1, <1>2, <2>4 DEF Runs
    <3> QED
      BY <2>1, <3>1
  <2> QED
    BY <1>3, <2>2, <2>3, <2>4
<1> DEFINE r == [run EXCEPT !.at = place, !.next = next, !.failed = failed]
<1>5. /\ r \in Runs /\ r.at = place /\ r.text = run.text /\ r.cp = run.cp /\ r.key = run.key /\ r.cached = run.cached
      /\ r.plan = run.plan /\ r.done = run.done /\ r.next = next /\ r.failed = failed
  BY <1>2 DEF Runs
<1>6. run' = r
  BY <1>4
<1> HIDE DEF r
<1>7. StageInv(r)
  BY <1>1, <1>2, <1>5 DEF StageInv, Saved
<1>8. ~failed => 1..(next - 1) \subseteq run.done
  BY <1>1, <1>2, <1>4 DEF RenderInv
<1>9. RenderInv(r)
  BY <1>1, <1>2, <1>4, <1>5, <1>8 DEF RenderInv
<1>10. counts' \in [texts : 0..Texts, analyses : Nat, runs : Nat, edits : Nat, jobs : Nat] /\ sidecar' \in Numbers
  BY <1>1 DEF RunsInv, RunTyped
<1> QED
  BY <1>1, <1>5, <1>6, <1>7, <1>9, <1>10, QuietStageKeeps DEF Saved

\* The position is counted in the transaction of its clip.
LEMMA SaveClipKeeps ==
    ASSUME RunsInv, G!SaveClip
    PROVE  RunsInv'
<1> DEFINE counted == run.done \cup {run.next}
           next == [run EXCEPT !.at = "render", !.done = counted, !.next = run.next + 1]
           q == G!Merged([positions |-> counted], run.cp)
           r == [next EXCEPT !.cp = q]
<1>1. /\ run.at = "save" /\ status = "processing" /\ G!SaveAnd([positions |-> counted], next)
      /\ UNCHANGED <<status, metadata, resume, settings, runKey, sidecar, cache, counts>>
  BY DEF G!SaveClip
<1>2. /\ run \in Runs /\ run.cp \in Payloads /\ run.key \in Keys /\ StageInv(run) /\ PayloadInv(run.cp) /\ RenderInv(run)
      /\ run.next \in Nat \ {0} /\ run.done \subseteq Nat \ {0} /\ run.plan \in Plans /\ run.next <= run.plan.size
      /\ run.next \notin run.done /\ run.done = run.cp.positions
  BY <1>1, CopyIs DEF Runs, RenderInv
<1>3. counted \in {{0}} \cup SUBSET (Nat \ {0}) /\ counted # {0} /\ run.next + 1 \in Nat \ {0} /\ run.next \in 1..PlanSize
  BY <1>2, RunsAssumption DEF Plans
<1>4. ~run.failed => 1..run.next \subseteq counted
  BY <1>1, <1>2 DEF RenderInv
<1>5. run.done \subseteq counted
  OBVIOUS
<1> HIDE DEF counted
<1>6. /\ q \in Payloads /\ q.text = run.cp.text /\ q.analysis = run.cp.analysis
      /\ q.candidates = run.cp.candidates /\ q.segments = run.cp.segments /\ q.positions = counted
  BY <1>2, <1>3, MergedPositions
<1>7. next \in Runs /\ next.cp = run.cp
  BY <1>2, <1>3 DEF Runs
<1>8. checkpoint' = [key |-> run.key, era |-> Era, payload |-> q] /\ run' = r
  BY <1>1, <1>7, SaveDoes
<1>9. checkpoint.key = run.key /\ Era = checkpoint.era /\ checkpoint.payload = run.cp /\ checkpoint \in RunCheckpoints
  BY <1>1 DEF RunsInv, OwnCopyInv, Saved, Era, RunTyped
<1> HIDE DEF q
<1>10. /\ r \in Runs /\ r.at = "render" /\ r.text = run.text /\ r.cp = q /\ r.key = run.key /\ r.cached = run.cached
       /\ r.plan = run.plan /\ r.done = counted /\ r.next = run.next + 1 /\ r.failed = run.failed
  BY <1>2, <1>3, <1>6 DEF Runs
<1> HIDE DEF r
<1>11. PayloadInv(q) /\ StageInv(r)
  BY <1>1, <1>2, <1>6, <1>10 DEF PayloadInv, StageInv, Saved
<1>12. RenderInv(r)
  BY <1>1, <1>2, <1>3, <1>4, <1>6, <1>10 DEF RenderInv
<1>13. /\ checkpoint' \in RunCheckpoints /\ checkpoint'.key = run.key /\ checkpoint'.era = checkpoint.era
       /\ checkpoint'.payload = q /\ checkpoint.era \in Nat
  BY <1>2, <1>6, <1>8, <1>9 DEF RunCheckpoints
<1>14. MadeInv'
  <2>1. made' = made \cup {[era |-> checkpoint.era, position |-> run.next,
                            again |-> \E m \in made : m.era = checkpoint.era /\ m.position = run.next]}
    BY <1>13 DEF G!SaveClip
  <2>2. ~\E m \in made : m.era = checkpoint.era /\ m.position = run.next
    BY <1>2, <1>9 DEF RunsInv, MadeInv
  <2>3. run.next \in counted
    BY DEF counted
  <2> SUFFICES ASSUME NEW m \in made'
               PROVE  /\ ~m.again /\ m.era \in Nat /\ m.era <= checkpoint.era
                      /\ m.era = checkpoint.era => q.positions # {0} /\ m.position \in q.positions
    BY <1>13 DEF MadeInv
  <2>4. CASE m \in made
    BY <1>2, <1>3, <1>5, <1>6, <1>9, <2>4 DEF RunsInv, MadeInv
  <2>5. CASE m = [era |-> checkpoint.era, position |-> run.next,
                  again |-> \E n \in made : n.era = checkpoint.era /\ n.position = run.next]
    BY <1>3, <1>6, <1>13, <2>2, <2>3, <2>5
  <2> QED
    BY <2>1, <2>4, <2>5
<1>15. RunTyped'
  <2> DEFINE order == G!Highest(G!Orders) + 1
  <2>1. runClips' = runClips \cup {[order |-> order, position |-> run.next, era |-> checkpoint'.era]}
    BY DEF G!SaveClip
  <2>2. order \in Nat \ {0} /\ \A c \in runClips : c.order \in Nat /\ c.order <= order
    <3>1. RunTyped /\ \A c \in runClips : c.order \in Nat
      BY DEF RunsInv, RunTyped
    <3> QED
      BY <3>1, HighestIs
  <2> HIDE DEF order
  <2>3. \A c \in runClips' : c.order <= order
    BY <2>1, <2>2
  <2>4. Bounded(runClips') /\ \A c \in runClips' : c.order \in Nat \ {0} /\ c.position \in 1..PlanSize
    <3>1. Bounded(runClips')
      BY <2>2, <2>3 DEF Bounded
    <3>2. \A c \in runClips : c.order \in Nat \ {0} /\ c.position \in 1..PlanSize
      BY DEF RunsInv, RunTyped
    <3> QED
      BY <1>3, <2>1, <2>2, <3>1, <3>2
  <2> QED
    BY <1>1, <1>8, <1>10, <1>13, <2>4 DEF RunsInv, RunTyped
<1>16. OwnCopyInv' /\ EndInv'
  BY <1>1, <1>8, <1>10, <1>13 DEF OwnCopyInv, RunsInv, EndInv
<1> QED
  BY <1>8, <1>11, <1>12, <1>13, <1>14, <1>15, <1>16 DEF RunsInv

-----------------------------------------------------------------------------
(* The end of a run, and what happens around the runs.                      *)

\* The run is over, or stays what it is.
LEMMA AroundKeeps ==
    ASSUME RunsInv, UNCHANGED <<checkpoint, made>>, RunTyped', EndInv',
           run' = run \/ (run'.at = "none" /\ ~run'.cached.own)
    PROVE  RunsInv'
<1>1. StageInv(run') /\ RenderInv(run')
  BY DEF RunsInv, StageInv, RenderInv, Saved
<1>2. OwnCopyInv' /\ MadeInv'
  BY DEF RunsInv, OwnCopyInv, MadeInv
<1> QED
  BY <1>1, <1>2 DEF RunsInv

\* Without a failure every position of the plan was passed, so it is counted.
LEMMA RunCompletes ==
    ASSUME RunsInv, G!Complete
    PROVE  RunsInv'
<1>1. /\ run.at = "render" /\ run.next > run.plan.size /\ run' = [run EXCEPT !.at = "none"]
      /\ status' = (IF runClips = {} \/ run.failed THEN "error" ELSE "completed")
      /\ UNCHANGED <<checkpoint, cache, sidecar, counts, runClips, made, metadata, resume, settings, runKey>>
  BY DEF G!Complete, G!Stage, G!Kept
<1>2. /\ run \in Runs /\ run.plan \in Plans /\ RenderInv(run) /\ StageInv(run) /\ run.next \in Nat \ {0}
      /\ run.plan.size \in 0..PlanSize
  BY <1>1, CopyIs DEF Runs, Plans
<1>3. run' \in Runs /\ run'.at = "none" /\ run'.cached = run.cached
  BY <1>1, <1>2 DEF Runs
<1>4. RunTyped'
  BY <1>1, <1>3 DEF RunsInv, RunTyped
<1>5. run.plan = checkpoint.payload.segments /\ run.done = checkpoint.payload.positions
  BY <1>1, <1>2 DEF RenderInv, RunsInv, OwnCopyInv, Saved
<1>6. ~run.failed => 1..run.plan.size \subseteq run.done
  BY <1>1, <1>2, RunsAssumption DEF RenderInv
<1>7. EndInv'
  BY <1>1, <1>3, <1>5, <1>6 DEF RunsInv, EndInv
<1> QED
  BY <1>1, <1>2, <1>3, <1>4, <1>7, AroundKeeps DEF StageInv

LEMMA RunStopsKeeps ==
    ASSUME RunsInv, G!RunStops
    PROVE  RunsInv'
<1>1. /\ run.at # "none" /\ run' = G!NoRun /\ status' \in {status, "processing", "error"}
      /\ status' = "completed" => status = "completed"
      /\ UNCHANGED <<checkpoint, cache, sidecar, counts, runClips, made, metadata, resume, settings, runKey>>
  BY DEF G!RunStops, G!Kept
<1>2. run' \in Runs /\ run'.at = "none" /\ ~run'.cached.own
  BY <1>1, NoRunIs, NoneIs
<1>3. RunTyped'
  BY <1>1, <1>2 DEF RunsInv, RunTyped
<1>4. EndInv'
  BY <1>1, <1>2 DEF RunsInv, EndInv
<1> QED
  BY <1>1, <1>2, <1>3, <1>4, AroundKeeps

LEMMA RunCancelKeeps ==
    ASSUME RunsInv, G!Cancel
    PROVE  RunsInv'
<1>1. status' = "cancelled" /\ UNCHANGED <<checkpoint, cache, sidecar, run, counts, runClips, made, metadata, resume, settings, runKey>>
  BY DEF G!Cancel, G!Kept
<1>2. RunTyped' /\ EndInv'
  BY <1>1 DEF RunsInv, RunTyped, EndInv
<1> QED
  BY <1>1, <1>2, AroundKeeps

LEMMA EditSteps ==
    ASSUME RunsInv, G!ChangeKey \/ G!Evict \/ G!DeleteClip
    PROVE  RunsInv'
<1>1. /\ counts' \in [texts : 0..Texts, analyses : Nat, runs : Nat, edits : Nat, jobs : Nat] /\ counts'.jobs = counts.jobs
      /\ UNCHANGED <<status, checkpoint, cache, made, run, metadata, resume, settings>>
  <2>1. counts \in [texts : 0..Texts, analyses : Nat, runs : Nat, edits : Nat, jobs : Nat]
    BY DEF RunsInv, RunTyped
  <2>2. counts' = [counts EXCEPT !.edits = @ + 1]
    BY DEF G!ChangeKey, G!Evict, G!DeleteClip, G!Edit
  <2> QED
    BY <2>1, <2>2 DEF G!ChangeKey, G!Evict, G!DeleteClip
<1>2. runKey' \in Keys /\ sidecar' \in Numbers /\ runClips' \subseteq runClips
  <2>1. 0 \in Numbers
    BY RunsAssumption DEF Numbers, G!Shared
  <2> QED
    BY <2>1 DEF G!ChangeKey, G!Evict, G!DeleteClip, RunsInv, RunTyped
<1>3. Bounded(runClips') /\ \A c \in runClips' : c.order \in Nat \ {0} /\ c.position \in 1..PlanSize
  BY <1>2 DEF RunsInv, RunTyped, Bounded
<1>4. RunTyped'
  BY <1>1, <1>2, <1>3 DEF RunsInv, RunTyped
<1>5. EndInv'
  BY <1>1 DEF RunsInv, EndInv
<1> QED
  BY <1>1, <1>4, <1>5, AroundKeeps

LEMMA NoRequestIs == G!NoRequest \in Requested /\ G!NoRequest.at = "none"
BY DEF G!NoRequest, Requested

LEMMA ResumeSteps ==
    ASSUME RunsInv, G!ResumeRead \/ G!ResumeQueue \/ G!ResumeReserve
    PROVE  RunsInv'
<1>1. UNCHANGED <<runKey, checkpoint, cache, sidecar, runClips, made, run, settings>> /\ status' \in {status, "queued"}
  BY DEF G!ResumeRead, G!ResumeQueue, G!ResumeReserve, G!Others
<1>2. /\ resume \in Requested /\ resume.at # "edited" /\ resume.read.style \in Nat /\ metadata \in [job : Nat, style : Nat]
      /\ counts \in [texts : 0..Texts, analyses : Nat, runs : Nat, edits : Nat, jobs : Nat] /\ metadata.job = counts.jobs
  BY DEF RunsInv, RunTyped, EndInv, Requested
<1>3. /\ resume' \in Requested /\ resume'.at # "edited" /\ metadata' \in [job : Nat, style : Nat]
      /\ counts' \in [texts : 0..Texts, analyses : Nat, runs : Nat, edits : Nat, jobs : Nat] /\ metadata'.job = counts'.jobs
  <2>1. CASE G!ResumeRead
    BY <1>2, <2>1 DEF G!ResumeRead, Requested
  <2>2. CASE G!ResumeQueue
    BY <1>2, <2>2 DEF G!ResumeQueue, Requested
  <2>3. CASE G!ResumeReserve
    BY <1>2, <2>3, NoRequestIs DEF G!ResumeReserve
  <2> QED
    BY <2>1, <2>2, <2>3
<1>4. RunTyped' /\ EndInv'
  BY <1>1, <1>3 DEF RunsInv, RunTyped, EndInv
<1> QED
  BY <1>1, <1>4, AroundKeeps

\* A settings edit saves its own field, whatever it read before.
LEMMA SettingsSteps ==
    ASSUME RunsInv, G!SettingsRead \/ G!SettingsEdit \/ G!SettingsSave
    PROVE  RunsInv'
<1>1. UNCHANGED <<runKey, checkpoint, cache, sidecar, runClips, made, run, resume, status>>
  BY DEF G!SettingsRead, G!SettingsEdit, G!SettingsSave, G!Others
<1>2. /\ settings \in Requested /\ settings.at # "queued" /\ metadata \in [job : Nat, style : Nat]
      /\ counts \in [texts : 0..Texts, analyses : Nat, runs : Nat, edits : Nat, jobs : Nat] /\ metadata.job = counts.jobs
  BY DEF RunsInv, RunTyped, EndInv
<1>3. /\ settings' \in Requested /\ settings'.at # "queued" /\ metadata' \in [job : Nat, style : Nat]
      /\ counts' \in [texts : 0..Texts, analyses : Nat, runs : Nat, edits : Nat, jobs : Nat] /\ metadata'.job = counts'.jobs
  <2>1. CASE G!SettingsRead
    BY <1>2, <2>1 DEF G!SettingsRead, G!Edit, Requested
  <2>2. CASE G!SettingsEdit
    BY <1>2, <2>2, NoRequestIs DEF G!SettingsEdit, Requested
  <2>3. CASE G!SettingsSave
    BY <1>2, <2>3, NoRequestIs DEF G!SettingsSave
  <2> QED
    BY <2>1, <2>2, <2>3
<1>4. RunTyped' /\ EndInv'
  BY <1>1, <1>3 DEF RunsInv, RunTyped, EndInv
<1> QED
  BY <1>1, <1>4, AroundKeeps

LEMMA RunsNextKeeps ==
    ASSUME RunsInv, G!Next
    PROVE  RunsInv'
BY StartRunKeeps, TranscribeKeeps, DropPlanKeeps, SaveTranscriptKeeps, AnalyzeKeeps, PlanCandidatesKeeps,
   FreezePlanKeeps, OpenPlanKeeps, RenderClipKeeps, SaveClipKeeps, RunCompletes, RunStopsKeeps, RunCancelKeeps,
   EditSteps, ResumeSteps, SettingsSteps DEF G!Next

LEMMA RunsInitHolds == Init => RunsInv
<1> SUFFICES ASSUME Init
             PROVE  RunsInv
  OBVIOUS
<1> DEFINE shared == [id |-> G!Shared, of |-> G!Shared, own |-> FALSE, size |-> PlanSize]
<1>1. G!Init \/ G!Gone
  BY DEF Init
<1>2. 0 \in Numbers /\ G!Shared \in Numbers /\ G!Shared \in Nat
  BY RunsAssumption DEF Numbers, G!Shared
<1>3. shared \in Plans /\ ~shared.own
  BY <1>2, RunsAssumption DEF Plans
<1> HIDE DEF shared
<1>4. /\ (G!StartIn("queued") \/ G!StartIn("deleted"))
      /\ sidecar \in Numbers /\ cache \in [text : Numbers, analysis : Plans] /\ ~cache.analysis.own
  <2>1. CASE G!Init
    <3>1. G!StartIn("queued") /\ sidecar \in {0, G!Shared}
      BY <2>1 DEF G!Init
    <3>2. PICK t \in {0, G!Shared}, a \in {G!None, shared} : cache = [text |-> t, analysis |-> a]
      BY <2>1 DEF G!Init, shared
    <3> QED
      BY <1>2, <1>3, <3>1, <3>2, NoneIs
  <2>2. CASE G!Gone
    BY <1>2, <2>2, NoneIs DEF G!Gone
  <2> QED
    BY <1>1, <2>1, <2>2
<1>5. /\ status \in {"queued", "deleted"} /\ runKey = CHOOSE k \in Keys : TRUE
      /\ checkpoint = [key |-> runKey, era |-> 0, payload |-> G!Empty]
      /\ runClips = {} /\ made = {} /\ run = G!NoRun
      /\ metadata = [job |-> 1, style |-> 0] /\ resume = G!NoRequest /\ settings = G!NoRequest
      /\ counts = [texts |-> 0, analyses |-> 0, runs |-> 0, edits |-> 0, jobs |-> 1]
  BY <1>4 DEF G!StartIn
<1>6. runKey \in Keys
  BY <1>5, RunsAssumption
<1>7. checkpoint \in RunCheckpoints /\ checkpoint.payload = G!Empty
  BY <1>5, <1>6, NoneIs DEF RunCheckpoints
<1>8. Bounded(runClips) /\ \A c \in runClips : c.order \in Nat \ {0} /\ c.position \in 1..PlanSize
  BY <1>5 DEF Bounded
<1>9. counts \in [texts : 0..Texts, analyses : Nat, runs : Nat, edits : Nat, jobs : Nat] /\ counts.jobs = 1
  BY <1>5, RunsAssumption
<1>10. RunTyped
  BY <1>4, <1>5, <1>6, <1>7, <1>8, <1>9, NoRunIs, NoRequestIs DEF RunTyped
<1>11. StageInv(run) /\ RenderInv(run) /\ OwnCopyInv
  BY <1>5, NoRunIs, NoneIs DEF StageInv, RenderInv, OwnCopyInv, Saved
<1>12. PayloadInv(checkpoint.payload) /\ MadeInv
  BY <1>5, <1>7, NoneIs DEF PayloadInv, MadeInv
<1>13. EndInv
  BY <1>4, <1>5, <1>9 DEF EndInv
<1> QED
  BY <1>10, <1>11, <1>12, <1>13 DEF RunsInv

LEMMA RunsAreTyped == RunsInv => G!TypeOK
BY DEF RunsInv, RunTyped, G!TypeOK, RunCheckpoints, Requested, Numbers

\* What a run keeps (services/task_service.py, workers/tasks.py): its copy of the checkpoint
\* is the checkpoint, or both begin anew; plans come from the analysis beside them and that
\* one from the transcript; the positions counted are those clips were made for.
THEOREM RunsInductive == Spec => []RunsInv
<1>1. Init => RunsInv
  BY RunsInitHolds
<1>2. RunsInv /\ [Next]_<<part, drafts, editorExports, aiEdits, replicas,
                           generation, accounts, sourceCache, download, workspace, stream>> => RunsInv'
  <2> SUFFICES ASSUME RunsInv, [Next]_<<part, drafts, editorExports, aiEdits, replicas,
                           generation, accounts, sourceCache, download, workspace, stream>>
               PROVE  RunsInv'
    OBVIOUS
  <2>1. CASE G!Next
    BY <2>1, RunsNextKeeps
  <2>2. CASE UNCHANGED generation
    <3>1. UNCHANGED <<status, runKey, checkpoint, cache, sidecar, runClips, made, run, metadata, resume, settings, counts>>
      BY <2>2 DEF generation
    <3> QED
      BY <3>1 DEF RunsInv, RunTyped, OwnCopyInv, MadeInv, EndInv
  <2> QED
    BY <2>1, <2>2 DEF Next
<1> QED
  BY <1>1, <1>2, PTL DEF Spec

\* In every reachable state a retry finds the plan of its own analysis, a run renders the plan
\* of its checkpoint, no position is made twice, a completed task has none left, and the job
\* of the metadata is the last one reserved (checkpoints and resume_task, tasks.py:1328-1330).
THEOREM RetriesKeepTheirPlanCorrect == Spec => []RetriesKeepTheirPlan
<1>1. RunsInv => RetriesKeepTheirPlan
  <2> SUFFICES ASSUME RunsInv
               PROVE  G!RetriesKeepTheirPlan
    BY DEF RetriesKeepTheirPlan
  <2>1. run.at \in {"open", "render", "save"} => checkpoint.key = run.key /\ run.cp = checkpoint.payload
    BY DEF RunsInv, OwnCopyInv, Saved
  <2> QED
    BY <2>1 DEF RunsInv, PayloadInv, RenderInv, MadeInv, EndInv, G!RetriesKeepTheirPlan, G!Payload
<1> QED
  BY <1>1, RunsInductive, PTL

-----------------------------------------------------------------------------
(* Drafts: whatever anybody has read or copied is a beginning of the draft. *)

Drafts == Seq(Tabs) \cup {D!None}
Begins(old, d) == old # D!None => d # D!None /\ Len(old) <= Len(d) /\ \A i \in 1..Len(old) : old[i] = d[i]
DraftTyped ==
    /\ asset \in {"none", "preparing", "ready", "failed"} /\ draftCrashes \in 0..MaxCrashes
    /\ draft \in Drafts
    /\ tabs \in [Tabs -> [read : Drafts, saving : BOOLEAN]]
    /\ snapshot \in [held : Drafts, stamp : Drafts, copying : Drafts]
DraftInv ==
    /\ DraftTyped
    /\ asset = "ready" => draft # D!None
    /\ \A t \in Tabs : Begins(tabs[t].read, draft) /\ (tabs[t].saving => tabs[t].read # D!None)
    /\ Begins(snapshot.stamp, draft) /\ Begins(snapshot.copying, draft)
    /\ draft # D!None /\ snapshot.stamp = draft => snapshot.held = draft

LEMMA NoDraftYet == D!None \notin Seq(Tabs) /\ Len(<<>>) = 0 /\ <<>> \in Seq(Tabs)
<1>1. D!None[1] = 0 /\ Len(D!None) = 1
  BY DEF D!None
<1>2. \A d \in Seq(Tabs) : Len(d) = 1 => d[1] \in Tabs
  OBVIOUS
<1> QED
  BY <1>1, <1>2, EditorAssumption

\* The draft stays as it is, begins, or is made longer by a tab.
Grows(d) ==
    \/ d = draft
    \/ draft = D!None /\ d = <<>>
    \/ draft # D!None /\ \E t \in Tabs : d = Append(draft, t)

LEMMA GrowsDoes ==
    ASSUME DraftTyped, Grows(draft')
    PROVE  /\ draft' \in Drafts
           /\ \A old \in Drafts : Begins(old, draft) => Begins(old, draft')
           /\ draft' # draft => \A old \in Drafts : Begins(old, draft) => old # draft'
           /\ draft # D!None => draft' # D!None /\ D!IsPrefix(draft, draft')
<1>1. CASE draft' = draft
  BY <1>1 DEF DraftTyped, Begins, D!IsPrefix
<1>2. CASE draft = D!None /\ draft' = <<>>
  BY <1>2, NoDraftYet DEF DraftTyped, Begins, Drafts
<1>3. ASSUME draft # D!None, NEW t \in Tabs, draft' = Append(draft, t)
      PROVE  /\ draft' \in Drafts
             /\ \A old \in Drafts : Begins(old, draft) => Begins(old, draft') /\ old # draft'
             /\ draft' # D!None /\ D!IsPrefix(draft, draft')
  <2>1. draft \in Seq(Tabs) /\ draft' \in Seq(Tabs) /\ Len(draft') = Len(draft) + 1
    BY <1>3 DEF DraftTyped, Drafts
  <2>2. \A i \in 1..Len(draft) : draft'[i] = draft[i]
    BY <1>3, <2>1
  <2>3. SubSeq(draft, 1, Len(draft)) = SubSeq(draft', 1, Len(draft))
    BY <2>1, <2>2
  <2>4. \A old \in Drafts : Begins(old, draft) => Begins(old, draft') /\ old # draft'
    BY <1>3, <2>1, <2>2, NoDraftYet DEF Begins, Drafts
  <2> QED
    BY <2>1, <2>3, <2>4, NoDraftYet DEF Drafts, D!IsPrefix
<1> QED
  BY <1>1, <1>2, <1>3 DEF Grows

\* A step of the preparation, or of a tab: the copy is left alone.
LEMMA DraftGrowsKeeps ==
    ASSUME DraftInv, Grows(draft'), UNCHANGED snapshot,
           asset' \in {"none", "preparing", "ready", "failed"}, draftCrashes' \in 0..MaxCrashes,
           asset' = "ready" => draft' # D!None,
           tabs' \in [Tabs -> [read : Drafts, saving : BOOLEAN]],
           \A t \in Tabs : Begins(tabs'[t].read, draft') /\ (tabs'[t].saving => tabs'[t].read # D!None)
    PROVE  DraftInv'
<1>1. DraftTyped' /\ Begins(snapshot'.stamp, draft') /\ Begins(snapshot'.copying, draft')
  BY GrowsDoes DEF DraftInv, DraftTyped
<1>2. draft' # D!None /\ snapshot'.stamp = draft' => snapshot'.held = draft'
  BY GrowsDoes DEF DraftInv, DraftTyped
<1> QED
  BY <1>1, <1>2 DEF DraftInv

LEMMA PrepSteps ==
    ASSUME DraftInv, NEW p \in Preps,
           \/ D!Prepare(p) \/ D!PrepareEnqueue(p) \/ D!PrepareFails(p) \/ D!PrepRun(p)
           \/ D!PrepDone(p) \/ D!PrepFails(p) \/ D!WorkerDies(p)
    PROVE  DraftInv' /\ Grows(draft')
<1>1. Grows(draft')
  BY DEF D!Prepare, D!PrepareEnqueue, D!PrepareFails, D!PrepRun, D!PrepDone, D!PrepFails, D!WorkerDies, Grows
<1>2. UNCHANGED <<snapshot, tabs>> /\ asset' \in {"none", "preparing", "ready", "failed"}
  BY DEF D!Prepare, D!PrepareEnqueue, D!PrepareFails, D!PrepRun, D!PrepDone, D!PrepFails, D!WorkerDies, DraftInv, DraftTyped
<1>3. draftCrashes' \in 0..MaxCrashes
  BY ClipsAssumption DEF D!Prepare, D!PrepareEnqueue, D!PrepareFails, D!PrepRun, D!PrepDone, D!PrepFails, D!WorkerDies, DraftInv, DraftTyped
<1>4. asset' = "ready" => draft' # D!None
  BY NoDraftYet DEF D!Prepare, D!PrepareEnqueue, D!PrepareFails, D!PrepRun, D!PrepDone, D!PrepFails, D!WorkerDies, DraftInv
<1>5. \A t \in Tabs : Begins(tabs'[t].read, draft') /\ (tabs'[t].saving => tabs'[t].read # D!None)
  BY <1>1, <1>2, GrowsDoes DEF DraftInv, DraftTyped
<1> QED
  BY <1>1, <1>2, <1>3, <1>4, <1>5, DraftGrowsKeeps DEF DraftInv, DraftTyped

LEMMA TabSteps ==
    ASSUME DraftInv, NEW t \in Tabs, D!Open(t) \/ D!Save(t)
    PROVE  DraftInv' /\ Grows(draft')
<1>1. UNCHANGED <<asset, draft, snapshot, draftCrashes>>
  BY DEF D!Open, D!Save
<1>2. tabs' \in [Tabs -> [read : Drafts, saving : BOOLEAN]]
  BY DEF D!Open, D!Save, DraftInv, DraftTyped
<1>3. \A u \in Tabs : Begins(tabs'[u].read, draft') /\ (tabs'[u].saving => tabs'[u].read # D!None)
  BY <1>1 DEF D!Open, D!Save, DraftInv, DraftTyped, Begins
<1> QED
  BY <1>1, <1>2, <1>3, DraftGrowsKeeps DEF DraftInv, DraftTyped, Grows

\* A save is accepted only when the tab had the whole draft.
LEMMA SaveCommitKeeps ==
    ASSUME DraftInv, NEW t \in Tabs, D!SaveCommit(t)
    PROVE  DraftInv' /\ Grows(draft')
<1> DEFINE old == tabs[t].read
           accepted == Len(old) = Len(draft)
<1>1. PICK heard \in BOOLEAN :
        tabs' = [tabs EXCEPT ![t] = [read |-> IF ~heard THEN old ELSE IF accepted THEN Append(old, t) ELSE D!None,
                                     saving |-> FALSE]]
  BY DEF D!SaveCommit
<1>2. draft' = (IF accepted THEN Append(old, t) ELSE draft) /\ UNCHANGED <<asset, snapshot, draftCrashes>>
  BY DEF D!SaveCommit
<1>3. old \in Seq(Tabs) /\ draft \in Seq(Tabs) /\ draft # D!None /\ Begins(old, draft)
  BY DEF D!SaveCommit, DraftInv, DraftTyped, Drafts, Begins
<1>4. accepted => old = draft
  <2>1. \A i \in 1..Len(old) : old[i] = draft[i]
    BY <1>3, NoDraftYet DEF Begins
  <2> QED
    BY <1>3, <2>1
<1>5. Grows(draft')
  BY <1>2, <1>3, <1>4 DEF Grows
<1>6. draft' \in Seq(Tabs) /\ draft' # D!None /\ Begins(old, draft') /\ Begins(draft', draft')
  BY <1>2, <1>3, <1>5, NoDraftYet, GrowsDoes DEF DraftInv, Drafts, Begins
<1> DEFINE next == IF ~heard THEN old ELSE IF accepted THEN Append(old, t) ELSE D!None
           r == [read |-> next, saving |-> FALSE]
<1>7. next \in Drafts /\ Begins(next, draft')
  BY <1>2, <1>3, <1>6 DEF Drafts, Begins
<1>8. r \in [read : Drafts, saving : BOOLEAN] /\ r.read = next /\ ~r.saving
  BY <1>7
<1>9. tabs' = [tabs EXCEPT ![t] = r]
  BY <1>1
<1> HIDE DEF r, next
<1>10. tabs' \in [Tabs -> [read : Drafts, saving : BOOLEAN]] /\ tabs'[t] = r /\ \A u \in Tabs \ {t} : tabs'[u] = tabs[u]
  BY <1>8, <1>9 DEF DraftInv, DraftTyped
<1>11. \A u \in Tabs : Begins(tabs'[u].read, draft') /\ (tabs'[u].saving => tabs'[u].read # D!None)
  BY <1>5, <1>7, <1>8, <1>10, GrowsDoes DEF DraftInv, DraftTyped
<1>12. asset' = "ready" => draft' # D!None
  BY <1>6
<1> QED
  BY <1>2, <1>5, <1>10, <1>11, <1>12, DraftGrowsKeeps DEF DraftInv, DraftTyped

\* The copy: what is written in the manifest is what was read before the upload, so it
\* names the draft only when that is what was uploaded.
LEMMA CopySteps ==
    ASSUME DraftInv, D!SyncStart \/ D!SyncEnds \/ D!SyncFails
    PROVE  DraftInv' /\ Grows(draft')
<1>1. UNCHANGED <<asset, draft, tabs>> /\ Grows(draft')
  BY DEF D!SyncStart, D!SyncEnds, D!SyncFails, Grows
<1>2. draftCrashes' \in 0..MaxCrashes
  BY ClipsAssumption DEF D!SyncStart, D!SyncEnds, D!SyncFails, DraftInv, DraftTyped
<1>3. /\ snapshot' \in [held : Drafts, stamp : Drafts, copying : Drafts]
      /\ Begins(snapshot'.stamp, draft) /\ Begins(snapshot'.copying, draft)
      /\ draft # D!None /\ snapshot'.stamp = draft => snapshot'.held = draft
  <2>1. CASE D!SyncStart
    BY <2>1 DEF D!SyncStart, DraftInv, DraftTyped, Begins
  <2>2. CASE D!SyncEnds
    BY <2>2 DEF D!SyncEnds, DraftInv, DraftTyped, Begins, Drafts
  <2>3. CASE D!SyncFails
    BY <2>3 DEF D!SyncFails, DraftInv, DraftTyped, Begins, Drafts
  <2> QED
    BY <2>1, <2>2, <2>3
<1> QED
  BY <1>1, <1>2, <1>3 DEF DraftInv, DraftTyped

LEMMA DraftNextKeeps ==
    ASSUME DraftInv, D!Next
    PROVE  DraftInv' /\ Grows(draft')
<1>1. ASSUME NEW t \in Tabs, D!Open(t) \/ D!Save(t) \/ D!SaveCommit(t)
      PROVE  DraftInv' /\ Grows(draft')
  BY <1>1, TabSteps, SaveCommitKeeps
<1> QED
  BY <1>1, PrepSteps, CopySteps DEF D!Next

LEMMA DraftInitHolds == Init => DraftInv
<1> SUFFICES ASSUME NEW phase \in {"none", "preparing"}, asset = phase, draft = D!None, draftCrashes = 0,
                    tabs = [t \in Tabs |-> [read |-> D!None, saving |-> FALSE]],
                    snapshot = [held |-> D!None, stamp |-> D!None, copying |-> D!None]
             PROVE  DraftInv
  BY DEF Init, D!Init, D!Gone, D!StartIn
<1> QED
  BY ClipsAssumption DEF DraftInv, DraftTyped, Drafts, Begins

-----------------------------------------------------------------------------
(* Exports: the version of the video that is here is the last that was made, *)
(* and a job that was answered "cancelled" never renders to its end.         *)

Rows == [status : {"none", "queued", "rendering", "completed", "failed", "cancelled"}, cancel : BOOLEAN,
         at : {"none", "asked", "queued", "loaded", "checked", "rendering", "rendered", "gone"},
         tries : 0..MaxTries, file : BOOLEAN, answer : {"none", "cancelled", "cancelling"}]
PreparedVideos == [made : 0..MaxVersions, here : 0..MaxVersions, stamp : 0..MaxVersions, stored : 0..MaxVersions,
           copying : 0..MaxVersions]
ExportTyped == jobs \in [Jobs -> Rows] /\ clean \in PreparedVideos /\ exportCrashes \in 0..MaxCrashes

\* A job whose worker has begun, or may begin.
JobInv(r) ==
    /\ r.at \in {"rendering", "rendered"} => r.status = "rendering"
    /\ r.answer = "cancelled" => r.cancel /\ r.status \in {"cancelled", "failed"}
    /\ r.at = "rendered" \/ r.status = "completed" => r.file
    /\ r.status = "completed" => r.at = "gone"
    /\ r.at \in {"none", "asked"} => r.tries = 0
    /\ r.at = "queued" => r.tries < MaxTries
    /\ r.at = "none" => r.status \in {"none", "failed"}
    /\ r.status = "none" => r.at = "none"
ReadsVideo(r) == r.at \in {"loaded", "checked", "rendering", "rendered"}
VideoInv(c) ==
    /\ c.here \in {0, c.made}
    /\ c.stamp <= c.made /\ c.copying <= c.made /\ c.stored <= c.made
    /\ c.here = 0 \/ c.stamp = c.made => c.stored = c.made
    /\ c.copying # 0 => c.here # 0 /\ c.stamp # c.here
ExportInv ==
    /\ ExportTyped
    /\ \A j \in Jobs : /\ JobInv(jobs[j])
                       /\ ReadsVideo(jobs[j]) => clean.here # 0
                       /\ jobs[j].at # "none" => clean.made # 0
    /\ VideoInv(clean)

\* One job moves on.
Becomes(j, r) == jobs' = [jobs EXCEPT ![j] = r]
Fits(j, r) ==
    /\ r \in Rows /\ JobInv(r)
    /\ ReadsVideo(r) => ReadsVideo(jobs[j])
    /\ r.at # "none" => clean.made # 0

LEMMA BecomesKeeps ==
    ASSUME ExportInv, NEW j \in Jobs, NEW r, Becomes(j, r), Fits(j, r), UNCHANGED clean,
           exportCrashes' \in 0..MaxCrashes
    PROVE  ExportInv'
<1>1. jobs' \in [Jobs -> Rows] /\ jobs'[j] = r /\ \A i \in Jobs \ {j} : jobs'[i] = jobs[i]
  BY DEF Becomes, Fits, ExportInv, ExportTyped
<1> QED
  BY <1>1 DEF ExportInv, ExportTyped, Fits

Moved(r, phase, place) == [r EXCEPT !.status = phase, !.at = place]

LEMMA SetDoes ==
    ASSUME ExportTyped, NEW j \in Jobs, NEW phase, NEW place, E!Set(j, phase, place)
    PROVE  Becomes(j, Moved(jobs[j], phase, place))
BY DEF ExportTyped, E!Set, Becomes, Moved

\* What the steps of a job make of its status and its place.
Step(r, phase, place) ==
    \/ r.status = "none" /\ phase = "queued" /\ place = "asked" /\ clean.made # 0
    \/ r.at = "asked" /\ phase \in {r.status, "failed"} /\ place \in {"queued", "gone"} /\ (place = "gone" => phase = "failed")
    \/ r.at = "loaded" /\ ~r.cancel /\ phase = r.status /\ place = "checked"
    \/ r.at \in {"checked", "rendering"} /\ ~r.cancel /\ phase = "rendering" /\ place = "rendering"
    \/ ReadsVideo(r) /\ r.at # "rendered" /\ phase = "cancelled" /\ place = "gone"
    \/ r.at = "rendered" /\ phase = "completed" /\ place = "gone"
    \/ ReadsVideo(r) /\ phase = "failed" /\ place = "gone"
    \/ ReadsVideo(r) /\ phase = r.status /\ place = (IF r.tries < MaxTries THEN "queued" ELSE "gone")

LEMMA StepFits ==
    ASSUME ExportInv, NEW j \in Jobs, NEW phase, NEW place, Step(jobs[j], phase, place)
    PROVE  Fits(j, Moved(jobs[j], phase, place))
<1>1. PICK r : r = jobs[j]
  OBVIOUS
<1>2. PICK m : m = Moved(r, phase, place)
  OBVIOUS
<1>3. r \in Rows /\ JobInv(r) /\ (r.at # "none" => clean.made # 0) /\ Step(r, phase, place)
  BY <1>1 DEF ExportInv, ExportTyped
<1>4. /\ phase \in {"none", "queued", "rendering", "completed", "failed", "cancelled"}
      /\ place \in {"none", "asked", "queued", "loaded", "checked", "rendering", "rendered", "gone"}
  BY <1>3 DEF Step, Rows
<1>5. /\ m \in Rows /\ m.status = phase /\ m.at = place
      /\ m.cancel = r.cancel /\ m.tries = r.tries /\ m.file = r.file /\ m.answer = r.answer
  <2>1. r \in Rows
    BY <1>3
  <2> QED
    BY <1>2, <1>4, <2>1 DEF Moved, Rows
<1>6. (ReadsVideo(m) => ReadsVideo(r)) /\ (m.at # "none" => clean.made # 0)
  BY <1>3, <1>5 DEF Step, ReadsVideo
<1>7. m.tries \in 0..MaxTries /\ MaxTries \in Nat \ {0}
  BY <1>5, EditorAssumption DEF Rows
<1>8. (m.at = "queued" => m.tries < MaxTries) /\ (m.at \in {"none", "asked"} => m.tries = 0)
  BY <1>3, <1>5, <1>7 DEF Step, ReadsVideo, JobInv
<1>9. JobInv(m)
  BY <1>3, <1>5, <1>8 DEF Step, ReadsVideo, JobInv
<1> QED
  BY <1>1, <1>2, <1>5, <1>6, <1>9 DEF Fits

LEMMA SetSteps ==
    ASSUME ExportInv, NEW j \in Jobs,
           \/ E!StartExport(j) \/ E!EnqueueExport(j) \/ E!EnqueueFails(j) \/ E!CheckCancel(j)
           \/ E!Render(j) \/ E!Complete(j) \/ E!ExportFails(j) \/ E!WorkerDies(j)
    PROVE  ExportInv'
<1>1. exportCrashes' \in 0..MaxCrashes /\ UNCHANGED clean
  BY ClipsAssumption DEF E!StartExport, E!EnqueueExport, E!EnqueueFails, E!CheckCancel, E!Render, E!Complete,
     E!ExportFails, E!WorkerDies, ExportInv, ExportTyped
<1>2. PICK phase, place : E!Set(j, phase, place) /\ Step(jobs[j], phase, place)
  BY DEF E!StartExport, E!EnqueueExport, E!EnqueueFails, E!CheckCancel, E!Render, E!Complete, E!ExportFails, E!WorkerDies,
     E!Holding, Step, ReadsVideo
<1> QED
  BY <1>1, <1>2, SetDoes, StepFits, BecomesKeeps DEF ExportInv

\* A marker for a queued export is its end: no worker that sees it goes on.
LEMMA CancelKeeps ==
    ASSUME ExportInv, NEW j \in Jobs, E!Cancel(j)
    PROVE  ExportInv'
<1> DEFINE r == jobs[j]
           m == [r EXCEPT !.cancel = TRUE,
                          !.status = IF r.status = "queued" THEN "cancelled" ELSE r.status,
                          !.answer = IF r.status = "queued" THEN "cancelled" ELSE "cancelling"]
<1>1. r \in Rows /\ JobInv(r) /\ (r.at # "none" => clean.made # 0) /\ r.status \in {"queued", "rendering"}
  BY DEF ExportInv, ExportTyped, E!Cancel, E!Active
<1>2. /\ m \in Rows /\ m.cancel /\ m.at = r.at /\ m.tries = r.tries /\ m.file = r.file
      /\ m.status = IF r.status = "queued" THEN "cancelled" ELSE r.status
      /\ m.answer = IF r.status = "queued" THEN "cancelled" ELSE "cancelling"
  BY <1>1 DEF Rows
<1>3. Becomes(j, m) /\ UNCHANGED <<clean, exportCrashes>>
  BY DEF E!Cancel, Becomes, ExportInv, ExportTyped
<1> HIDE DEF r, m
<1>4. Fits(j, m)
  BY <1>1, <1>2 DEF Fits, ReadsVideo, JobInv, r
<1> QED
  BY <1>3, <1>4, BecomesKeeps DEF ExportInv, ExportTyped

LEMMA RenderedKeeps ==
    ASSUME ExportInv, NEW j \in Jobs, E!Rendered(j)
    PROVE  ExportInv'
<1> DEFINE r == jobs[j]
           m == [r EXCEPT !.at = "rendered", !.file = TRUE]
<1>1. r \in Rows /\ JobInv(r) /\ (r.at # "none" => clean.made # 0) /\ r.at = "rendering"
  BY DEF ExportInv, ExportTyped, E!Rendered
<1>2. CASE r.cancel
  <2>1. E!Set(j, "cancelled", "gone") /\ Step(r, "cancelled", "gone")
    BY <1>1, <1>2 DEF E!Rendered, Step, ReadsVideo
  <2> QED
    BY <2>1, SetDoes, StepFits, BecomesKeeps DEF ExportInv, ExportTyped, E!Rendered
<1>3. CASE ~r.cancel
  <2>1. /\ m \in Rows /\ m.at = "rendered" /\ m.file
        /\ m.cancel = r.cancel /\ m.tries = r.tries /\ m.status = r.status /\ m.answer = r.answer
    BY <1>1 DEF Rows
  <2>2. Becomes(j, m) /\ UNCHANGED <<clean, exportCrashes>>
    BY <1>3 DEF E!Rendered, Becomes, ExportInv, ExportTyped
  <2> HIDE DEF r, m
  <2>3. Fits(j, m)
    BY <1>1, <1>3, <2>1 DEF Fits, ReadsVideo, JobInv, r
  <2> QED
    BY <2>2, <2>3, BecomesKeeps DEF ExportInv, ExportTyped
<1> QED
  BY <1>2, <1>3

\* A delivery restores the video, which is the last that was made.
LEMMA ExportDelivers ==
    ASSUME ExportInv, NEW j \in Jobs, E!Deliver(j)
    PROVE  ExportInv'
<1> DEFINE r == jobs[j]
           m == [r EXCEPT !.at = "loaded", !.tries = r.tries + 1]
           c == IF clean.here = 0 THEN [clean EXCEPT !.here = clean.stored, !.stamp = clean.stored] ELSE clean
<1>1. r \in Rows /\ JobInv(r) /\ clean.made # 0 /\ r.at = "queued" /\ clean \in PreparedVideos /\ VideoInv(clean)
  BY DEF ExportInv, ExportTyped, E!Deliver
<1>2. r.tries + 1 \in 0..MaxTries
  BY <1>1, EditorAssumption DEF Rows, JobInv
<1>3. /\ m \in Rows /\ m.at = "loaded"
      /\ m.cancel = r.cancel /\ m.status = r.status /\ m.answer = r.answer /\ m.file = r.file
  BY <1>1, <1>2 DEF Rows
<1>4. c \in PreparedVideos /\ VideoInv(c) /\ c.here # 0 /\ c.made = clean.made
  <2>1. CASE clean.here = 0
    BY <1>1, <2>1 DEF VideoInv, PreparedVideos
  <2>2. CASE clean.here # 0
    BY <1>1, <2>2
  <2> QED
    BY <2>1, <2>2
<1>5. jobs' = [jobs EXCEPT ![j] = m] /\ clean' = c /\ UNCHANGED exportCrashes
  BY DEF E!Deliver, ExportInv, ExportTyped
<1> HIDE DEF m, c
<1>6. jobs' \in [Jobs -> Rows] /\ jobs'[j] = m /\ \A i \in Jobs \ {j} : jobs'[i] = jobs[i]
  BY <1>3, <1>5 DEF ExportInv, ExportTyped
<1>7. JobInv(m)
  BY <1>1, <1>3 DEF JobInv
<1> QED
  <2>1. ExportTyped'
    BY <1>4, <1>5, <1>6 DEF ExportInv, ExportTyped
  <2>2. \A i \in Jobs : JobInv(jobs'[i]) /\ clean'.made # 0 /\ clean'.here # 0
    BY <1>1, <1>4, <1>5, <1>6, <1>7 DEF ExportInv
  <2> QED
    BY <1>4, <1>5, <2>1, <2>2 DEF ExportInv

\* The copy of the video in S3, and the cache.
LEMMA VideoSteps ==
    ASSUME ExportInv, E!Prepared \/ E!SyncStart \/ E!SyncEnds \/ E!SyncFails \/ E!SweepCache
    PROVE  ExportInv'
<1>1. UNCHANGED <<jobs, exportCrashes>> /\ clean \in PreparedVideos /\ VideoInv(clean)
  BY DEF E!Prepared, E!SyncStart, E!SyncEnds, E!SyncFails, E!SweepCache, ExportInv, ExportTyped
<1>2. clean' \in PreparedVideos /\ VideoInv(clean') /\ (clean.made # 0 => clean'.made # 0) /\ (clean.here # 0 => clean'.here # 0 \/ E!SweepCache)
  <2>1. CASE E!Prepared
    <3> DEFINE c == [clean EXCEPT !.made = clean.made + 1, !.here = clean.made + 1]
    <3>1. clean.made + 1 \in 0..MaxVersions /\ clean' = c
      BY <1>1, <2>1, EditorAssumption DEF E!Prepared, PreparedVideos
    <3>2. /\ c \in PreparedVideos /\ c.made = clean.made + 1 /\ c.here = clean.made + 1
          /\ c.stamp = clean.stamp /\ c.copying = clean.copying /\ c.stored = clean.stored
      BY <1>1, <3>1 DEF PreparedVideos
    <3> HIDE DEF c
    <3>3. clean.made \in Nat /\ clean.stamp \in Nat /\ clean.copying \in Nat /\ clean.stored \in Nat
      BY <1>1 DEF PreparedVideos
    <3> QED
      BY <1>1, <3>1, <3>2, <3>3 DEF VideoInv
  <2>2. CASE E!SyncStart
    BY <1>1, <2>2 DEF E!SyncStart, VideoInv, PreparedVideos
  <2>3. CASE E!SyncEnds
    <3>1. PICK content \in {clean.copying, clean.here} :
            clean' = [clean EXCEPT !.stored = content, !.stamp = clean.copying, !.copying = 0]
      BY <2>3 DEF E!SyncEnds, E!Copied
    <3> DEFINE c == [clean EXCEPT !.stored = content, !.stamp = clean.copying, !.copying = 0]
    <3>2. content \in 0..MaxVersions /\ content <= clean.made
      BY <1>1, <3>1 DEF VideoInv, PreparedVideos
    <3>3. /\ c \in PreparedVideos /\ c.made = clean.made /\ c.here = clean.here
          /\ c.stamp = clean.copying /\ c.copying = 0 /\ c.stored = content
      <4>1. clean \in PreparedVideos /\ content \in 0..MaxVersions /\ 0 \in 0..MaxVersions
        BY <1>1, <3>2, EditorAssumption
      <4> QED
        BY <4>1 DEF PreparedVideos
    <3>4. clean' = c /\ clean.copying # 0
      BY <2>3, <3>1 DEF E!SyncEnds
    <3> HIDE DEF c
    <3>5. clean.made \in Nat
      BY <1>1 DEF PreparedVideos
    <3> QED
      BY <1>1, <3>1, <3>2, <3>3, <3>4, <3>5 DEF VideoInv
  <2>4. CASE E!SyncFails
    BY <1>1, <2>4, EditorAssumption DEF E!SyncFails, VideoInv, PreparedVideos
  <2>5. CASE E!SweepCache
    BY <1>1, <2>5, EditorAssumption DEF E!SweepCache, VideoInv, PreparedVideos
  <2> QED
    BY <2>1, <2>2, <2>3, <2>4, <2>5
<1>3. E!SweepCache => \A j \in Jobs : ~ReadsVideo(jobs[j])
  BY DEF E!SweepCache, E!Holding, ReadsVideo
<1> QED
  BY <1>1, <1>2, <1>3 DEF ExportInv, ExportTyped

LEMMA ExportNextKeeps ==
    ASSUME ExportInv, E!Next
    PROVE  ExportInv'
BY SetSteps, CancelKeeps, RenderedKeeps, ExportDelivers, VideoSteps DEF E!Next

LEMMA ExportInitHolds == Init => ExportInv
<1> SUFFICES ASSUME NEW phase \in {"none", "failed"}, NEW versions \in 0..MaxVersions, E!StartIn(phase, versions)
             PROVE  ExportInv
  BY EditorAssumption DEF Init, E!Init, E!Gone
<1>1. \A j \in Jobs : /\ jobs[j] \in Rows /\ jobs[j].at = "none" /\ jobs[j].status = phase /\ ~jobs[j].file
                      /\ jobs[j].answer = "none" /\ jobs[j].tries = 0
  BY EditorAssumption DEF E!StartIn, Rows
<1>2. clean \in PreparedVideos /\ VideoInv(clean)
  BY EditorAssumption DEF E!StartIn, PreparedVideos, VideoInv
<1>3. jobs \in [Jobs -> Rows]
  BY <1>1 DEF E!StartIn
<1>4. exportCrashes \in 0..MaxCrashes
  BY ClipsAssumption DEF E!StartIn
<1> QED
  BY <1>1, <1>2, <1>3, <1>4, EditorAssumption DEF ExportInv, ExportTyped, JobInv, ReadsVideo

LEMMA ExportsKeep == ExportInv => E!ExportsKeepTheirWord /\ E!TypeOK
BY DEF ExportInv, ExportTyped, JobInv, ReadsVideo, VideoInv, PreparedVideos, Rows, E!ExportsKeepTheirWord, E!Holding, E!TypeOK

-----------------------------------------------------------------------------
(* Requests: only the one that holds the lock is counting, and what it has   *)
(* counted can since have become less, never more.                           *)

Charged == {r \in Requests : ledger[r] = "charged"}
RequestTyped ==
    /\ ask \in [Requests -> {"none", "counting", "429", "reserved", "stored", "202", "refunding", "clearing", "503", "lost"}]
    /\ seen \in [Requests -> 0..Limit] /\ ledger \in [Requests -> {"none", "charged", "refunded"}]
    /\ request \subseteq Requests
    /\ queue \in [Requests -> {"none", "queued", "running", "failing", "refunded", "done", "killed"}]
    /\ result \in [Requests -> {"none", "running", "completed", "failed"}]
    /\ userLock \in Requests \cup {A!Free} /\ faults \in 0..MaxFaults
CountInv ==
    /\ Cardinality(Charged) <= Limit
    /\ \A r \in Requests : ask[r] = "counting" => userLock = r /\ Cardinality(Charged) <= seen[r]

\* A request that is not charged yet, or was refused, is known to nobody else.
Untouched(r) == ledger[r] = "none" /\ queue[r] = "none" /\ result[r] = "none" /\ r \notin request
AskedInv == \A r \in Requests : ask[r] \in {"none", "counting", "429"} => Untouched(r)

\* Without a fault the ledger, the queue and the result tell the same story.
Told(r) ==
    /\ ask[r] \in {"none", "counting", "429", "reserved", "stored", "202"}
    /\ ask[r] \in {"reserved", "stored"} => ledger[r] = "charged" /\ queue[r] = "none" /\ result[r] = "none"
    /\ ask[r] = "202" =>
        \/ queue[r] = "queued" /\ ledger[r] = "charged" /\ result[r] = "none"
        \/ queue[r] \in {"running", "failing"} /\ ledger[r] = "charged" /\ result[r] \in {"none", "running"}
        \/ queue[r] = "refunded" /\ ledger[r] = "refunded" /\ result[r] \in {"none", "running"}
        \/ queue[r] = "done" /\ result[r] = "completed" /\ ledger[r] = "charged"
        \/ queue[r] = "done" /\ result[r] = "failed" /\ ledger[r] = "refunded"
ToldInv == faults = 0 => \A r \in Requests : Told(r)
RequestInv == RequestTyped /\ CountInv /\ AskedInv /\ ToldInv

LEMMA UsedIs == A!Used = Cardinality(Charged)
BY DEF A!Used, Charged, A!Cardinality, Cardinality

LEMMA ChargedIsFinite ==
    /\ IsFiniteSet(Charged) /\ Cardinality(Charged) \in Nat
    /\ IsFiniteSet(Charged') /\ Cardinality(Charged') \in Nat
BY EditorAssumption, FS_Subset, FS_CardinalityType DEF Charged

\* Charges that are given back, or left, are not more.
LEMMA NoMoreCharged ==
    ASSUME Charged' \subseteq Charged
    PROVE  Cardinality(Charged') <= Cardinality(Charged)
BY ChargedIsFinite, FS_Subset

\* What a step of request r leaves to the others.
OthersStay(r) ==
    \A q \in Requests \ {r} :
        /\ ask'[q] = ask[q] /\ seen'[q] = seen[q] /\ ledger'[q] = ledger[q] /\ queue'[q] = queue[q]
        /\ result'[q] = result[q] /\ (q \in request' <=> q \in request)

\* A step that charges nothing and takes no lock.
LEMMA RequestKeeps ==
    ASSUME RequestInv, RequestTyped', NEW r \in Requests, OthersStay(r), UNCHANGED <<userLock, seen>>,
           ledger'[r] = "charged" => ledger[r] = "charged",
           ask'[r] \in {"none", "counting", "429"} => ask'[r] = ask[r] /\ Untouched(r)',
           faults' = 0 => faults = 0 /\ Told(r)'
    PROVE  RequestInv'
<1>1. Charged' \subseteq Charged
  BY DEF Charged, OthersStay
<1>2. Cardinality(Charged') <= Cardinality(Charged)
  BY <1>1, NoMoreCharged
<1>3. CountInv'
  <2>1. \A q \in Requests : ask'[q] = "counting" => ask[q] = "counting"
    BY DEF OthersStay
  <2>2. \A q \in Requests : seen[q] \in Nat
    BY EditorAssumption DEF RequestInv, RequestTyped
  <2> QED
    BY <1>2, <2>1, <2>2, ChargedIsFinite, EditorAssumption DEF RequestInv, CountInv
<1>4. AskedInv'
  BY DEF RequestInv, AskedInv, Untouched, OthersStay
<1>5. ToldInv'
  BY DEF RequestInv, ToldInv, Told, OthersStay
<1> QED
  BY <1>3, <1>4, <1>5 DEF RequestInv

LEMMA CountKeeps ==
    ASSUME RequestInv, NEW r \in Requests, A!Count(r)
    PROVE  RequestInv'
<1>1. A!Used \in 0..Limit
  BY UsedIs, ChargedIsFinite, EditorAssumption DEF RequestInv, CountInv
<1>2. UNCHANGED <<ledger, request, queue, result, faults>> /\ ask[r] = "none" /\ userLock = A!Free /\ userLock' = r
  BY DEF A!Count
<1>3. /\ ask'[r] = "counting" /\ seen'[r] = A!Used
      /\ \A q \in Requests \ {r} : ask'[q] = ask[q] /\ seen'[q] = seen[q]
  BY DEF A!Count, A!To, RequestInv, RequestTyped
<1>4. RequestTyped'
  BY <1>1 DEF A!Count, A!To, RequestInv, RequestTyped
<1>5. \A q \in Requests \ {r} : ask'[q] # "counting"
  BY <1>2, <1>3, EditorAssumption DEF RequestInv, CountInv, A!Free
<1>6. Charged' = Charged
  BY <1>2 DEF Charged
<1>7. CountInv'
  BY <1>2, <1>3, <1>5, <1>6, UsedIs, ChargedIsFinite DEF RequestInv, CountInv
<1>8. AskedInv' /\ ToldInv'
  BY <1>2, <1>3 DEF RequestInv, AskedInv, Untouched, ToldInv, Told
<1> QED
  BY <1>4, <1>7, <1>8 DEF RequestInv

\* The charge is made by the holder of the lock, who counted under it.
LEMMA ReserveKeeps ==
    ASSUME RequestInv, NEW r \in Requests, A!Reserve(r)
    PROVE  RequestInv'
<1>1. /\ ask[r] = "counting" /\ userLock = r /\ Cardinality(Charged) <= seen[r] /\ seen[r] \in Nat
      /\ Untouched(r)
  BY EditorAssumption DEF A!Reserve, RequestInv, CountInv, RequestTyped, AskedInv
<1>2. UNCHANGED <<seen, request, queue, result, faults>> /\ userLock' = A!Free
  BY DEF A!Reserve
<1>3. /\ OthersStay(r) /\ ask'[r] \in {"reserved", "429"}
      /\ ask'[r] = "reserved" => ledger'[r] = "charged" /\ seen[r] < Limit
      /\ ask'[r] = "429" => ledger' = ledger
  BY <1>2 DEF A!Reserve, A!To, RequestInv, RequestTyped, OthersStay
<1>4. RequestTyped'
  BY <1>2 DEF A!Reserve, A!To, RequestInv, RequestTyped
<1>5. \A q \in Requests : ask'[q] # "counting"
  BY <1>1, <1>3 DEF OthersStay, RequestInv, CountInv
<1>6. Cardinality(Charged') <= Limit
  <2>1. CASE ask'[r] = "429"
    BY <1>3, <2>1 DEF Charged, RequestInv, CountInv
  <2>2. CASE ask'[r] = "reserved"
    <3>1. Charged' \subseteq Charged \cup {r}
      BY <1>3 DEF Charged, OthersStay
    <3>2. IsFiniteSet(Charged \cup {r}) /\ Cardinality(Charged \cup {r}) <= Cardinality(Charged) + 1
      <4>1. IsFiniteSet(Charged) /\ Cardinality(Charged) \in Nat
        BY ChargedIsFinite
      <4>2. /\ IsFiniteSet(Charged \cup {r})
            /\ Cardinality(Charged \cup {r}) = IF r \in Charged THEN Cardinality(Charged) ELSE Cardinality(Charged) + 1
        BY <4>1, FS_AddElement, Zenon
      <4> QED
        BY <4>1, <4>2
    <3>3. Cardinality(Charged') <= Cardinality(Charged \cup {r})
      BY <3>1, <3>2, FS_Subset
    <3>4. Cardinality(Charged \cup {r}) \in Nat
      BY <3>2, FS_CardinalityType
    <3> QED
      BY <1>1, <1>3, <2>2, <3>2, <3>3, <3>4, ChargedIsFinite, EditorAssumption
  <2> QED
    BY <1>3, <2>1, <2>2
<1>7. AskedInv'
  BY <1>1, <1>2, <1>3 DEF RequestInv, AskedInv, Untouched, OthersStay
<1>8. ToldInv'
  BY <1>1, <1>2, <1>3 DEF RequestInv, ToldInv, Told, Untouched, OthersStay
<1> QED
  BY <1>4, <1>5, <1>6, <1>7, <1>8 DEF RequestInv, CountInv

LEMMA RequestFaultIs ==
    ASSUME RequestTyped, A!Fault
    PROVE  faults' \in 0..MaxFaults /\ faults' # 0
BY EditorAssumption DEF RequestTyped, A!Fault

\* The API's side of a request, after its reservation.
LEMMA ApiSteps ==
    ASSUME RequestInv, NEW r \in Requests,
           A!Store(r) \/ A!Enqueue(r) \/ A!EnqueueFails(r) \/ A!ApiDies(r)
    PROVE  RequestInv'
<1>1. UNCHANGED <<userLock, seen, ledger, result>>
  BY DEF A!Store, A!Enqueue, A!EnqueueFails, A!ApiDies
<1>2. RequestTyped'
  BY RequestFaultIs DEF A!Store, A!Enqueue, A!EnqueueFails, A!ApiDies, A!To, RequestInv, RequestTyped
<1>3. OthersStay(r)
  BY DEF A!Store, A!Enqueue, A!EnqueueFails, A!ApiDies, A!To, RequestInv, RequestTyped, OthersStay
<1>4. ask'[r] \in {"stored", "202", "refunding", "lost"}
  BY DEF A!Store, A!Enqueue, A!EnqueueFails, A!ApiDies, A!To, RequestInv, RequestTyped
<1>5. faults' = 0 => faults = 0 /\ Told(r)'
  <2>1. CASE A!Store(r)
    BY <1>1, <2>1 DEF A!Store, A!To, RequestInv, RequestTyped, ToldInv, Told
  <2>2. CASE A!Enqueue(r)
    BY <1>1, <2>2 DEF A!Enqueue, A!To, RequestInv, RequestTyped, ToldInv, Told
  <2>3. CASE A!EnqueueFails(r) \/ A!ApiDies(r)
    BY <2>3, RequestFaultIs DEF A!EnqueueFails, A!ApiDies, RequestInv
  <2> QED
    BY <2>1, <2>2, <2>3
<1> QED
  BY <1>1, <1>2, <1>3, <1>4, <1>5, RequestKeeps

LEMMA RefundedIs ==
    ASSUME RequestTyped, NEW r \in Requests
    PROVE  /\ A!Refunded(r) \in [Requests -> {"none", "charged", "refunded"}]
           /\ A!Refunded(r)[r] = (IF ledger[r] = "charged" THEN "refunded" ELSE ledger[r])
           /\ \A q \in Requests \ {r} : A!Refunded(r)[q] = ledger[q]
BY DEF RequestTyped, A!Refunded, A!To

\* What the API takes back.
LEMMA BackSteps ==
    ASSUME RequestInv, NEW r \in Requests, A!GiveBack(r) \/ A!ClearKeys(r)
    PROVE  RequestInv'
<1>1. UNCHANGED <<userLock, seen, queue, result>> /\ ask[r] \in {"refunding", "clearing"}
  BY DEF A!GiveBack, A!ClearKeys
<1>2. RequestTyped' /\ OthersStay(r) /\ ask'[r] \in {"clearing", "503"} /\ (ledger'[r] = "charged" => ledger[r] = "charged")
  <2>1. CASE A!GiveBack(r)
    <3>1. ledger' \in {ledger, A!Refunded(r)} /\ faults' \in 0..MaxFaults
      BY <2>1, RequestFaultIs DEF A!GiveBack, A!May, RequestInv, RequestTyped
    <3>2. /\ ledger' \in [Requests -> {"none", "charged", "refunded"}] /\ (ledger'[r] = "charged" => ledger[r] = "charged")
          /\ \A q \in Requests \ {r} : ledger'[q] = ledger[q]
      BY <3>1, RefundedIs DEF RequestInv, RequestTyped
    <3> QED
      BY <1>1, <2>1, <3>1, <3>2 DEF A!GiveBack, A!To, RequestInv, RequestTyped, OthersStay
  <2>2. CASE A!ClearKeys(r)
    <3>1. request' \in {request, request \ {r}} /\ faults' \in 0..MaxFaults
      BY <2>2, RequestFaultIs DEF A!ClearKeys, A!May, RequestInv, RequestTyped
    <3> QED
      BY <1>1, <2>2, <3>1 DEF A!ClearKeys, A!To, RequestInv, RequestTyped, OthersStay
  <2> QED
    BY <2>1, <2>2
<1>3. faults' # 0
  <2>1. faults # 0
    BY <1>1 DEF RequestInv, ToldInv, Told
  <2>2. UNCHANGED faults \/ A!Fault
    BY DEF A!GiveBack, A!ClearKeys, A!May
  <2> QED
    BY <2>1, <2>2, RequestFaultIs DEF RequestInv
<1> QED
  BY <1>1, <1>2, <1>3, RequestKeeps

\* The worker's side, and the end of a key.
LEMMA WorkerSteps ==
    ASSUME RequestInv, NEW r \in Requests,
           \/ A!Expire(r) \/ A!Take(r) \/ A!Complete(r) \/ A!Fail(r) \/ A!PublishFailure(r) \/ A!WorkerDies(r)
    PROVE  RequestInv'
<1>1. UNCHANGED <<userLock, seen, ledger, ask>>
  BY DEF A!Expire, A!Take, A!Complete, A!Fail, A!PublishFailure, A!WorkerDies
<1>2. RequestTyped' /\ OthersStay(r)
  <2>1. CASE A!Expire(r)
    BY <2>1 DEF A!Expire, RequestInv, RequestTyped, OthersStay
  <2>2. CASE A!Take(r)
    BY <2>2 DEF A!Take, A!To, RequestInv, RequestTyped, OthersStay
  <2>3. CASE A!Complete(r)
    BY <2>3, RequestFaultIs DEF A!Complete, A!To, RequestInv, RequestTyped, OthersStay
  <2>4. CASE A!Fail(r)
    BY <2>4 DEF A!Fail, A!To, RequestInv, RequestTyped, OthersStay
  <2>5. CASE A!PublishFailure(r)
    BY <2>5, RequestFaultIs DEF A!PublishFailure, A!May, A!To, RequestInv, RequestTyped, OthersStay
  <2>6. CASE A!WorkerDies(r)
    BY <2>6, RequestFaultIs DEF A!WorkerDies, A!To, RequestInv, RequestTyped, OthersStay
  <2> QED
    BY <2>1, <2>2, <2>3, <2>4, <2>5, <2>6
<1>3. ask[r] \in {"none", "counting", "429"} => Untouched(r)'
  BY <1>1 DEF A!Expire, A!Take, A!Complete, A!Fail, A!PublishFailure, A!WorkerDies, RequestInv, AskedInv, Untouched
<1>4. faults' = 0 => faults = 0 /\ Told(r)'
  <2> SUFFICES ASSUME faults' = 0 PROVE faults = 0 /\ Told(r)'
    OBVIOUS
  <2>1. ~A!Fault
    BY RequestFaultIs DEF RequestInv
  <2>2. faults = 0 /\ Told(r)
    BY <2>1 DEF A!Expire, A!Take, A!Complete, A!Fail, A!PublishFailure, A!May, A!WorkerDies, RequestInv, ToldInv
  <2>3. Told(r)'
    BY <1>1, <1>3, <2>1, <2>2 DEF A!Expire, A!Take, A!Complete, A!Fail, A!PublishFailure, A!May, A!WorkerDies, A!To,
       RequestInv, RequestTyped, Told, AskedInv, Untouched
  <2> QED
    BY <2>2, <2>3
<1> QED
  BY <1>1, <1>2, <1>3, <1>4, RequestKeeps

LEMMA RefundKeeps ==
    ASSUME RequestInv, NEW r \in Requests, A!Refund(r)
    PROVE  RequestInv'
<1>1. UNCHANGED <<userLock, seen, ask, request, result>> /\ queue[r] = "failing" /\ ledger' \in {ledger, A!Refunded(r)}
  BY DEF A!Refund, A!May
<1>2. faults' \in 0..MaxFaults /\ (faults' = 0 => faults = 0 /\ ledger' = A!Refunded(r))
  BY RequestFaultIs DEF A!Refund, A!May, RequestInv, RequestTyped
<1>3. /\ ledger' \in [Requests -> {"none", "charged", "refunded"}] /\ (ledger'[r] = "charged" => ledger[r] = "charged")
      /\ \A q \in Requests \ {r} : ledger'[q] = ledger[q]
  BY <1>1, RefundedIs DEF RequestInv, RequestTyped
<1>4. /\ queue' \in [Requests -> {"none", "queued", "running", "failing", "refunded", "done", "killed"}]
      /\ queue'[r] = "refunded" /\ \A q \in Requests \ {r} : queue'[q] = queue[q]
  BY DEF A!Refund, A!To, RequestInv, RequestTyped
<1>5. RequestTyped' /\ OthersStay(r)
  BY <1>1, <1>2, <1>3, <1>4 DEF RequestInv, RequestTyped, OthersStay
<1>6. ask[r] \notin {"none", "counting", "429"}
  BY <1>1 DEF RequestInv, AskedInv, Untouched
<1>7. faults' = 0 => faults = 0 /\ Told(r)'
  <2>1. faults' = 0 => Told(r) /\ ledger'[r] = (IF ledger[r] = "charged" THEN "refunded" ELSE ledger[r])
    BY <1>2, RefundedIs DEF RequestInv, ToldInv
  <2> QED
    BY <1>1, <1>2, <1>4, <1>6, <2>1 DEF Told
<1> QED
  BY <1>1, <1>3, <1>5, <1>6, <1>7, RequestKeeps

LEMMA RequestNextKeeps ==
    ASSUME RequestInv, A!Next
    PROVE  RequestInv'
BY CountKeeps, ReserveKeeps, ApiSteps, BackSteps, WorkerSteps, RefundKeeps DEF A!Next

LEMMA RequestInitHolds == Init => RequestInv
<1> SUFFICES ASSUME NEW answer \in {"none", "429"}, ask = [r \in Requests |-> answer], seen = [r \in Requests |-> 0],
                    ledger = [r \in Requests |-> "none"], request = {}, queue = [r \in Requests |-> "none"],
                    result = [r \in Requests |-> "none"], userLock = A!Free, faults = 0
             PROVE  RequestInv
  BY DEF Init, A!Init, A!Gone
<1>1. RequestTyped
  BY EditorAssumption DEF RequestTyped
<1>2. Charged = {}
  BY DEF Charged
<1>3. CountInv
  BY <1>2, FS_EmptySet, EditorAssumption DEF CountInv
<1>4. AskedInv /\ ToldInv
  BY DEF AskedInv, Untouched, ToldInv, Told
<1> QED
  BY <1>1, <1>3, <1>4 DEF RequestInv

LEMMA ChargesKeep == RequestInv => A!ChargesAreRight /\ A!TypeOK
<1> SUFFICES ASSUME RequestInv PROVE A!ChargesAreRight /\ A!TypeOK
  OBVIOUS
<1>1. \A r \in Requests : ask[r] = "429" => ledger[r] = "none" /\ queue[r] = "none"
  BY DEF RequestInv, AskedInv, Untouched
<1>2. faults = 0 => \A r \in Requests :
        /\ result[r] = "failed" => ledger[r] = "refunded"
        /\ result[r] = "completed" => ledger[r] = "charged"
        /\ ask[r] = "202" => \/ result[r] \in {"completed", "failed"}
                            \/ queue[r] \in {"queued", "running", "failing", "refunded"}
  BY DEF RequestInv, ToldInv, Told, AskedInv, Untouched
<1> QED
  BY <1>1, <1>2, UsedIs DEF RequestInv, RequestTyped, CountInv, A!ChargesAreRight, A!TypeOK

-----------------------------------------------------------------------------
(* The theorems.                                                            *)

EditorInv == DraftInv /\ ExportInv /\ RequestInv

\* The draft and what was read of it, the video and its jobs, and the ledger of the
\* requests stay in order, whichever tab, worker or request takes the next step.
THEOREM EditorInductive == Spec => []EditorInv
<1>1. DraftInv /\ UNCHANGED drafts => DraftInv'
  BY DEF DraftInv, DraftTyped, drafts
<1>2. ExportInv /\ UNCHANGED editorExports => ExportInv'
  BY DEF ExportInv, ExportTyped, editorExports
<1>3. RequestInv /\ UNCHANGED aiEdits => RequestInv'
  BY DEF RequestInv, RequestTyped, CountInv, Charged, AskedInv, Untouched, ToldInv, Told, aiEdits
<1>4. EditorInv /\ [Next]_<<part, drafts, editorExports, aiEdits, replicas,
                            generation, accounts, sourceCache, download, workspace, stream>> => EditorInv'
  BY <1>1, <1>2, <1>3, DraftNextKeeps, ExportNextKeeps, RequestNextKeeps DEF Next, EditorInv
<1> QED
  BY <1>4, DraftInitHolds, ExportInitHolds, RequestInitHolds, PTL DEF Spec, EditorInv

\* The copy of a draft is the one the manifest names, an export that was cancelled does
\* not complete and a video in use is not evicted, and no more requests are charged than
\* the month allows, however tabs, workers, sweeps and requests interleave.
THEOREM EditorHoldsCorrect == Spec => []EditorHolds
<1>1. DraftInv => D!SnapshotsAreTrue
  BY DEF DraftInv, D!SnapshotsAreTrue
<1>2. EditorInv => EditorHolds
  BY <1>1, ExportsKeep, ChargesKeep DEF EditorInv, EditorHolds
<1> QED
  BY <1>2, EditorInductive, PTL

\* No save is lost: a draft is only ever replaced by one made from it.
THEOREM SavesAreKeptCorrect == Spec => D!SavesAreKept
<1>1. DraftInv /\ [Next]_<<part, drafts, editorExports, aiEdits, replicas,
                           generation, accounts, sourceCache, download, workspace, stream>>
      => [draft # D!None => draft' # D!None /\ D!IsPrefix(draft, draft')]_(D!dvars)
  BY DraftNextKeeps, GrowsDoes DEF Next, DraftInv, drafts, D!dvars
<1>2. EditorInv => DraftInv
  BY DEF EditorInv
<1> QED
  BY <1>1, <1>2, EditorInductive, PTL DEF Spec, D!SavesAreKept

LEMMA WorkTyped == RunsInv /\ EditorInv => G!TypeOK /\ D!TypeOK /\ E!TypeOK /\ A!TypeOK
<1> SUFFICES ASSUME RunsInv, EditorInv PROVE G!TypeOK /\ D!TypeOK /\ E!TypeOK /\ A!TypeOK
  OBVIOUS
<1>1. G!TypeOK
  <2>1. RunTyped
    BY DEF RunsInv
  <2>2. resume \in Requested /\ resume.at # "edited" /\ settings \in Requested /\ settings.at # "queued"
    BY <2>1 DEF RunTyped
  <2>3. resume.at \in {"none", "read", "queued"} /\ settings.at \in {"none", "read", "edited"}
    BY <2>2 DEF Requested
  <2>4. checkpoint.key \in Keys /\ cache.text \in Numbers /\ sidecar \in Numbers /\ runKey \in Keys
    BY <2>1 DEF RunTyped, RunCheckpoints
  <2> QED
    BY <2>1, <2>3, <2>4 DEF RunTyped, Numbers, G!TypeOK
<1>2. D!TypeOK
  BY DEF EditorInv, DraftInv, DraftTyped, D!TypeOK
<1>3. E!TypeOK
  <2>1. ASSUME NEW j \in Jobs
        PROVE  /\ jobs[j].status \in {"none", "queued", "rendering", "completed", "failed", "cancelled"}
               /\ jobs[j].tries \in 0..MaxTries
    <3>1. jobs[j] \in Rows
      BY DEF EditorInv, ExportInv, ExportTyped
    <3> QED
      BY <3>1 DEF Rows
  <2> QED
    BY <2>1 DEF EditorInv, ExportInv, ExportTyped, VideoInv, E!TypeOK
<1>4. A!TypeOK
  BY DEF EditorInv, RequestInv, RequestTyped, A!TypeOK
<1> QED
  BY <1>1, <1>2, <1>3, <1>4

-----------------------------------------------------------------------------
(* The two stores behind a media object.                                    *)

Inside == {"upload", "save", "apply", "complete", "record", "delete", "sync", "mirror"}

\* What a thread knows at its step.
Guarded(p) ==
    /\ pc[p] \in Inside => lock = p
    /\ pc[p] \in {"upload", "complete", "delete", "sync", "mirror"} => call[p].op = pc[p]
    /\ pc[p] = "locking" => call[p].op \in {"upload", "delete", "complete", "mirror", "sync"}
    /\ pc[p] # "apply" => ~call[p].stored
    /\ call[p].op = "upload" => ~browser
    /\ call[p].op = "delete" /\ browser => session.state = "done"
    /\ call[p].op = "complete" => browser
Saving(p) ==
    /\ pc[p] \in {"upload", "save"} /\ call[p].op = "upload" => call[p].rev = written /\ written # 0
    /\ pc[p] = "save" =>
         /\ call[p].rev \in payloads /\ call[p].rev # 0
         /\ call[p].op \in {"upload", "sync", "mirror"}
         /\ call[p].op = "sync" => manifest.op = "copy" /\ call[p].rev = manifest.rev
         /\ call[p].op = "mirror" => manifest.op = "none" /\ unmirrored /\ stores[Primary] = call[p].rev
Applying(p) ==
    /\ pc[p] = "apply" =>
         /\ manifest.op \in {"upload", "delete"} /\ call[p].todo \subseteq manifest.pending
         /\ call[p].op = "upload" => manifest.op = "upload"
         /\ call[p].stored => manifest.pending # R!Stores
    /\ pc[p] = "record" => unmirrored /\ session.state = "done" /\ stores[session.at] = 1
ThreadInv(p) == Guarded(p) /\ Saving(p) /\ Applying(p)

\* Before a browser upload is assembled there is nothing of it.
BrowserInv ==
    /\ session.state # "none" => browser
    /\ browser /\ session.state # "done" =>
         /\ written = 0 /\ manifest.op = "none" /\ ~unmirrored
         /\ latest.rev = 0 /\ ~latest.told /\ \A s \in R!Stores : stores[s] = 0
    /\ browser => written \in {0, 1}

\* What the stores hold, by what the manifest says.
UploadInv ==
    manifest.op = "upload" =>
        /\ manifest.rev = latest.rev /\ latest.rev # 0 /\ manifest.rev \in payloads
        /\ manifest.rev <= written
        /\ \A s \in R!Stores \ manifest.pending : stores[s] = manifest.rev
        /\ \A s \in R!Stores : stores[s] <= manifest.rev
        /\ latest.told \/ browser => manifest.pending # R!Stores
DeleteInv ==
    manifest.op = "delete" =>
        /\ manifest.rev = 0 /\ latest.rev = 0 /\ ~latest.told
        /\ \A s \in R!Stores \ manifest.pending : stores[s] = 0
CopyInv ==
    manifest.op = "copy" =>
        /\ manifest.rev = 1 /\ latest.rev = 1 /\ stores[manifest.source] = 1
        /\ manifest.pending = R!Stores \ {manifest.source}
        /\ \A s \in R!Stores : stores[s] \in {0, 1}
AloneInv ==
    /\ manifest.op = "none" => manifest.pending = {}
    /\ manifest.op # "none" => ~unmirrored
    /\ manifest.op = "none" /\ ~unmirrored => \A s \in R!Stores : stores[s] = latest.rev
    /\ unmirrored => /\ latest.rev = 1
                     /\ \E s \in R!Stores : stores[s] = 1 /\ \A t \in R!Stores \ {s} : stores[t] = 0
WrittenInv == \A s \in R!Stores : stores[s] <= written
OutboxInv == BrowserInv /\ UploadInv /\ DeleteInv /\ CopyInv /\ AloneInv /\ WrittenInv

ReplicasInv == R!TypeOK /\ (\A p \in R!Procs : ThreadInv(p)) /\ OutboxInv

-----------------------------------------------------------------------------
(* Threads.                                                                 *)

LEMMA Constants ==
    /\ MaxRevisions \in Nat /\ 0 \in 0..MaxRevisions /\ 1 \in 0..MaxRevisions /\ 1 \in 1..MaxRevisions
    /\ Nobody \notin R!Procs /\ Primary # Fallback /\ Primary \in R!Stores /\ Fallback \in R!Stores
BY ClipsAssumption DEF R!Procs, R!Stores

\* The variables that threads share.
Shared == <<browser, session, stores, manifest, payloads, written, latest, unmirrored>>

LEMMA SharedKeeps ==
    ASSUME OutboxInv, UNCHANGED Shared
    PROVE  OutboxInv'
BY DEF OutboxInv, BrowserInv, UploadInv, DeleteInv, CopyInv, AloneInv, WrittenInv, Shared

\* A thread without the lock knows nothing that others could change.
LEMMA OutsideKeeps ==
    ASSUME NEW q \in R!Procs, ThreadInv(q), pc[q] \notin Inside,
           pc'[q] = pc[q], call'[q] = call[q], browser' = browser,
           session.state = "done" => session'.state = "done"
    PROVE  ThreadInv(q)'
BY DEF ThreadInv, Guarded, Saving, Applying, Inside

\* Nor does it write: when one thread has the lock, all others are outside.
LEMMA OthersOutside ==
    ASSUME ReplicasInv, NEW p \in R!Procs, NEW q \in R!Procs, q # p,
           pc[p] \in Inside \/ lock = Nobody
    PROVE  pc[q] \notin Inside
BY Constants DEF ReplicasInv, ThreadInv, Guarded

\* A step of one thread while the others are outside.
Moves(p, step, c) ==
    /\ step \in R!Steps /\ c \in R!Calls
    /\ pc' = [pc EXCEPT ![p] = step] /\ call' = [call EXCEPT ![p] = c]

LEMMA MovesTyped ==
    ASSUME ReplicasInv, NEW p \in R!Procs, NEW step, NEW c, Moves(p, step, c)
    PROVE  /\ pc' \in [R!Procs -> R!Steps] /\ call' \in [R!Procs -> R!Calls]
           /\ pc'[p] = step /\ call'[p] = c
           /\ \A q \in R!Procs \ {p} : pc'[q] = pc[q] /\ call'[q] = call[q]
BY DEF ReplicasInv, R!TypeOK, Moves

LEMMA MovesKeep ==
    ASSUME ReplicasInv, NEW p \in R!Procs, NEW step, NEW c, Moves(p, step, c), browser' = browser,
           session.state = "done" => session'.state = "done", pc[p] \in Inside \/ lock = Nobody, ThreadInv(p)'
    PROVE  \A q \in R!Procs : ThreadInv(q)'
BY MovesTyped, OthersOutside, OutsideKeeps DEF ReplicasInv

\* A step of a thread that leaves alone what the threads share.
LEMMA ThreadKeeps ==
    ASSUME ReplicasInv, NEW p \in R!Procs, NEW step, NEW c, Moves(p, step, c), UNCHANGED Shared,
           \A q \in R!Procs \ {p} : lock = q => lock' = q, ThreadInv(p)'
    PROVE  (\A q \in R!Procs : ThreadInv(q)') /\ OutboxInv'
<1>1. OutboxInv'
  BY SharedKeeps DEF ReplicasInv
<1>2. ASSUME NEW q \in R!Procs \ {p} PROVE ThreadInv(q)'
  <2>1. pc'[q] = pc[q] /\ call'[q] = call[q]
    BY MovesTyped
  <2> QED
    BY <1>2, <2>1 DEF ReplicasInv, ThreadInv, Guarded, Saving, Applying, Shared
<1> QED
  BY <1>1, <1>2

LEMMA IdleIs == R!Idle \in R!Calls /\ ~R!Idle.stored /\ R!Idle.op = "none"
BY Constants DEF R!Idle, R!Calls

\* A call that ends, by returning or with its process.
LEMMA ReturnDoes ==
    ASSUME ReplicasInv, NEW p \in R!Procs, R!Return(p)
    PROVE  /\ Moves(p, "idle", R!Idle) /\ ThreadInv(p)'
           /\ lock' \in R!Procs \cup {Nobody}
           /\ \A q \in R!Procs \ {p} : lock = q => lock' = q
<1>1. Moves(p, "idle", R!Idle)
  BY IdleIs DEF R!Return, R!Goto, Moves, R!Steps
<1>2. ThreadInv(p)'
  BY <1>1, MovesTyped, IdleIs DEF ThreadInv, Guarded, Saving, Applying, Inside
<1> QED
  BY <1>1, <1>2 DEF R!Return, ReplicasInv, R!TypeOK

LEMMA QuietReturn ==
    ASSUME ReplicasInv, NEW p \in R!Procs, R!Return(p), UNCHANGED Shared, up' = up, crashes' \in 0..MaxCrashes
    PROVE  ReplicasInv'
<1>1. (\A q \in R!Procs : ThreadInv(q)') /\ OutboxInv'
  BY ReturnDoes, ThreadKeeps
<1>2. (R!TypeOK)'
  BY ReturnDoes, MovesTyped DEF ReplicasInv, R!TypeOK, Shared
<1> QED
  BY <1>1, <1>2 DEF ReplicasInv

LEMMA ReturningSteps ==
    ASSUME ReplicasInv, NEW p \in R!Procs, R!SkipLocked(p) \/ R!GiveUp(p) \/ R!Crash(p)
    PROVE  ReplicasInv'
<1>1. R!Return(p) /\ UNCHANGED Shared /\ up' = up
  BY DEF R!SkipLocked, R!GiveUp, R!Crash, R!disk, Shared
<1>2. crashes' \in 0..MaxCrashes
  BY ClipsAssumption DEF R!SkipLocked, R!GiveUp, R!Crash, ReplicasInv, R!TypeOK
<1> QED
  BY <1>1, <1>2, QuietReturn

LEMMA StartKeeps ==
    ASSUME ReplicasInv, NEW p \in R!Procs, NEW kind \in {"upload", "delete", "complete", "mirror", "sync"}, R!Start(p, kind)
    PROVE  ReplicasInv'
<1> DEFINE c == [call[p] EXCEPT !.op = kind]
<1>1. call[p] \in R!Calls /\ ~call[p].stored
  BY DEF ReplicasInv, R!TypeOK, ThreadInv, Guarded, R!Start
<1>2. c \in R!Calls /\ c.op = kind /\ ~c.stored
  BY <1>1 DEF R!Calls
<1>3. call' = [call EXCEPT ![p] = c] /\ pc' = [pc EXCEPT ![p] = "locking"]
  BY DEF R!Start, R!Goto
<1> HIDE DEF c
<1>4. Moves(p, "locking", c) /\ UNCHANGED Shared /\ UNCHANGED <<lock, up, crashes>>
  BY <1>2, <1>3 DEF Moves, R!Steps, Shared, R!Start, R!disk
<1>5. (kind = "upload" => ~browser) /\ (kind = "delete" /\ browser => session.state = "done")
      /\ (kind = "complete" => browser)
  BY DEF R!Start, ReplicasInv, OutboxInv, BrowserInv
<1>6. ThreadInv(p)'
  BY <1>2, <1>4, <1>5, MovesTyped DEF ThreadInv, Guarded, Saving, Applying, Inside, Shared
<1>7. (\A q \in R!Procs : ThreadInv(q)') /\ OutboxInv'
  BY <1>4, <1>6, ThreadKeeps
<1>8. (R!TypeOK)'
  BY <1>4, MovesTyped DEF ReplicasInv, R!TypeOK, Shared
<1> QED
  BY <1>7, <1>8 DEF ReplicasInv

LEMMA AcquireKeeps ==
    ASSUME ReplicasInv, NEW p \in R!Procs, R!Acquire(p)
    PROVE  ReplicasInv'
<1> DEFINE c == [call[p] EXCEPT !.rev = IF call[p].op = "upload" THEN written + 1 ELSE 0]
<1>1. call[p] \in R!Calls /\ ~call[p].stored /\ (call[p].op = "upload" => ~browser) /\ pc[p] = "locking"
      /\ (call[p].op = "delete" /\ browser => session.state = "done") /\ (call[p].op = "complete" => browser)
      /\ lock = Nobody /\ lock' = p
  BY DEF ReplicasInv, R!TypeOK, ThreadInv, Guarded, R!Acquire
<1>2. written \in 0..MaxRevisions /\ (call[p].op = "upload" => written < MaxRevisions)
  BY DEF ReplicasInv, R!TypeOK, R!Acquire
<1>3. c \in R!Calls /\ c.op = call[p].op /\ ~c.stored /\ (c.op = "upload" => c.rev = written + 1)
  BY <1>1, <1>2, Constants DEF R!Calls
<1>4. call' = [call EXCEPT ![p] = c] /\ pc' = [pc EXCEPT ![p] = c.op]
  BY <1>3 DEF R!Acquire, R!Goto
<1>5. written' = IF c.op = "upload" THEN written + 1 ELSE written
  BY <1>3 DEF R!Acquire
<1>6. UNCHANGED <<browser, session, stores, manifest, payloads, latest, unmirrored, up, crashes>>
  BY DEF R!Acquire, R!disk
<1>7. c.op \in {"upload", "delete", "complete", "mirror", "sync"}
  BY <1>1, <1>3 DEF ReplicasInv, ThreadInv, Guarded
<1> HIDE DEF c
<1>8. Moves(p, c.op, c)
  BY <1>3, <1>4, <1>7 DEF Moves, R!Steps
<1>9. ThreadInv(p)'
  BY <1>1, <1>3, <1>5, <1>6, <1>7, <1>8, <1>2, MovesTyped DEF ThreadInv, Guarded, Saving, Applying, Inside
<1>10. \A q \in R!Procs : ThreadInv(q)'
  BY <1>1, <1>6, <1>8, <1>9, MovesKeep
<1>11. OutboxInv'
  <2>1. WrittenInv'
    BY <1>2, <1>5, <1>6 DEF ReplicasInv, OutboxInv, WrittenInv, R!TypeOK
  <2>2. BrowserInv'
    BY <1>1, <1>3, <1>5, <1>6 DEF ReplicasInv, OutboxInv, BrowserInv
  <2>3. UploadInv'
    BY <1>2, <1>5, <1>6 DEF ReplicasInv, OutboxInv, UploadInv, R!TypeOK, R!Manifests
  <2> QED
    BY <1>6, <2>1, <2>2, <2>3 DEF ReplicasInv, OutboxInv, DeleteInv, CopyInv, AloneInv
<1>12. (R!TypeOK)'
  <2>1. written' \in 0..MaxRevisions
    BY <1>2, <1>3, <1>5, Constants
  <2> QED
    BY <1>1, <1>6, <1>8, <2>1, MovesTyped DEF ReplicasInv, R!TypeOK
<1> QED
  BY <1>10, <1>11, <1>12 DEF ReplicasInv

-----------------------------------------------------------------------------
(* Staging.                                                                 *)

\* The payload is on the volume before the manifest names it.
LEMMA CopyPayloadKeeps ==
    ASSUME ReplicasInv, NEW p \in R!Procs, NEW rev \in 1..MaxRevisions, R!CopyPayload(p, rev), pc[p] \in Inside \ {"apply"},
           call[p].op \in {"upload", "sync", "mirror"},
           call[p].op = "upload" => rev = written,
           call[p].op = "sync" => manifest.op = "copy" /\ rev = manifest.rev,
           call[p].op = "mirror" => manifest.op = "none" /\ unmirrored /\ stores[Primary] = rev
    PROVE  ReplicasInv'
<1> DEFINE c == [call[p] EXCEPT !.rev = rev]
<1>1. call[p] \in R!Calls /\ ~call[p].stored /\ (call[p].op = "upload" => ~browser) /\ lock = p
      /\ (call[p].op = "delete" /\ browser => session.state = "done") /\ (call[p].op = "complete" => browser)
  BY DEF ReplicasInv, R!TypeOK, ThreadInv, Guarded, Inside
<1>2. c \in R!Calls /\ c.op = call[p].op /\ ~c.stored /\ c.rev = rev
  BY <1>1, Constants DEF R!Calls
<1>3. call' = [call EXCEPT ![p] = c] /\ pc' = [pc EXCEPT ![p] = "save"]
  BY DEF R!CopyPayload, R!Goto
<1> HIDE DEF c
<1>4. Moves(p, "save", c)
  BY <1>2, <1>3 DEF Moves, R!Steps
<1>5. payloads' = payloads \cup {rev}
      /\ UNCHANGED <<browser, session, stores, up, manifest, lock, crashes, written, latest, unmirrored>>
  BY DEF R!CopyPayload
<1>6. ThreadInv(p)'
  BY <1>1, <1>2, <1>4, <1>5, MovesTyped DEF ThreadInv, Guarded, Saving, Applying, Inside
<1>7. \A q \in R!Procs : ThreadInv(q)'
  BY <1>4, <1>5, <1>6, MovesKeep
<1>8. OutboxInv'
  BY <1>5 DEF ReplicasInv, OutboxInv, BrowserInv, UploadInv, DeleteInv, CopyInv, AloneInv, WrittenInv
<1>9. (R!TypeOK)'
  BY <1>4, <1>5, MovesTyped DEF ReplicasInv, R!TypeOK
<1> QED
  BY <1>7, <1>8, <1>9 DEF ReplicasInv

LEMMA StageKeeps ==
    ASSUME ReplicasInv, NEW p \in R!Procs, R!Stage(p)
    PROVE  ReplicasInv'
<1>1. pc[p] = "upload" /\ call[p].op = "upload" /\ call[p].rev = written /\ written # 0
  BY DEF ReplicasInv, ThreadInv, Guarded, Saving, R!Stage
<1>2. written \in 1..MaxRevisions
  BY <1>1, Constants DEF ReplicasInv, R!TypeOK
<1> QED
  BY <1>1, <1>2, CopyPayloadKeeps DEF R!Stage, Inside

\* The bulk mirror copies what the primary has alone and no manifest names.
LEMMA MirrorKeeps ==
    ASSUME ReplicasInv, NEW p \in R!Procs, R!MirrorExisting(p)
    PROVE  ReplicasInv'
<1>1. pc[p] = "mirror" /\ call[p].op = "mirror"
  BY DEF ReplicasInv, ThreadInv, Guarded, R!MirrorExisting
<1>2. CASE manifest = R!NoManifest /\ stores[Primary] \notin {0, stores[Fallback]}
           /\ R!CopyPayload(p, stores[Primary])
  <2>1. manifest.op = "none"
    BY <1>2 DEF R!NoManifest
  <2>2. unmirrored
    BY <1>2, <2>1, Constants DEF ReplicasInv, OutboxInv, AloneInv
  <2>3. stores[Primary] \in 1..MaxRevisions
    BY <1>2, Constants DEF ReplicasInv, R!TypeOK
  <2> QED
    BY <1>1, <1>2, <2>1, <2>2, <2>3, CopyPayloadKeeps DEF Inside
<1>3. CASE R!Return(p) /\ UNCHANGED <<browser, session, stores, up, R!disk, crashes, written, latest, unmirrored>>
  <2>1. UNCHANGED Shared /\ up' = up /\ crashes' \in 0..MaxCrashes
    BY <1>3 DEF Shared, R!disk, ReplicasInv, R!TypeOK
  <2> QED
    BY <1>3, <2>1, QuietReturn
<1> QED
  BY <1>2, <1>3 DEF R!MirrorExisting

LEMMA SyncKeeps ==
    ASSUME ReplicasInv, NEW p \in R!Procs, R!SyncPending(p)
    PROVE  ReplicasInv'
<1>1. pc[p] = "sync" /\ call[p].op = "sync" /\ lock = p /\ call[p] \in R!Calls /\ ~call[p].stored
  BY DEF ReplicasInv, ThreadInv, Guarded, R!SyncPending, R!TypeOK, Inside
<1>2. CASE R!Return(p) /\ UNCHANGED <<browser, session, stores, up, R!disk, crashes, written, latest, unmirrored>>
  <2>1. UNCHANGED Shared /\ up' = up /\ crashes' \in 0..MaxCrashes
    BY <1>2 DEF Shared, R!disk, ReplicasInv, R!TypeOK
  <2> QED
    BY <1>2, <2>1, QuietReturn
<1>3. CASE manifest.op = "copy" /\ R!CopyPayload(p, stores[manifest.source])
  <2>1. stores[manifest.source] = 1 /\ manifest.rev = 1
    BY <1>3 DEF ReplicasInv, OutboxInv, CopyInv
  <2> QED
    BY <1>1, <1>3, <2>1, CopyPayloadKeeps, Constants DEF Inside
<1>4. CASE /\ manifest.op \in {"upload", "delete"} /\ R!Goto(p, "apply")
           /\ call' = [call EXCEPT ![p].todo = manifest.pending]
           /\ UNCHANGED <<browser, session, stores, up, R!disk, lock, crashes, written, latest, unmirrored>>
  <2> DEFINE c == [call[p] EXCEPT !.todo = manifest.pending]
  <2>1. c \in R!Calls /\ c.op = "sync" /\ ~c.stored /\ c.todo = manifest.pending
    BY <1>1 DEF R!Calls, ReplicasInv, R!TypeOK, R!Manifests
  <2>2. call' = [call EXCEPT ![p] = c] /\ pc' = [pc EXCEPT ![p] = "apply"]
    BY <1>4 DEF R!Goto
  <2> HIDE DEF c
  <2>3. Moves(p, "apply", c) /\ UNCHANGED Shared /\ UNCHANGED <<up, lock, crashes>>
    BY <1>4, <2>1, <2>2 DEF Moves, R!Steps, Shared, R!disk
  <2>4. ThreadInv(p)'
    BY <1>1, <1>4, <2>1, <2>3, MovesTyped DEF ThreadInv, Guarded, Saving, Applying, Inside, Shared
  <2>5. (\A q \in R!Procs : ThreadInv(q)') /\ OutboxInv'
    BY <2>3, <2>4, ThreadKeeps
  <2>6. (R!TypeOK)'
    BY <2>3, MovesTyped DEF ReplicasInv, R!TypeOK, Shared
  <2> QED
    BY <2>5, <2>6 DEF ReplicasInv
<1> QED
  BY <1>2, <1>3, <1>4 DEF R!SyncPending

-----------------------------------------------------------------------------
(* The manifest and what is delivered under it.                             *)

LEMMA ReplaceDoes ==
    ASSUME ReplicasInv, NEW p \in R!Procs, NEW m \in R!Manifests, R!Replace(p, m), pc[p] \in Inside \ {"apply"},
           m.op \in {"upload", "delete"}, call[p].op = "upload" => m.op = "upload"
    PROVE  /\ \A q \in R!Procs : ThreadInv(q)'
           /\ pc' \in [R!Procs -> R!Steps] /\ call' \in [R!Procs -> R!Calls]
<1> DEFINE c == [call[p] EXCEPT !.todo = m.pending]
<1>1. call[p] \in R!Calls /\ ~call[p].stored /\ (call[p].op = "upload" => ~browser) /\ lock = p
      /\ (call[p].op = "delete" /\ browser => session.state = "done") /\ (call[p].op = "complete" => browser)
  BY DEF ReplicasInv, R!TypeOK, ThreadInv, Guarded, Inside
<1>2. c \in R!Calls /\ c.op = call[p].op /\ ~c.stored /\ c.todo = m.pending
  BY <1>1 DEF R!Calls, R!Manifests
<1>3. call' = [call EXCEPT ![p] = c] /\ pc' = [pc EXCEPT ![p] = "apply"] /\ manifest' = m
      /\ browser' = browser /\ lock' = lock /\ session' = session
  BY DEF R!Replace, R!Goto
<1> HIDE DEF c
<1>4. Moves(p, "apply", c)
  BY <1>2, <1>3 DEF Moves, R!Steps
<1>5. ThreadInv(p)'
  BY <1>1, <1>2, <1>3, <1>4, MovesTyped DEF ThreadInv, Guarded, Saving, Applying, Inside
<1> QED
  BY <1>3, <1>4, <1>5, MovesTyped, MovesKeep

LEMMA SaveManifestKeeps ==
    ASSUME ReplicasInv, NEW p \in R!Procs, R!SaveManifest(p)
    PROVE  ReplicasInv'
<1> DEFINE pending == CASE call[p].op = "upload" -> R!Stores
                        [] call[p].op = "sync"   -> manifest.pending
                        [] call[p].op = "mirror" -> {Fallback}
           m == [op |-> "upload", rev |-> call[p].rev, pending |-> pending, source |-> Primary]
<1>1. /\ pc[p] = "save" /\ call[p] \in R!Calls /\ call[p].op \in {"upload", "sync", "mirror"}
      /\ call[p].rev \in payloads /\ call[p].rev \in 1..MaxRevisions
  BY Constants DEF ReplicasInv, R!TypeOK, ThreadInv, Saving, R!SaveManifest, R!Calls
<1>2. R!Replace(p, m)
  BY DEF R!SaveManifest
<1>3. pending \subseteq R!Stores
  BY <1>1, Constants DEF ReplicasInv, R!TypeOK, R!Manifests
<1>4. /\ call[p].op = "upload" => pending = R!Stores
      /\ call[p].op = "sync" => pending = manifest.pending
      /\ call[p].op = "mirror" => pending = {Fallback}
  OBVIOUS
<1> HIDE DEF pending
<1>5. m \in R!Manifests
  BY <1>1, <1>3, Constants DEF R!Manifests
<1>6. m.op = "upload" /\ m.rev = call[p].rev /\ m.pending = pending
  OBVIOUS
<1> HIDE DEF m
<1>7. /\ manifest' = m /\ payloads' = payloads \cap {m.rev} /\ unmirrored' = FALSE
      /\ UNCHANGED <<browser, session, stores, up, lock, crashes, written>>
  BY <1>2 DEF R!Replace
<1>8. (\A q \in R!Procs : ThreadInv(q)') /\ pc' \in [R!Procs -> R!Steps] /\ call' \in [R!Procs -> R!Calls]
  BY <1>1, <1>2, <1>5, <1>6, ReplaceDoes DEF Inside
<1>9. CASE call[p].op = "upload"
  <2>1. ~browser /\ m.rev = written
    BY <1>1, <1>6, <1>9 DEF ReplicasInv, ThreadInv, Guarded, Saving
  <2>2. latest'.rev = m.rev /\ latest'.told = FALSE /\ latest' \in [rev : 0..MaxRevisions, told : BOOLEAN]
    BY <1>1, <1>6, <1>9, Constants DEF R!SaveManifest
  <2>3. UploadInv'
    BY <1>1, <1>4, <1>6, <1>7, <1>9, <2>1, <2>2, Constants DEF UploadInv, ReplicasInv, OutboxInv, WrittenInv
  <2>4. OutboxInv'
    BY <1>6, <1>7, <2>1, <2>2, <2>3
    DEF ReplicasInv, OutboxInv, BrowserInv, DeleteInv, CopyInv, AloneInv, WrittenInv
  <2>5. (R!TypeOK)'
    BY <1>5, <1>7, <1>8, <2>2 DEF ReplicasInv, R!TypeOK
  <2> QED
    BY <1>8, <2>4, <2>5 DEF ReplicasInv
<1>10. CASE call[p].op # "upload"
  <2>1. latest' = latest
    BY <1>10 DEF R!SaveManifest
  <2>2. browser => session.state = "done"
    BY <1>1, <1>10 DEF ReplicasInv, OutboxInv, BrowserInv, ThreadInv, Saving
  <2>3. /\ m.rev = 1 /\ latest.rev = 1 /\ pending # R!Stores
        /\ \A s \in R!Stores \ pending : stores[s] = 1
        /\ \A s \in R!Stores : stores[s] \in {0, 1}
    <3>1. CASE call[p].op = "sync"
      <4>1. manifest.op = "copy" /\ m.rev = manifest.rev /\ pending = manifest.pending
        BY <1>1, <1>4, <1>6, <3>1 DEF ReplicasInv, ThreadInv, Saving
      <4>2. manifest.source \in R!Stores
        BY DEF ReplicasInv, R!TypeOK, R!Manifests
      <4> QED
        BY <4>1, <4>2, Constants DEF ReplicasInv, OutboxInv, CopyInv
    <3>2. CASE call[p].op = "mirror"
      <4>1. unmirrored /\ stores[Primary] = m.rev /\ m.rev # 0 /\ pending = {Fallback}
        BY <1>1, <1>4, <1>6, <3>2 DEF ReplicasInv, ThreadInv, Saving
      <4>2. latest.rev = 1 /\ \E s \in R!Stores : stores[s] = 1 /\ \A t \in R!Stores \ {s} : stores[t] = 0
        BY <4>1 DEF ReplicasInv, OutboxInv, AloneInv
      <4> QED
        BY <4>1, <4>2, Constants DEF R!Stores
    <3> QED
      BY <1>1, <1>10, <3>1, <3>2
  <2>4. UploadInv'
    <3>1. 1 <= written
      BY <1>3, <2>3, Constants DEF ReplicasInv, R!TypeOK, OutboxInv, WrittenInv
    <3> QED
      BY <1>1, <1>6, <1>7, <2>1, <2>3, <3>1 DEF UploadInv
  <2>5. OutboxInv'
    BY <1>6, <1>7, <2>1, <2>2, <2>4
    DEF ReplicasInv, OutboxInv, BrowserInv, DeleteInv, CopyInv, AloneInv, WrittenInv
  <2>6. (R!TypeOK)'
    BY <1>5, <1>7, <1>8, <2>1 DEF ReplicasInv, R!TypeOK
  <2> QED
    BY <1>8, <2>5, <2>6 DEF ReplicasInv
<1> QED
  BY <1>9, <1>10

LEMMA SaveTombstoneKeeps ==
    ASSUME ReplicasInv, NEW p \in R!Procs, R!SaveTombstone(p)
    PROVE  ReplicasInv'
<1> DEFINE m == [op |-> "delete", rev |-> 0, pending |-> R!Stores, source |-> Primary]
<1>1. pc[p] = "delete" /\ call[p].op = "delete" /\ (browser => session.state = "done")
  BY DEF ReplicasInv, ThreadInv, Guarded, R!SaveTombstone
<1>2. R!Replace(p, m) /\ latest' = [rev |-> 0, told |-> FALSE]
  BY DEF R!SaveTombstone
<1>3. m \in R!Manifests /\ m.op = "delete" /\ m.rev = 0 /\ m.pending = R!Stores
  BY Constants DEF R!Manifests
<1> HIDE DEF m
<1>4. /\ manifest' = m /\ payloads' = payloads \cap {m.rev} /\ unmirrored' = FALSE
      /\ UNCHANGED <<browser, session, stores, up, lock, crashes, written>>
  BY <1>2 DEF R!Replace
<1>5. (\A q \in R!Procs : ThreadInv(q)') /\ pc' \in [R!Procs -> R!Steps] /\ call' \in [R!Procs -> R!Calls]
  BY <1>1, <1>2, <1>3, ReplaceDoes DEF Inside
<1>6. latest'.rev = 0 /\ latest'.told = FALSE /\ latest' \in [rev : 0..MaxRevisions, told : BOOLEAN]
  BY <1>2, Constants
<1>7. OutboxInv'
  BY <1>1, <1>3, <1>4, <1>6 DEF ReplicasInv, OutboxInv, BrowserInv, UploadInv, DeleteInv, CopyInv, AloneInv, WrittenInv
<1>8. (R!TypeOK)'
  BY <1>3, <1>4, <1>5, <1>6 DEF ReplicasInv, R!TypeOK
<1> QED
  BY <1>5, <1>7, <1>8 DEF ReplicasInv

\* One provider is served, or is not and may have been all the same.
LEMMA DeliverKeeps ==
    ASSUME ReplicasInv, NEW p \in R!Procs, NEW s \in R!Stores, R!Deliver(p, s)
    PROVE  ReplicasInv'
<1>1. /\ pc[p] = "apply" /\ call[p] \in R!Calls /\ lock = p /\ s \in call[p].todo
      /\ manifest.op \in {"upload", "delete"} /\ call[p].todo \subseteq manifest.pending
      /\ call[p].op = "upload" => manifest.op = "upload" /\ ~browser
      /\ call[p].op = "delete" /\ browser => session.state = "done"
      /\ call[p].op = "complete" => browser
      /\ call[p].stored => manifest.pending # R!Stores
      /\ manifest \in R!Manifests
  BY DEF ReplicasInv, R!TypeOK, ThreadInv, Guarded, Applying, R!Deliver, Inside
<1>2. UNCHANGED <<browser, session, up, payloads, lock, pc, crashes, written, latest, unmirrored>>
  BY DEF R!Deliver
<1>3. ~unmirrored /\ (browser => session.state = "done")
  BY <1>1 DEF ReplicasInv, OutboxInv, AloneInv, BrowserInv
<1>4. \A t \in R!Stores : stores'[t] = stores[t] \/ (t = s /\ stores'[t] = manifest.rev)
  <2>1. stores' = stores \/ stores' = [stores EXCEPT ![s] = manifest.rev]
    BY DEF R!Deliver
  <2> QED
    BY <2>1 DEF ReplicasInv, R!TypeOK
<1>5. stores' \in [R!Stores -> 0..MaxRevisions]
  <2>1. stores' = stores \/ stores' = [stores EXCEPT ![s] = manifest.rev]
    BY DEF R!Deliver
  <2> QED
    BY <1>1, <2>1 DEF ReplicasInv, R!TypeOK, R!Manifests
<1>6. manifest.rev <= written
  <2>1. CASE manifest.op = "delete"
    BY <2>1 DEF ReplicasInv, R!TypeOK, OutboxInv, DeleteInv
  <2>2. CASE manifest.op = "upload"
    BY <2>2 DEF ReplicasInv, OutboxInv, UploadInv
  <2> QED
    BY <1>1, <2>1, <2>2
<1>7. \A t \in R!Stores : stores'[t] <= written
  BY <1>4, <1>6 DEF ReplicasInv, OutboxInv, WrittenInv
<1>8. \E m \in R!Manifests, c \in R!Calls :
         /\ m.op = manifest.op /\ m.rev = manifest.rev /\ manifest' = m /\ m.source = manifest.source
         /\ m.pending \subseteq manifest.pending
         /\ \A t \in manifest.pending \ m.pending : stores'[t] = manifest.rev
         /\ c.op = call[p].op /\ call' = [call EXCEPT ![p] = c] /\ c.todo \subseteq m.pending
         /\ c.stored => m.pending # R!Stores
  <2>1. CASE /\ stores' = [stores EXCEPT ![s] = manifest.rev]
             /\ manifest' = [manifest EXCEPT !.pending = @ \ {s}]
             /\ call' = [call EXCEPT ![p].todo = @ \ {s}, ![p].stored = TRUE]
    <3> DEFINE m == [manifest EXCEPT !.pending = @ \ {s}]
               c == [call[p] EXCEPT !.todo = @ \ {s}, !.stored = TRUE]
    <3>1. /\ m \in R!Manifests /\ m.op = manifest.op /\ m.rev = manifest.rev /\ m.source = manifest.source
          /\ m.pending = manifest.pending \ {s}
      BY <1>1 DEF R!Manifests
    <3>2. c \in R!Calls /\ c.op = call[p].op /\ c.todo = call[p].todo \ {s}
      BY <1>1 DEF R!Calls
    <3>3. manifest' = m /\ call' = [call EXCEPT ![p] = c]
      BY <2>1
    <3> HIDE DEF m, c
    <3>4. stores'[s] = manifest.rev
      BY <2>1 DEF ReplicasInv, R!TypeOK
    <3>5. c.todo \subseteq m.pending /\ m.pending # R!Stores
      BY <1>1, <3>1, <3>2
    <3>6. /\ m.op = manifest.op /\ m.rev = manifest.rev /\ manifest' = m /\ m.source = manifest.source
          /\ m.pending \subseteq manifest.pending
          /\ \A t \in manifest.pending \ m.pending : stores'[t] = manifest.rev
          /\ c.op = call[p].op /\ call' = [call EXCEPT ![p] = c] /\ c.todo \subseteq m.pending
          /\ c.stored => m.pending # R!Stores
      BY <3>1, <3>2, <3>3, <3>4, <3>5
    <3> QED
      BY <3>1, <3>2, <3>6
  <2>2. CASE manifest' = manifest /\ call' = [call EXCEPT ![p].todo = @ \ {s}]
    <3> DEFINE c == [call[p] EXCEPT !.todo = @ \ {s}]
    <3>1. c \in R!Calls /\ c.op = call[p].op /\ c.todo = call[p].todo \ {s} /\ c.stored = call[p].stored
      BY <1>1 DEF R!Calls
    <3>2. call' = [call EXCEPT ![p] = c]
      BY <2>2
    <3> HIDE DEF c
    <3> QED
      BY <1>1, <2>2, <3>1, <3>2
  <2> QED
    BY <2>1, <2>2 DEF R!Deliver
<1>9. PICK m \in R!Manifests, c \in R!Calls :
         /\ m.op = manifest.op /\ m.rev = manifest.rev /\ manifest' = m /\ m.source = manifest.source
         /\ m.pending \subseteq manifest.pending
         /\ \A t \in manifest.pending \ m.pending : stores'[t] = manifest.rev
         /\ c.op = call[p].op /\ call' = [call EXCEPT ![p] = c] /\ c.todo \subseteq m.pending
         /\ c.stored => m.pending # R!Stores
  BY <1>8
<1>10. Moves(p, "apply", c)
  BY <1>1, <1>2, <1>9 DEF Moves, R!Steps, ReplicasInv, R!TypeOK
<1>11. ThreadInv(p)'
  BY <1>1, <1>2, <1>9, <1>10, MovesTyped DEF ThreadInv, Guarded, Saving, Applying, Inside
<1>12. \A q \in R!Procs : ThreadInv(q)'
  BY <1>1, <1>2, <1>3, <1>10, <1>11, MovesKeep DEF Inside
<1>13. OutboxInv'
  <2>1. \A t \in R!Stores \ m.pending : stores'[t] = manifest.rev
    BY <1>1, <1>4, <1>9 DEF ReplicasInv, OutboxInv, UploadInv, DeleteInv
  <2>2. UploadInv'
    <3>1. manifest.rev \in Nat /\ manifest.pending \subseteq R!Stores
      BY <1>1 DEF R!Manifests
    <3> QED
      BY <1>2, <1>4, <1>9, <2>1, <3>1 DEF ReplicasInv, OutboxInv, UploadInv
  <2>3. DeleteInv'
    BY <1>2, <1>9, <2>1 DEF ReplicasInv, OutboxInv, DeleteInv
  <2>4. BrowserInv' /\ CopyInv' /\ AloneInv' /\ WrittenInv'
    BY <1>1, <1>2, <1>3, <1>7, <1>9 DEF ReplicasInv, OutboxInv, BrowserInv, CopyInv, AloneInv, WrittenInv
  <2> QED
    BY <2>2, <2>3, <2>4 DEF OutboxInv
<1>14. (R!TypeOK)'
  BY <1>2, <1>5, <1>9, <1>10, MovesTyped DEF ReplicasInv, R!TypeOK
<1> QED
  BY <1>12, <1>13, <1>14 DEF ReplicasInv

\* What a delivery has reached is told when it ends.
LEMMA FinishKeeps ==
    ASSUME ReplicasInv, NEW p \in R!Procs, R!Finish(p)
    PROVE  ReplicasInv'
<1> DEFINE delivered == manifest.pending = {}
           succeeded == CASE call[p].op = "upload" -> call[p].stored
                          [] call[p].op = "delete" -> delivered
                          [] OTHER                 -> FALSE
<1>1. /\ pc[p] = "apply" /\ manifest.op \in {"upload", "delete"}
      /\ call[p].op = "upload" => manifest.op = "upload"
      /\ call[p].stored => manifest.pending # R!Stores
      /\ manifest \in R!Manifests /\ latest \in [rev : 0..MaxRevisions, told : BOOLEAN] /\ call[p] \in R!Calls
  BY DEF ReplicasInv, R!TypeOK, ThreadInv, Applying, R!Finish
<1>2. /\ manifest' = IF delivered THEN R!NoManifest ELSE manifest
      /\ payloads' = IF delivered THEN {} ELSE payloads
      /\ latest' = [latest EXCEPT !.told = @ \/ succeeded]
      /\ R!Return(p)
      /\ UNCHANGED <<browser, session, stores, up, crashes, written, unmirrored>>
  BY DEF R!Finish
<1>3. succeeded \in BOOLEAN
  BY <1>1 DEF R!Calls
<1>4. ~delivered /\ succeeded => manifest.op = "upload" /\ manifest.pending # R!Stores
  BY <1>1
<1> HIDE DEF succeeded
<1>5. /\ latest' \in [rev : 0..MaxRevisions, told : BOOLEAN] /\ latest'.rev = latest.rev
      /\ latest'.told <=> latest.told \/ succeeded
  BY <1>1, <1>2, <1>3
<1>6. R!NoManifest \in R!Manifests /\ R!NoManifest.op = "none" /\ R!NoManifest.pending = {}
  BY Constants DEF R!NoManifest, R!Manifests
<1>7. ~unmirrored /\ (browser => session.state = "done")
  BY <1>1 DEF ReplicasInv, OutboxInv, AloneInv, BrowserInv
<1>8. \A q \in R!Procs : ThreadInv(q)'
  BY <1>1, <1>2, ReturnDoes, MovesKeep DEF Inside
<1>9. OutboxInv'
  <2>1. BrowserInv' /\ WrittenInv'
    BY <1>2, <1>7 DEF ReplicasInv, OutboxInv, BrowserInv, WrittenInv
  <2>2. CASE delivered
    <3>1. \A s \in R!Stores : stores[s] = latest.rev
      BY <1>1, <2>2 DEF ReplicasInv, OutboxInv, UploadInv, DeleteInv
    <3>2. manifest'.op = "none" /\ manifest'.pending = {}
      BY <1>2, <1>6, <2>2
    <3> QED
      BY <1>2, <1>5, <1>7, <2>1, <3>1, <3>2 DEF OutboxInv, UploadInv, DeleteInv, CopyInv, AloneInv
  <2>3. CASE ~delivered
    <3>1. manifest' = manifest /\ payloads' = payloads
      BY <1>2, <2>3
    <3>2. UploadInv' /\ DeleteInv'
      BY <1>2, <1>4, <1>5, <2>3, <3>1 DEF ReplicasInv, OutboxInv, UploadInv, DeleteInv
    <3>3. CopyInv' /\ AloneInv'
      BY <1>1, <1>2, <1>7, <3>1 DEF CopyInv, AloneInv
    <3> QED
      BY <2>1, <3>2, <3>3 DEF OutboxInv
  <2> QED
    BY <2>2, <2>3
<1>10. (R!TypeOK)'
  <2>1. manifest' \in R!Manifests /\ payloads' \subseteq 1..MaxRevisions
    BY <1>1, <1>2, <1>6 DEF ReplicasInv, R!TypeOK
  <2> QED
    BY <1>2, <1>5, <2>1, ReturnDoes, MovesTyped DEF ReplicasInv, R!TypeOK
<1> QED
  BY <1>8, <1>9, <1>10 DEF ReplicasInv

-----------------------------------------------------------------------------
(* Browser uploads and providers.                                           *)

\* The provider assembles the object, which it then has alone.
LEMMA CompleteKeeps ==
    ASSUME ReplicasInv, NEW p \in R!Procs, R!CompleteMultipart(p)
    PROVE  ReplicasInv'
<1>1. /\ pc[p] = "complete" /\ call[p].op = "complete" /\ lock = p /\ session.state = "open" /\ browser
      /\ call[p] \in R!Calls /\ ~call[p].stored
      /\ session \in [state : {"none", "open", "done", "gone"}, at : R!Stores]
  BY DEF ReplicasInv, R!TypeOK, ThreadInv, Guarded, OutboxInv, BrowserInv, R!CompleteMultipart, Inside
<1>2. /\ session' = [session EXCEPT !.state = "done"] /\ stores' = [stores EXCEPT ![session.at] = 1]
      /\ written' = 1 /\ latest' = [rev |-> 1, told |-> FALSE] /\ unmirrored' = TRUE
      /\ UNCHANGED <<browser, up, manifest, payloads, crashes>>
  BY DEF R!CompleteMultipart, R!disk
<1>3. /\ session' \in [state : {"none", "open", "done", "gone"}, at : R!Stores]
      /\ session'.state = "done" /\ session'.at = session.at /\ session.at \in R!Stores
  BY <1>1, <1>2
<1>4. manifest.op = "none" /\ \A s \in R!Stores : stores[s] = 0
  BY <1>1 DEF ReplicasInv, OutboxInv, BrowserInv
<1>5. /\ stores' \in [R!Stores -> 0..MaxRevisions] /\ stores'[session.at] = 1
      /\ \A s \in R!Stores \ {session.at} : stores'[s] = 0
  BY <1>2, <1>3, <1>4, Constants DEF ReplicasInv, R!TypeOK
<1>6. /\ latest' \in [rev : 0..MaxRevisions, told : BOOLEAN] /\ latest'.rev = 1 /\ latest'.told = FALSE
  BY <1>2, Constants
<1>7. OutboxInv'
  BY <1>1, <1>2, <1>3, <1>4, <1>5, <1>6
  DEF ReplicasInv, OutboxInv, BrowserInv, UploadInv, DeleteInv, CopyInv, AloneInv, WrittenInv
<1>8. \E step, c : Moves(p, step, c) /\ ThreadInv(p)' /\ lock' \in R!Procs \cup {Nobody}
  <2>1. CASE R!Goto(p, "record") /\ UNCHANGED <<lock, call>>
    <3>1. Moves(p, "record", call[p])
      BY <1>1, <2>1 DEF Moves, R!Goto, R!Steps, ReplicasInv, R!TypeOK
    <3>2. ThreadInv(p)'
      BY <1>1, <1>2, <1>3, <1>5, <2>1, <3>1, MovesTyped DEF ThreadInv, Guarded, Saving, Applying, Inside
    <3> QED
      BY <2>1, <3>1, <3>2 DEF ReplicasInv, R!TypeOK
  <2>2. CASE R!Return(p)
    BY <2>2, ReturnDoes
  <2> QED
    BY <2>1, <2>2 DEF R!CompleteMultipart
<1>9. PICK step, c : Moves(p, step, c) /\ ThreadInv(p)' /\ lock' \in R!Procs \cup {Nobody}
  BY <1>8
<1>10. \A q \in R!Procs : ThreadInv(q)'
  BY <1>1, <1>2, <1>9, MovesKeep DEF Inside
<1>11. (R!TypeOK)'
  BY <1>2, <1>3, <1>5, <1>6, <1>9, MovesTyped, Constants DEF ReplicasInv, R!TypeOK
<1> QED
  BY <1>7, <1>10, <1>11 DEF ReplicasInv

\* A completion that finds its object succeeds once more.
LEMMA CompleteAgainKeeps ==
    ASSUME ReplicasInv, NEW p \in R!Procs, R!CompleteAgain(p)
    PROVE  ReplicasInv'
<1> DEFINE found == /\ session.state # "open" /\ up[session.at] /\ latest.rev = 1 /\ stores[session.at] = 1
<1>1. /\ pc[p] = "complete" /\ latest \in [rev : 0..MaxRevisions, told : BOOLEAN]
      /\ session \in [state : {"none", "open", "done", "gone"}, at : R!Stores]
      /\ up \in [R!Stores -> BOOLEAN]
  BY DEF ReplicasInv, R!TypeOK, R!CompleteAgain
<1>2. /\ latest' = [latest EXCEPT !.told = @ \/ found] /\ R!Return(p)
      /\ UNCHANGED <<browser, session, stores, up, manifest, payloads, crashes, written, unmirrored>>
  BY DEF R!CompleteAgain, R!disk
<1>3. found \in BOOLEAN /\ (found => latest.rev = 1)
  BY <1>1
<1> HIDE DEF found
<1>4. /\ latest' \in [rev : 0..MaxRevisions, told : BOOLEAN] /\ latest'.rev = latest.rev
      /\ latest'.told => latest.told \/ latest.rev = 1
  BY <1>1, <1>2, <1>3
<1>5. browser
  BY <1>1 DEF ReplicasInv, ThreadInv, Guarded
<1>6. \A q \in R!Procs : ThreadInv(q)'
  BY <1>1, <1>2, ReturnDoes, MovesKeep DEF Inside
<1>7. OutboxInv'
  BY <1>2, <1>4, <1>5
  DEF ReplicasInv, OutboxInv, BrowserInv, UploadInv, DeleteInv, CopyInv, AloneInv, WrittenInv
<1>8. (R!TypeOK)'
  BY <1>2, <1>4, ReturnDoes, MovesTyped DEF ReplicasInv, R!TypeOK
<1> QED
  BY <1>6, <1>7, <1>8 DEF ReplicasInv

LEMMA RecordKeeps ==
    ASSUME ReplicasInv, NEW p \in R!Procs, R!RecordCopy(p)
    PROVE  ReplicasInv'
<1> DEFINE m == [op |-> "copy", rev |-> 1, pending |-> R!Stores \ {session.at}, source |-> session.at]
<1>1. /\ pc[p] = "record" /\ unmirrored /\ session.state = "done" /\ stores[session.at] = 1
      /\ session.at \in R!Stores /\ latest \in [rev : 0..MaxRevisions, told : BOOLEAN]
  BY DEF ReplicasInv, R!TypeOK, ThreadInv, Applying, R!RecordCopy
<1>2. /\ manifest' = m /\ latest' = [latest EXCEPT !.told = TRUE] /\ unmirrored' = FALSE /\ R!Return(p)
      /\ UNCHANGED <<browser, session, stores, up, payloads, crashes, written>>
  BY DEF R!RecordCopy
<1>3. /\ m \in R!Manifests /\ m.op = "copy" /\ m.rev = 1 /\ m.pending = R!Stores \ {session.at}
      /\ m.source = session.at
  BY <1>1, Constants DEF R!Manifests
<1> HIDE DEF m
<1>4. latest' \in [rev : 0..MaxRevisions, told : BOOLEAN] /\ latest'.rev = latest.rev
  BY <1>1, <1>2
<1>5. latest.rev = 1 /\ \A s \in R!Stores : stores[s] \in {0, 1}
  BY <1>1 DEF ReplicasInv, OutboxInv, AloneInv
<1>6. \A q \in R!Procs : ThreadInv(q)'
  BY <1>1, <1>2, ReturnDoes, MovesKeep DEF Inside
<1>7. OutboxInv'
  BY <1>1, <1>2, <1>3, <1>4, <1>5
  DEF ReplicasInv, OutboxInv, BrowserInv, UploadInv, DeleteInv, CopyInv, AloneInv, WrittenInv
<1>8. (R!TypeOK)'
  BY <1>2, <1>3, <1>4, ReturnDoes, MovesTyped DEF ReplicasInv, R!TypeOK
<1> QED
  BY <1>6, <1>7, <1>8 DEF ReplicasInv

LEMMA SessionKeeps ==
    ASSUME ReplicasInv, R!CreateMultipart \/ R!AbortMultipart
    PROVE  ReplicasInv'
<1>1. UNCHANGED <<browser, stores, up, manifest, payloads, lock, pc, call, crashes, written, latest, unmirrored>>
  BY DEF R!CreateMultipart, R!AbortMultipart, R!disk
<1>2. session \in [state : {"none", "open", "done", "gone"}, at : R!Stores]
  BY DEF ReplicasInv, R!TypeOK
<1>3. /\ session' \in [state : {"none", "open", "done", "gone"}, at : R!Stores]
      /\ session.state # "done" /\ session'.state # "done" /\ browser
  <2>1. CASE R!CreateMultipart
    <3>1. PICK s \in R!Stores : session' = [state |-> "open", at |-> s]
      BY <2>1 DEF R!CreateMultipart
    <3> QED
      BY <2>1, <3>1 DEF R!CreateMultipart
  <2>2. CASE R!AbortMultipart
    BY <1>2, <2>2 DEF R!AbortMultipart, ReplicasInv, OutboxInv, BrowserInv
  <2> QED
    BY <2>1, <2>2
<1>4. \A p \in R!Procs : ThreadInv(p)'
  BY <1>1, <1>3 DEF ReplicasInv, ThreadInv, Guarded, Saving, Applying
<1>5. OutboxInv'
  BY <1>1, <1>3 DEF ReplicasInv, OutboxInv, BrowserInv, UploadInv, DeleteInv, CopyInv, AloneInv, WrittenInv
<1>6. (R!TypeOK)'
  BY <1>1, <1>3 DEF ReplicasInv, R!TypeOK
<1> QED
  BY <1>4, <1>5, <1>6 DEF ReplicasInv

LEMMA StaysKeeps ==
    ASSUME ReplicasInv, UNCHANGED Shared, UNCHANGED <<lock, pc, call, crashes>>, up' \in [R!Stores -> BOOLEAN]
    PROVE  ReplicasInv'
<1>1. \A p \in R!Procs : ThreadInv(p)'
  BY DEF ReplicasInv, ThreadInv, Guarded, Saving, Applying, Shared
<1> QED
  BY <1>1, SharedKeeps DEF ReplicasInv, R!TypeOK, Shared

-----------------------------------------------------------------------------
(* The theorems.                                                            *)

LEMMA ProceedKeeps ==
    ASSUME ReplicasInv, NEW p \in R!Procs, R!Proceed(p)
    PROVE  ReplicasInv'
BY AcquireKeeps, ReturningSteps, StageKeeps, SaveManifestKeeps, SaveTombstoneKeeps, DeliverKeeps, FinishKeeps,
   SyncKeeps, MirrorKeeps, CompleteKeeps, CompleteAgainKeeps, RecordKeeps DEF R!Proceed

LEMMA NextKeeps ==
    ASSUME ReplicasInv, R!Next
    PROVE  ReplicasInv'
<1>1. ASSUME NEW p \in R!Procs, R!Proceed(p) \/ R!GiveUp(p) \/ R!Crash(p) PROVE ReplicasInv'
  BY <1>1, ProceedKeeps, ReturningSteps
<1>2. ASSUME NEW p \in R!Procs, NEW kind \in {"upload", "delete", "complete", "mirror", "sync"}, R!Start(p, kind)
      PROVE  ReplicasInv'
  BY <1>2, StartKeeps
<1>3. ASSUME NEW s \in R!Stores, R!ProviderChanges(s) PROVE ReplicasInv'
  BY <1>3, StaysKeeps DEF R!ProviderChanges, R!disk, Shared, ReplicasInv, R!TypeOK
<1> QED
  BY <1>1, <1>2, <1>3, SessionKeeps DEF R!Next, R!Procs

LEMMA GoneHolds == R!Gone => ReplicasInv
<1> SUFFICES ASSUME R!Gone PROVE ReplicasInv
  OBVIOUS
<1>1. /\ browser = FALSE /\ written = 0 /\ unmirrored = FALSE
      /\ latest \in [rev : 0..MaxRevisions, told : BOOLEAN] /\ latest.rev = 0 /\ latest.told = FALSE
      /\ manifest = R!NoManifest /\ payloads = {} /\ lock = Nobody /\ crashes = MaxCrashes
      /\ up \in [R!Stores -> BOOLEAN]
  BY Constants DEF R!Gone
<1>2. stores \in [R!Stores -> 0..MaxRevisions] /\ \A s \in R!Stores : stores[s] = 0
  BY Constants DEF R!Gone
<1>3. /\ session \in [state : {"none", "open", "done", "gone"}, at : R!Stores] /\ session.state = "none"
  BY Constants DEF R!Gone
<1>4. R!NoManifest \in R!Manifests /\ R!NoManifest.op = "none" /\ R!NoManifest.pending = {}
  BY Constants DEF R!NoManifest, R!Manifests
<1>5. /\ pc \in [R!Procs -> R!Steps] /\ call \in [R!Procs -> R!Calls]
      /\ \A p \in R!Procs : pc[p] = "gone" /\ call[p] = R!Idle
  BY IdleIs DEF R!Gone, R!Steps
<1>6. R!TypeOK
  <2>1. crashes \in 0..MaxCrashes
    BY <1>1, ClipsAssumption
  <2>2. browser \in BOOLEAN /\ unmirrored \in BOOLEAN /\ written \in 0..MaxRevisions
    BY <1>1, Constants
  <2> QED
    BY <1>1, <1>2, <1>3, <1>4, <1>5, <2>1, <2>2 DEF R!TypeOK
<1>7. \A p \in R!Procs : ThreadInv(p)
  BY <1>5, IdleIs DEF ThreadInv, Guarded, Saving, Applying, Inside
<1>8. OutboxInv
  BY <1>1, <1>2, <1>3, <1>4, Constants
  DEF OutboxInv, BrowserInv, UploadInv, DeleteInv, CopyInv, AloneInv, WrittenInv
<1> QED
  BY <1>6, <1>7, <1>8 DEF ReplicasInv

LEMMA BeginsHolds == R!Init => ReplicasInv
<1> SUFFICES ASSUME R!Init PROVE ReplicasInv
  OBVIOUS
<1>1. /\ browser \in BOOLEAN /\ written \in {0, 1} /\ (browser => written = 0) /\ unmirrored = (written = 1)
      /\ latest \in [rev : 0..MaxRevisions, told : BOOLEAN] /\ latest.rev = written /\ latest.told = (written = 1)
      /\ manifest = R!NoManifest /\ payloads = {} /\ lock = Nobody /\ crashes = 0 /\ up \in [R!Stores -> BOOLEAN]
  BY Constants DEF R!Init
<1>2. /\ stores \in [R!Stores -> 0..MaxRevisions] /\ stores[Primary] = written
      /\ \A s \in R!Stores \ {Primary} : stores[s] = 0
  BY <1>1, Constants DEF R!Init
<1>3. /\ session \in [state : {"none", "open", "done", "gone"}, at : R!Stores] /\ session.state = "none"
  BY Constants DEF R!Init
<1>4. R!NoManifest \in R!Manifests /\ R!NoManifest.op = "none" /\ R!NoManifest.pending = {}
  BY Constants DEF R!NoManifest, R!Manifests
<1>5. /\ pc \in [R!Procs -> R!Steps] /\ call \in [R!Procs -> R!Calls]
      /\ \A p \in R!Procs : pc[p] = "idle" /\ call[p] = R!Idle
  BY IdleIs DEF R!Init, R!Steps
<1>6. R!TypeOK
  BY <1>1, <1>2, <1>3, <1>4, <1>5, ClipsAssumption, Constants DEF R!TypeOK
<1>7. \A p \in R!Procs : ThreadInv(p)
  BY <1>5, IdleIs DEF ThreadInv, Guarded, Saving, Applying, Inside
<1>8. OutboxInv
  BY <1>1, <1>2, <1>3, <1>4, Constants
  DEF OutboxInv, BrowserInv, UploadInv, DeleteInv, CopyInv, AloneInv, WrittenInv
<1> QED
  BY <1>6, <1>7, <1>8 DEF ReplicasInv

LEMMA InitHolds == Init => ReplicasInv
BY GoneHolds, BeginsHolds DEF Init

LEMMA StepKeeps ==
    ASSUME ReplicasInv, [Next]_<<part, drafts, editorExports, aiEdits, replicas,
                          generation, accounts, sourceCache, download, workspace, stream>>
    PROVE  ReplicasInv'
<1>1. R!Next \/ UNCHANGED replicas
  BY DEF Next
<1>2. CASE UNCHANGED replicas
  BY <1>2, StaysKeeps DEF replicas, Shared, ReplicasInv, R!TypeOK
<1> QED
  BY <1>1, <1>2, NextKeeps

\* What a thread knows and what the manifest says stay true of the stores, the payloads and
\* the writes that were acknowledged, whatever step of whichever thread comes next.
THEOREM ReplicasInductive == Spec => []ReplicasInv
BY InitHolds, StepKeeps, PTL DEF Spec

\* A reader passes over a store whose copy is pending as long as another one answers.
LEMMA ReaderGetsLatest == ReplicasInv => R!ReadsLatest
<1> SUFFICES ASSUME ReplicasInv, NEW failover \in BOOLEAN, latest.told,
                    latest.rev = 0 \/ \E s \in R!ReadFrom(failover) : up[s] /\ stores[s] = latest.rev,
                    NEW preferred \in R!Stores
             PROVE  R!Read(failover, preferred) = latest.rev
  BY DEF R!ReadsLatest
<1> DEFINE answers == {s \in R!ReadFrom(failover) : up[s] /\ stores[s] # 0}
           best == IF answers \subseteq R!ReadLast THEN answers ELSE answers \ R!ReadLast
           reads == IF preferred \in best THEN preferred ELSE CHOOSE s \in best : TRUE
<1>1. R!ReadFrom(failover) \subseteq R!Stores /\ \A s \in R!Stores : stores[s] \in Nat
  BY DEF ReplicasInv, R!TypeOK, R!ReadFrom, R!Stores
<1>2. latest.rev = 0 => \A s \in R!Stores : stores[s] = 0
  BY DEF ReplicasInv, OutboxInv, UploadInv, DeleteInv, CopyInv, AloneInv, R!TypeOK, R!Manifests
<1>3. \A s \in best : stores[s] = latest.rev
  <2>1. CASE latest.rev = 0
    BY <1>1, <1>2, <2>1
  <2>2. CASE latest.rev # 0
    <3>1. PICK ready \in R!ReadFrom(failover) : up[ready] /\ stores[ready] = latest.rev
      BY <2>2
    <3>2. ready \in answers
      BY <2>2, <3>1
    <3>3. CASE manifest.op = "upload"
      <4>1. \A s \in R!Stores \ manifest.pending : stores[s] = latest.rev
        BY <3>3 DEF ReplicasInv, OutboxInv, UploadInv
      <4>2. R!ReadLast = manifest.pending
        BY <3>3 DEF R!ReadLast
      <4>3. PICK whole \in R!Stores : whole \notin manifest.pending
        BY <3>3 DEF ReplicasInv, OutboxInv, UploadInv, R!TypeOK, R!Manifests
      <4>4. CASE answers \subseteq manifest.pending
        BY <1>1, <3>1, <3>2, <4>2, <4>3, <4>4 DEF R!Stores
      <4>5. CASE ~(answers \subseteq manifest.pending)
        BY <1>1, <4>1, <4>2, <4>5
      <4> QED
        BY <4>4, <4>5
    <3>4. CASE manifest.op = "copy"
      BY <1>1, <2>2, <3>4 DEF ReplicasInv, OutboxInv, CopyInv
    <3>5. CASE manifest.op = "none"
      BY <1>1, <2>2, <3>5 DEF ReplicasInv, OutboxInv, AloneInv
    <3>6. manifest.op # "delete"
      BY DEF ReplicasInv, OutboxInv, DeleteInv
    <3> QED
      BY <3>3, <3>4, <3>5, <3>6 DEF ReplicasInv, R!TypeOK, R!Manifests
  <2> QED
    BY <2>1, <2>2
<1>4. best = {} => latest.rev = 0
  BY <1>1
<1>5. best # {} => reads \in best
  OBVIOUS
<1>6. R!Read(failover, preferred) = IF best = {} THEN 0 ELSE stores[reads]
  BY DEF R!Read
<1> QED
  BY <1>3, <1>4, <1>5, <1>6

\* The stores hold what the outbox says, a reader gets the last acknowledged write, and
\* the payload of a pending upload is kept, whatever fails, is lost or dies.
THEOREM ReplicasAgreeCorrect == Spec => []ReplicasAgree
<1>1. ReplicasInv => R!StoresFollowManifest
  BY Constants DEF ReplicasInv, R!StoresFollowManifest, OutboxInv, UploadInv, DeleteInv, CopyInv, AloneInv
<1>2. ReplicasInv => R!PayloadIsKept
  BY DEF ReplicasInv, R!PayloadIsKept, OutboxInv, UploadInv
<1> QED
  BY <1>1, <1>2, ReaderGetsLatest, ReplicasInductive, PTL DEF ReplicasAgree, R!ReplicasAgree

\* A retry or a copy never puts an older revision over a newer one.
LEMMA NeverOlder == ReplicasInv /\ [Next]_<<part, drafts, editorExports, aiEdits, replicas,
                                     generation, accounts, sourceCache, download, workspace, stream>>
                    => [\A s \in R!Stores : stores'[s] = 0 \/ stores'[s] >= stores[s]]_(R!vars)
<1> SUFFICES ASSUME ReplicasInv, R!Next, NEW s \in R!Stores, stores'[s] # stores[s]
             PROVE  stores'[s] = 0 \/ stores'[s] >= stores[s]
  BY DEF Next, replicas, R!vars, ReplicasInv, R!TypeOK
<1>1. CASE \E p \in R!Procs, t \in R!Stores : R!Deliver(p, t)
  <2>1. PICK p \in R!Procs, t \in R!Stores : R!Deliver(p, t)
    BY <1>1
  <2>2. stores' = [stores EXCEPT ![t] = manifest.rev] /\ pc[p] = "apply"
    BY <2>1 DEF R!Deliver
  <2>3. stores'[s] = manifest.rev
    BY <2>2 DEF ReplicasInv, R!TypeOK
  <2>4. manifest.op \in {"upload", "delete"}
    BY <2>2 DEF ReplicasInv, ThreadInv, Applying
  <2> QED
    BY <2>3, <2>4 DEF ReplicasInv, OutboxInv, UploadInv, DeleteInv, R!TypeOK, R!Manifests
<1>2. CASE \E p \in R!Procs : R!CompleteMultipart(p)
  BY <1>2 DEF ReplicasInv, OutboxInv, BrowserInv, R!CompleteMultipart, R!TypeOK
<1>3. CASE \E p \in R!Procs : R!Proceed(p) /\ ~R!CompleteMultipart(p) /\ ~\E t \in R!Stores : R!Deliver(p, t)
  BY <1>3 DEF R!Proceed, R!Acquire, R!SkipLocked, R!Stage, R!SaveManifest, R!SaveTombstone, R!Replace, R!CopyPayload,
     R!Finish, R!SyncPending, R!MirrorExisting, R!CompleteAgain, R!RecordCopy
<1>4. CASE \/ \E p \in R!Procs : R!GiveUp(p) \/ R!Crash(p)
           \/ \E p \in R!Procs, kind \in {"upload", "delete", "complete", "mirror", "sync"} : R!Start(p, kind)
           \/ R!CreateMultipart \/ R!AbortMultipart \/ \E t \in R!Stores : R!ProviderChanges(t)
  BY <1>4 DEF R!GiveUp, R!Crash, R!Start, R!CreateMultipart, R!AbortMultipart, R!ProviderChanges
<1> QED
  BY <1>1, <1>2, <1>3, <1>4 DEF R!Next, R!Procs

\* A retry never puts an older revision of a draft over a newer one.
THEOREM NeverOverwritesNewerCorrect == Spec => R!NeverOverwritesNewer
BY NeverOlder, ReplicasInductive, PTL DEF Spec, R!NeverOverwritesNewer

-----------------------------------------------------------------------------
(* A social account.                                                        *)

Tokens == [grant : 0..MaxGrants, age : 0..MaxRefreshes]
Accounts == [status : {"none", "active", "reauth", "revoked"}, token : Tokens]
Callers == [at : {"rest", "exchange", "store"}, token : Tokens, link : Links \cup {"none"}]
Readers == [at : {"rest", "read", "call", "refreshed", "reauth", "revoke"}, token : Tokens, link : {"none"}]
Enders == [at : {"rest", "read", "revoke"}, token : Tokens, link : {"none"}]
Pasts == [grants : 0..MaxGrants, refreshes : 0..MaxRefreshes, failures : 0..MaxFailures, overlap : BOOLEAN,
          exchanges : [Links -> 0..1]]
AccountTyped ==
    /\ link \in [Links -> {"none", "open", "expired", "consumed", "never"}]
    /\ account \in Accounts /\ live \subseteq 1..MaxGrants
    /\ callback \in [Callbacks -> Callers] /\ use \in [Uses -> Readers] /\ closer \in [Closers -> Enders]
    /\ past \in Pasts

\* Whoever is at work has a token of a grant, and a connected account has one.
HeldInv ==
    /\ account.status \in {"none", "revoked"} => account.token = S!NoToken
    /\ account.status \in {"active", "reauth"} => account.token.grant # 0
    /\ \A u \in Uses : use[u].at # "rest" => use[u].token.grant # 0
    /\ \A c \in Callbacks : callback[c].at = "store" => callback[c].token.grant # 0

\* A link is taken by one callback, and exchanged by nobody before.
TakenInv ==
    \A c \in Callbacks : callback[c].at = "exchange" =>
        /\ callback[c].link \in Links /\ link[callback[c].link] = "consumed"
        /\ past.exchanges[callback[c].link] = 0
        /\ \A e \in Callbacks \ {c} : callback[e].at = "exchange" => callback[e].link # callback[c].link
UnusedInv == \A l \in Links : link[l] \in {"none", "open", "expired"} => past.exchanges[l] = 0
LinkInv == TakenInv /\ UnusedInv

\* Without an overlap, what the requests have read is the grant of the account.
SameGrant ==
    /\ \A u \in Uses : use[u].at # "rest" => use[u].token.grant = account.token.grant
    /\ \A d \in Closers : closer[d].at = "read" => closer[d].token.grant = account.token.grant
SameInv == ~past.overlap /\ account.status \in {"active", "reauth"} => SameGrant

Stored(g) == \E c \in Callbacks : callback[c].at = "store" /\ callback[c].token.grant = g
Revoking(g)  == \E d \in Closers : closer[d].at = "revoke" /\ closer[d].token.grant = g
GrantInv ==
    ~past.overlap /\ past.failures = 0 => \A g \in live : account.token.grant = g \/ Stored(g) \/ Revoking(g)

AccountInv == AccountTyped /\ HeldInv /\ LinkInv /\ SameInv /\ GrantInv

-----------------------------------------------------------------------------
(* Tokens.                                                                  *)

LEMMA RestIs ==
    /\ S!NoToken \in Tokens /\ S!NoToken.grant = 0
    /\ S!Rest \in Callers /\ S!Rest \in Readers /\ S!Rest \in Enders
    /\ S!Rest.at = "rest" /\ S!Rest.token = S!NoToken
BY AccountsAssumption DEF S!NoToken, S!Rest, Tokens, Callers, Readers, Enders

LEMMA FailedIs ==
    ASSUME AccountTyped, S!Fails, S!Failed
    PROVE  /\ past' \in Pasts /\ past'.failures # 0 /\ past'.overlap = past.overlap
           /\ past'.exchanges = past.exchanges
BY AccountsAssumption DEF AccountTyped, Pasts, S!Fails, S!Failed

\* A grant is kept track of as long as its holder does not move.
LEMMA GrantsStay ==
    ASSUME AccountInv, past'.overlap = past.overlap, past'.failures = past.failures,
           live' \subseteq live,
           \A g \in live' : account.token.grant = g \/ Stored(g) \/ Revoking(g)
                            => account'.token.grant = g \/ Stored(g)' \/ Revoking(g)'
    PROVE  GrantInv'
BY DEF AccountInv, GrantInv

-----------------------------------------------------------------------------
(* Connecting.                                                              *)

LEMMA LinkSteps ==
    ASSUME AccountInv, S!Purge \/ \E l \in Links : S!StartConnection(l) \/ S!Expire(l)
    PROVE  AccountInv'
<1>1. UNCHANGED <<account, live, callback, use, closer, past>>
  BY DEF S!Purge, S!StartConnection, S!Expire
<1>2. /\ link' \in [Links -> {"none", "open", "expired", "consumed", "never"}]
      /\ \A l \in Links : /\ link[l] = "consumed" => link'[l] = "consumed"
                          /\ link'[l] \in {"none", "open", "expired"} => link[l] \in {"none", "open", "expired"}
  BY DEF AccountInv, AccountTyped, S!Purge, S!StartConnection, S!Expire
<1>3. AccountTyped' /\ HeldInv' /\ SameInv' /\ GrantInv'
  BY <1>1, <1>2 DEF AccountInv, AccountTyped, HeldInv, SameInv, SameGrant, GrantInv, Stored, Revoking
<1>4. LinkInv'
  BY <1>1, <1>2 DEF AccountInv, LinkInv, TakenInv, UnusedInv
<1> QED
  BY <1>3, <1>4 DEF AccountInv

\* A callback goes on with what it has.
Calls(c, r) == r \in Callers /\ callback' = [callback EXCEPT ![c] = r]

LEMMA CallsDoes ==
    ASSUME AccountInv, NEW c \in Callbacks, NEW r, Calls(c, r)
    PROVE  /\ callback' \in [Callbacks -> Callers] /\ callback'[c] = r
           /\ \A e \in Callbacks \ {c} : callback'[e] = callback[e]
BY DEF AccountInv, AccountTyped, Calls

LEMMA ConsumeKeeps ==
    ASSUME AccountInv, NEW c \in Callbacks, NEW l \in Links, S!Consume(c, l)
    PROVE  AccountInv'
<1> DEFINE r == IF link[l] = "open" THEN [S!Rest EXCEPT !.at = "exchange", !.link = l] ELSE S!Rest
<1>1. /\ r \in Callers /\ r.at \in {"rest", "exchange"}
      /\ r.at = "exchange" => r.link = l /\ link[l] = "open"
  BY RestIs DEF S!Rest, Callers
<1>2. callback' = [callback EXCEPT ![c] = r] /\ callback[c].at = "rest"
      /\ link' = [link EXCEPT ![l] = "consumed"] /\ UNCHANGED <<account, live, use, closer, past>>
  BY DEF S!Consume
<1> HIDE DEF r
<1>3. Calls(c, r)
  BY <1>1, <1>2 DEF Calls
<1>4. /\ link' \in [Links -> {"none", "open", "expired", "consumed", "never"}] /\ link'[l] = "consumed"
      /\ \A k \in Links \ {l} : link'[k] = link[k]
  BY <1>2 DEF AccountInv, AccountTyped
<1>5. AccountTyped' /\ HeldInv' /\ SameInv'
  BY <1>1, <1>2, <1>3, <1>4, CallsDoes DEF AccountInv, AccountTyped, HeldInv, SameInv, SameGrant
<1>6. GrantInv'
  <2>1. \A g \in live : Stored(g) => Stored(g)'
    BY <1>2, <1>3, CallsDoes DEF Stored
  <2>2. \A g \in live : Revoking(g) => Revoking(g)'
    BY <1>2 DEF Revoking
  <2> QED
    BY <1>2, <2>1, <2>2, GrantsStay
<1>7. LinkInv'
  <2>1. UnusedInv'
    BY <1>2, <1>4 DEF AccountInv, LinkInv, UnusedInv
  <2>2. r.at = "exchange" => \A e \in Callbacks \ {c} : callback[e].at = "exchange" => callback[e].link # l
    BY <1>1 DEF AccountInv, LinkInv, TakenInv
  <2>3. r.at = "exchange" => past.exchanges[l] = 0
    BY <1>1 DEF AccountInv, LinkInv, UnusedInv
  <2>4. TakenInv'
    BY <1>1, <1>2, <1>3, <1>4, <2>2, <2>3, CallsDoes DEF AccountInv, LinkInv, TakenInv
  <2> QED
    BY <2>1, <2>4 DEF LinkInv
<1> QED
  BY <1>5, <1>6, <1>7 DEF AccountInv

LEMMA ExchangeKeeps ==
    ASSUME AccountInv, NEW c \in Callbacks, S!Exchange(c)
    PROVE  AccountInv'
<1>1. callback[c].at = "exchange" /\ callback[c] \in Callers /\ past \in Pasts /\ past.grants < MaxGrants
  BY DEF AccountInv, AccountTyped, S!Exchange
<1>2. PICK l \in Links : /\ l = callback[c].link /\ link[l] = "consumed" /\ past.exchanges[l] = 0
                         /\ \A e \in Callbacks \ {c} : callback[e].at = "exchange" => callback[e].link # l
  BY <1>1 DEF AccountInv, LinkInv, TakenInv
<1>3. PICK n \in 1..MaxGrants : n = past.grants + 1
  BY <1>1, AccountsAssumption DEF Pasts
<1> DEFINE t == [grant |-> n, age |-> 0]
           r == [callback[c] EXCEPT !.at = "store", !.token = t]
           x == [past.exchanges EXCEPT ![l] = past.exchanges[l] + 1]
           q == [past EXCEPT !.grants = n, !.exchanges = x]
<1>4. past' = q /\ live' = live \cup {n} /\ callback' = [callback EXCEPT ![c] = r]
      /\ UNCHANGED <<link, account, use, closer>>
  BY <1>2, <1>3 DEF S!Exchange
<1>5. r \in Callers /\ r.at = "store" /\ r.token.grant = n
  <2>1. t \in Tokens /\ t.grant = n
    BY <1>3, AccountsAssumption DEF Tokens
  <2> HIDE DEF t
  <2> QED
    BY <1>1, <2>1 DEF Callers
<1>6. /\ q \in Pasts /\ q.overlap = past.overlap /\ q.failures = past.failures
      /\ q.exchanges[l] = 1 /\ \A k \in Links \ {l} : q.exchanges[k] = past.exchanges[k]
  <2>1. x \in [Links -> 0..1] /\ x[l] = 1 /\ \A k \in Links \ {l} : x[k] = past.exchanges[k]
    BY <1>1, <1>2 DEF Pasts
  <2> HIDE DEF x
  <2>2. n \in 0..MaxGrants
    BY <1>3
  <2> QED
    BY <1>1, <2>1, <2>2 DEF Pasts
<1> HIDE DEF r, q
<1>7. Calls(c, r)
  BY <1>4, <1>5 DEF Calls
<1>8. AccountTyped'
  BY <1>3, <1>4, <1>6, <1>7, CallsDoes DEF AccountInv, AccountTyped
<1>9. HeldInv' /\ SameInv'
  BY <1>3, <1>4, <1>5, <1>6, <1>7, CallsDoes DEF AccountInv, HeldInv, SameInv, SameGrant
<1>10. LinkInv'
  BY <1>1, <1>2, <1>4, <1>5, <1>6, <1>7, CallsDoes DEF AccountInv, LinkInv, TakenInv, UnusedInv
<1>11. GrantInv'
  <2>1. Stored(n)'
    BY <1>5, <1>7, CallsDoes DEF Stored
  <2>2. \A g \in live : (Stored(g) => Stored(g)') /\ (Revoking(g) => Revoking(g)')
    BY <1>1, <1>4, <1>7, CallsDoes DEF Stored, Revoking
  <2> QED
    BY <1>4, <1>6, <2>1, <2>2 DEF AccountInv, GrantInv
<1> QED
  BY <1>8, <1>9, <1>10, <1>11 DEF AccountInv

\* Nothing happened, or one more failure.
Suffers == past' \in Pasts /\ past'.overlap = past.overlap /\ past'.exchanges = past.exchanges
           /\ (past'.failures = past.failures \/ past'.failures # 0)

\* A callback that gives up its link, or its grant with a failure.
LEMMA ExchangeFailsKeeps ==
    ASSUME AccountInv, NEW c \in Callbacks, S!ExchangeFails(c)
    PROVE  AccountInv'
<1>1. Calls(c, S!Rest) /\ UNCHANGED <<link, account, live, use, closer>>
  BY RestIs DEF S!ExchangeFails, Calls
<1>2. Suffers /\ (callback[c].at = "store" => past'.failures # 0)
  BY FailedIs DEF S!ExchangeFails, Suffers, AccountInv, AccountTyped
<1>3. AccountTyped' /\ HeldInv' /\ SameInv' /\ LinkInv'
  BY <1>1, <1>2, CallsDoes, RestIs
  DEF AccountInv, AccountTyped, HeldInv, SameInv, SameGrant, LinkInv, TakenInv, UnusedInv, Suffers
<1>4. GrantInv'
  <2>1. past'.failures = 0 => \A g \in live : (Stored(g) => Stored(g)') /\ (Revoking(g) => Revoking(g)')
    BY <1>1, <1>2, CallsDoes DEF Stored, Revoking
  <2> QED
    BY <1>1, <1>2, <2>1 DEF AccountInv, GrantInv, Suffers
<1> QED
  BY <1>3, <1>4 DEF AccountInv

\* The account is connected, or is again.
LEMMA UpsertKeeps ==
    ASSUME AccountInv, NEW c \in Callbacks, S!Upsert(c)
    PROVE  AccountInv'
<1> DEFINE a == [status |-> "active", token |-> callback[c].token]
           meets == S!Busy \/ account.status \in {"active", "reauth"}
           q == [past EXCEPT !.overlap = @ \/ meets]
<1>1. /\ callback[c].at = "store" /\ callback[c] \in Callers /\ past \in Pasts
      /\ callback[c].token.grant # 0
  BY DEF AccountInv, AccountTyped, HeldInv, S!Upsert
<1>2. a \in Accounts /\ a.status = "active" /\ a.token = callback[c].token
  BY <1>1 DEF Callers, Accounts
<1>3. account' = a /\ Calls(c, S!Rest) /\ past' = q /\ UNCHANGED <<link, live, use, closer>>
  BY RestIs DEF S!Upsert, Calls
<1>4. meets \in BOOLEAN
      /\ (~meets => (\A u \in Uses : use[u].at = "rest") /\ (\A d \in Closers : closer[d].at = "rest")
                    /\ account.status \in {"none", "revoked"})
  BY DEF S!Busy, AccountInv, AccountTyped, Accounts
<1> HIDE DEF meets
<1>5. /\ q \in Pasts /\ (q.overlap <=> past.overlap \/ meets) /\ q.failures = past.failures
      /\ q.exchanges = past.exchanges
  BY <1>1, <1>4 DEF Pasts
<1> HIDE DEF q, a
<1>6. AccountTyped' /\ HeldInv'
  BY <1>1, <1>2, <1>3, <1>5, CallsDoes, RestIs DEF AccountInv, AccountTyped, HeldInv
<1>7. LinkInv'
  BY <1>3, <1>5, CallsDoes, RestIs DEF AccountInv, LinkInv, TakenInv, UnusedInv
<1>8. SameInv'
  BY <1>3, <1>4, <1>5 DEF SameInv, SameGrant
<1>9. GrantInv'
  <2> SUFFICES ASSUME ~past'.overlap, past'.failures = 0, NEW g \in live
               PROVE  account'.token.grant = g \/ Stored(g)' \/ Revoking(g)'
    BY <1>3 DEF GrantInv
  <2>1. ~past.overlap /\ past.failures = 0 /\ ~meets
    BY <1>3, <1>5
  <2>2. account.token.grant = 0 /\ g # 0
    BY <1>4, <2>1, RestIs DEF AccountInv, AccountTyped, HeldInv
  <2>3. Stored(g) \/ Revoking(g)
    BY <2>1, <2>2 DEF AccountInv, GrantInv
  <2>4. Stored(g) => account'.token.grant = g \/ Stored(g)'
    BY <1>2, <1>3, CallsDoes DEF Stored
  <2>5. Revoking(g) => Revoking(g)'
    BY <1>3 DEF Revoking
  <2> QED
    BY <2>3, <2>4, <2>5
<1> QED
  BY <1>6, <1>7, <1>8, <1>9 DEF AccountInv

-----------------------------------------------------------------------------
(* Using it.                                                                *)

Reads(u, r) == r \in Readers /\ use' = [use EXCEPT ![u] = r]

LEMMA ReadsDoes ==
    ASSUME AccountInv, NEW u \in Uses, NEW r, Reads(u, r)
    PROVE  /\ use' \in [Uses -> Readers] /\ use'[u] = r
           /\ \A e \in Uses \ {u} : use'[e] = use[e]
BY DEF AccountInv, AccountTyped, Reads

\* A use goes on with a token of the same grant as before, or of the account.
LEMMA UseKeeps ==
    ASSUME AccountInv, NEW u \in Uses, NEW r, Reads(u, r),
           r.at # "rest" => \/ use[u].at # "rest" /\ r.token.grant = use[u].token.grant
                            \/ account.status \in {"active", "reauth"} /\ r.token.grant = account.token.grant,
           UNCHANGED <<link, account, callback, closer>>, live' \subseteq live, Suffers
    PROVE  AccountInv'
<1>1. AccountTyped'
  BY ReadsDoes DEF AccountInv, AccountTyped, Suffers
<1>2. HeldInv'
  BY ReadsDoes DEF AccountInv, HeldInv
<1>3. SameInv'
  BY ReadsDoes DEF AccountInv, SameInv, SameGrant, Suffers
<1>4. LinkInv' /\ GrantInv'
  BY DEF AccountInv, LinkInv, TakenInv, UnusedInv, GrantInv, Stored, Revoking, Suffers
<1> QED
  BY <1>1, <1>2, <1>3, <1>4 DEF AccountInv

LEMMA UseSteps ==
    ASSUME AccountInv, NEW u \in Uses,
           S!ReadAccount(u) \/ S!Fresh(u) \/ S!Refresh(u) \/ S!RevokeFresh(u) \/ S!Call(u)
    PROVE  AccountInv'
<1>1. use[u] \in Readers /\ account \in Accounts /\ past \in Pasts
  BY DEF AccountInv, AccountTyped
<1>2. CASE S!ReadAccount(u)
  <2> DEFINE r == [S!Rest EXCEPT !.at = "read", !.token = account.token]
  <2>1. r \in Readers /\ r.token = account.token
    BY <1>1, RestIs DEF Readers, Accounts
  <2>2. use' = [use EXCEPT ![u] = r] /\ account.status \in {"active", "reauth"}
    BY <1>2 DEF S!ReadAccount, S!Connected
  <2> HIDE DEF r
  <2> QED
    BY <1>1, <1>2, <2>1, <2>2, UseKeeps DEF S!ReadAccount, Reads, Suffers
<1>3. CASE S!Fresh(u)
  <2> DEFINE r == [use[u] EXCEPT !.at = "call"]
  <2>1. r \in Readers /\ r.token = use[u].token
    BY <1>1 DEF Readers
  <2>2. use' = [use EXCEPT ![u] = r] /\ use[u].at # "rest"
    BY <1>3 DEF S!Fresh
  <2> HIDE DEF r
  <2> QED
    BY <1>1, <1>3, <2>1, <2>2, UseKeeps DEF S!Fresh, Reads, Suffers
<1>4. CASE S!Refresh(u)
  <2>1. PICK step \in {"refreshed", "reauth"} : step = IF use[u].token.grant \in live THEN "refreshed" ELSE "reauth"
    OBVIOUS
  <2>2. PICK n \in 0..MaxRefreshes : n = past.refreshes + 1
    BY <1>1, <1>4, AccountsAssumption DEF S!Refresh, Pasts
  <2> DEFINE t == [use[u].token EXCEPT !.age = n]
             r == [use[u] EXCEPT !.at = step, !.token = t]
             q == [past EXCEPT !.refreshes = n]
  <2>3. t \in Tokens /\ t.grant = use[u].token.grant
    BY <1>1 DEF Readers, Tokens
  <2>4. use' = [use EXCEPT ![u] = r] /\ past' = q /\ use[u].at # "rest"
    BY <1>4, <2>1, <2>2 DEF S!Refresh
  <2> HIDE DEF t
  <2>5. r \in Readers /\ r.token = t
    BY <1>1, <2>3 DEF Readers
  <2>6. q \in Pasts /\ q.overlap = past.overlap /\ q.failures = past.failures /\ q.exchanges = past.exchanges
    BY <1>1 DEF Pasts
  <2> HIDE DEF r, q
  <2>7. Reads(u, r) /\ Suffers /\ UNCHANGED <<link, account, callback, closer, live>>
    BY <1>4, <2>4, <2>5, <2>6 DEF S!Refresh, Reads, Suffers
  <2> QED
    BY <2>3, <2>4, <2>5, <2>7, UseKeeps
<1>5. CASE S!RevokeFresh(u)
  <2>1. Suffers
    BY <1>1, <1>5, FailedIs DEF S!RevokeFresh, Suffers, AccountInv
  <2>2. Reads(u, S!Rest) /\ live' \subseteq live /\ UNCHANGED <<link, account, callback, closer>>
    BY <1>5, RestIs DEF S!RevokeFresh, Reads
  <2> QED
    BY <2>1, <2>2, RestIs, UseKeeps
<1>6. CASE S!Call(u)
  <2> DEFINE after == [use[u] EXCEPT !.at = "reauth"]
             r == IF use[u].token.grant \in live THEN S!Rest ELSE after
  <2>1. after \in Readers /\ after.token = use[u].token
    BY <1>1 DEF Readers
  <2>2. use' = [use EXCEPT ![u] = r] /\ use[u].at # "rest"
    BY <1>6 DEF S!Call
  <2> HIDE DEF after
  <2>3. r \in Readers /\ (r.at # "rest" => r.token = use[u].token)
    BY <2>1, RestIs
  <2> HIDE DEF r
  <2> QED
    BY <1>1, <1>6, <2>2, <2>3, UseKeeps DEF S!Call, Reads, Suffers
<1> QED
  BY <1>2, <1>3, <1>4, <1>5, <1>6

\* A use whose account may have been disconnected meanwhile, and then changes nothing.
LEMMA AccountSteps ==
    ASSUME AccountInv, NEW u \in Uses, S!StoreTokens(u) \/ S!SetStatus(u)
    PROVE  AccountInv'
<1>1. use[u] \in Readers /\ account \in Accounts /\ past \in Pasts /\ use[u].at # "rest" /\ use[u].token.grant # 0
      /\ UNCHANGED <<link, live, callback, closer, past>>
  BY DEF AccountInv, AccountTyped, HeldInv, S!StoreTokens, S!SetStatus
<1>2. Suffers
  BY <1>1 DEF Suffers
<1>3. \E r : Reads(u, r) /\ (r.at # "rest" => r.token.grant = use[u].token.grant)
  <2>1. CASE S!StoreTokens(u)
    <3>1. PICK step \in {"call", "revoke"} : step = IF S!Connected THEN "call" ELSE "revoke"
      OBVIOUS
    <3> DEFINE r == [use[u] EXCEPT !.at = step]
    <3>2. r \in Readers /\ r.token = use[u].token
      BY <1>1 DEF Readers
    <3>3. use' = [use EXCEPT ![u] = r]
      BY <2>1, <3>1 DEF S!StoreTokens
    <3> HIDE DEF r
    <3> QED
      BY <3>2, <3>3 DEF Reads
  <2>2. CASE S!SetStatus(u)
    BY <2>2, RestIs DEF S!SetStatus, Reads
  <2> QED
    BY <2>1, <2>2
<1>4. PICK r : Reads(u, r) /\ (r.at # "rest" => r.token.grant = use[u].token.grant)
  BY <1>3
<1>5. CASE account' = account
  BY <1>1, <1>2, <1>4, <1>5, UseKeeps
<1>6. CASE account' # account
  <2>1. account.status \in {"active", "reauth"}
    BY <1>6 DEF S!StoreTokens, S!SetStatus, S!Connected
  <2>2. /\ account' \in Accounts /\ account'.status \in {"active", "reauth"}
        /\ account'.token.grant \in {use[u].token.grant, account.token.grant}
    <3>1. CASE S!StoreTokens(u)
      BY <1>1, <1>6, <3>1 DEF S!StoreTokens, Accounts, Readers
    <3>2. CASE S!SetStatus(u)
      BY <1>1, <1>6, <3>2 DEF S!SetStatus, Accounts
    <3> QED
      BY <3>1, <3>2
  <2>3. ~past.overlap => account'.token.grant = account.token.grant
    BY <1>1, <2>1, <2>2 DEF AccountInv, SameInv, SameGrant
  <2>4. AccountTyped'
    BY <1>1, <1>4, <2>2, ReadsDoes DEF AccountInv, AccountTyped
  <2>5. HeldInv'
    BY <1>1, <1>4, <2>1, <2>2, ReadsDoes DEF AccountInv, HeldInv
  <2>6. SameInv'
    BY <1>1, <1>4, <2>1, <2>3, ReadsDoes DEF AccountInv, SameInv, SameGrant
  <2>7. LinkInv' /\ GrantInv'
    BY <1>1, <2>3 DEF AccountInv, LinkInv, TakenInv, UnusedInv, GrantInv, Stored, Revoking
  <2> QED
    BY <2>4, <2>5, <2>6, <2>7 DEF AccountInv
<1> QED
  BY <1>5, <1>6

LEMMA GrantEndsKeeps ==
    ASSUME AccountInv, NEW g, S!GrantEnds(g)
    PROVE  AccountInv'
<1>1. /\ past' \in Pasts /\ past'.failures # 0 /\ past'.overlap = past.overlap
      /\ past'.exchanges = past.exchanges
  BY FailedIs DEF S!GrantEnds, AccountInv
<1>2. live' \subseteq live /\ UNCHANGED <<link, account, callback, use, closer>>
  BY DEF S!GrantEnds
<1> QED
  BY <1>1, <1>2
  DEF AccountInv, AccountTyped, HeldInv, SameInv, SameGrant, LinkInv, TakenInv, UnusedInv, GrantInv

-----------------------------------------------------------------------------
(* Disconnecting.                                                           *)

Closes(d, r) == r \in Enders /\ closer' = [closer EXCEPT ![d] = r]

LEMMA ClosesDoes ==
    ASSUME AccountInv, NEW d \in Closers, NEW r, Closes(d, r)
    PROVE  /\ closer' \in [Closers -> Enders] /\ closer'[d] = r
           /\ \A e \in Closers \ {d} : closer'[e] = closer[e]
BY DEF AccountInv, AccountTyped, Closes

LEMMA DisconnectReadKeeps ==
    ASSUME AccountInv, NEW d \in Closers, S!DisconnectRead(d)
    PROVE  AccountInv'
<1> DEFINE r == [S!Rest EXCEPT !.at = "read", !.token = account.token]
<1>1. r \in Enders /\ r.at = "read" /\ r.token = account.token
  BY RestIs DEF Enders, Accounts, AccountInv, AccountTyped
<1>2. closer' = [closer EXCEPT ![d] = r] /\ closer[d].at = "rest" /\ UNCHANGED <<link, account, live, callback, use, past>>
  BY DEF S!DisconnectRead
<1> HIDE DEF r
<1>3. Closes(d, r)
  BY <1>1, <1>2 DEF Closes
<1>4. AccountTyped' /\ HeldInv' /\ LinkInv'
  BY <1>2, <1>3, ClosesDoes DEF AccountInv, AccountTyped, HeldInv, LinkInv, TakenInv, UnusedInv
<1>5. SameInv'
  BY <1>1, <1>2, <1>3, ClosesDoes DEF AccountInv, SameInv, SameGrant
<1>6. GrantInv'
  <2>1. \A g \in live : (Stored(g) => Stored(g)') /\ (Revoking(g) => Revoking(g)')
    BY <1>2, <1>3, ClosesDoes DEF Stored, Revoking
  <2> QED
    BY <1>2, <2>1 DEF AccountInv, GrantInv
<1> QED
  BY <1>4, <1>5, <1>6 DEF AccountInv

\* The tokens go from the row into the hands of the request that ends their grant.
LEMMA RevokeAccountKeeps ==
    ASSUME AccountInv, NEW d \in Closers, S!RevokeAccount(d)
    PROVE  AccountInv'
<1>1. closer[d] \in Enders /\ account \in Accounts /\ closer[d].at = "read"
      /\ UNCHANGED <<link, live, callback, use, past>>
  BY DEF AccountInv, AccountTyped, S!RevokeAccount
<1>2. CASE ~S!Connected
  <2>1. Closes(d, S!Rest) /\ account' = account
    BY <1>2, RestIs DEF S!RevokeAccount, Closes
  <2>2. AccountTyped' /\ HeldInv' /\ LinkInv' /\ SameInv'
    BY <1>1, <2>1, ClosesDoes, RestIs
    DEF AccountInv, AccountTyped, HeldInv, LinkInv, TakenInv, UnusedInv, SameInv, SameGrant
  <2>3. \A g \in live : (Stored(g) => Stored(g)') /\ (Revoking(g) => Revoking(g)')
    BY <1>1, <2>1, ClosesDoes DEF Stored, Revoking
  <2>4. GrantInv'
    BY <1>1, <2>1, <2>3 DEF AccountInv, GrantInv
  <2> QED
    BY <2>2, <2>4 DEF AccountInv
<1>3. CASE S!Connected
  <2> DEFINE r == [closer[d] EXCEPT !.at = "revoke"]
             a == [status |-> "revoked", token |-> S!NoToken]
  <2>1. r \in Enders /\ r.at = "revoke" /\ r.token = closer[d].token
    BY <1>1 DEF Enders
  <2>2. a \in Accounts /\ a.status = "revoked" /\ a.token = S!NoToken
    BY RestIs DEF Accounts
  <2>3. closer' = [closer EXCEPT ![d] = r] /\ account' = a
    BY <1>3 DEF S!RevokeAccount
  <2> HIDE DEF r, a
  <2>4. Closes(d, r)
    BY <2>1, <2>3 DEF Closes
  <2>5. AccountTyped' /\ HeldInv' /\ LinkInv'
    BY <1>1, <2>2, <2>3, <2>4, ClosesDoes DEF AccountInv, AccountTyped, HeldInv, LinkInv, TakenInv, UnusedInv
  <2>6. SameInv'
    BY <2>2, <2>3 DEF SameInv
  <2>7. GrantInv'
    <3>1. ~past.overlap => r.token.grant = account.token.grant
      BY <1>1, <1>3, <2>1 DEF AccountInv, SameInv, SameGrant, S!Connected
    <3>2. \A g \in live : (Stored(g) => Stored(g)') /\ (Revoking(g) => Revoking(g)')
      BY <1>1, <2>4, ClosesDoes DEF Stored, Revoking
    <3>3. \A g \in live : r.token.grant = g => Revoking(g)'
      BY <2>1, <2>4, ClosesDoes DEF Revoking
    <3> QED
      BY <1>1, <3>1, <3>2, <3>3 DEF AccountInv, GrantInv
  <2> QED
    BY <2>5, <2>6, <2>7 DEF AccountInv
<1> QED
  BY <1>2, <1>3

LEMMA RevokeAtProviderKeeps ==
    ASSUME AccountInv, NEW d \in Closers, S!RevokeAtProvider(d)
    PROVE  AccountInv'
<1>1. Closes(d, S!Rest) /\ UNCHANGED <<link, account, callback, use>> /\ closer[d].at = "revoke" /\ live' \subseteq live
  BY RestIs DEF S!RevokeAtProvider, Closes
<1>2. Suffers /\ (past'.failures = 0 => live' = live \ {closer[d].token.grant} /\ past' = past)
  BY FailedIs DEF S!RevokeAtProvider, Suffers, AccountInv, AccountTyped
<1>3. AccountTyped' /\ HeldInv' /\ LinkInv' /\ SameInv'
  BY <1>1, <1>2, ClosesDoes, RestIs
  DEF AccountInv, AccountTyped, HeldInv, LinkInv, TakenInv, UnusedInv, SameInv, SameGrant, Suffers
<1>4. GrantInv'
  <2>1. past'.failures = 0 => \A g \in live' : (Stored(g) => Stored(g)') /\ (Revoking(g) => Revoking(g)')
    BY <1>1, <1>2, ClosesDoes DEF Stored, Revoking
  <2> QED
    BY <1>1, <1>2, <2>1 DEF AccountInv, GrantInv
<1> QED
  BY <1>3, <1>4 DEF AccountInv

-----------------------------------------------------------------------------
(* The theorems.                                                            *)

LEMMA AccountNextKeeps ==
    ASSUME AccountInv, S!Next
    PROVE  AccountInv'
<1>1. ASSUME NEW c \in Callbacks, (\E l \in Links : S!Consume(c, l)) \/ S!Exchange(c) \/ S!ExchangeFails(c) \/ S!Upsert(c)
      PROVE  AccountInv'
  BY <1>1, ConsumeKeeps, ExchangeKeeps, ExchangeFailsKeeps, UpsertKeeps
<1>2. ASSUME NEW u \in Uses, \/ S!ReadAccount(u) \/ S!Fresh(u) \/ S!Refresh(u) \/ S!StoreTokens(u) \/ S!RevokeFresh(u)
                             \/ S!Call(u) \/ S!SetStatus(u)
      PROVE  AccountInv'
  BY <1>2, UseSteps, AccountSteps
<1>3. ASSUME NEW d \in Closers, S!DisconnectRead(d) \/ S!RevokeAccount(d) \/ S!RevokeAtProvider(d)
      PROVE  AccountInv'
  BY <1>3, DisconnectReadKeeps, RevokeAccountKeeps, RevokeAtProviderKeeps
<1> QED
  BY <1>1, <1>2, <1>3, LinkSteps, GrantEndsKeeps DEF S!Next

LEMMA AccountInitHolds == Init => AccountInv
<1> SUFFICES ASSUME NEW s \in {"none", "never"}, S!StartIn(s) PROVE AccountInv
  BY DEF Init, S!Init, S!Gone
<1>1. past \in Pasts /\ past.exchanges = [l \in Links |-> 0]
  BY AccountsAssumption DEF S!StartIn, Pasts
<1>2. account \in Accounts /\ account.status = "none" /\ account.token = S!NoToken
  BY RestIs DEF S!StartIn, Accounts
<1>3. AccountTyped
  BY <1>1, <1>2, RestIs DEF S!StartIn, AccountTyped
<1>4. HeldInv /\ LinkInv /\ SameInv /\ GrantInv
  BY <1>1, <1>2, RestIs DEF S!StartIn, HeldInv, LinkInv, TakenInv, UnusedInv, SameInv, GrantInv
<1> QED
  BY <1>3, <1>4 DEF AccountInv

\* The tokens in the account, in the hands of its requests and alive at the platform stay
\* accounted for, whatever sign-in, use or disconnect takes the next step.
THEOREM AccountInductive == Spec => []AccountInv
<1>1. AccountInv /\ UNCHANGED accounts => AccountInv'
  BY DEF AccountInv, AccountTyped, HeldInv, LinkInv, TakenInv, UnusedInv, SameInv, SameGrant, GrantInv, Stored, Revoking, accounts
<1>2. AccountInv /\ [Next]_<<part, drafts, editorExports, aiEdits, replicas,
                             generation, accounts, sourceCache, download, workspace, stream>> => AccountInv'
  BY <1>1, AccountNextKeeps DEF Next
<1> QED
  BY <1>2, AccountInitHolds, PTL DEF Spec

\* A disconnected account has no tokens, no sign-in link connects twice, and no grant the
\* account had outlives a disconnect that met no sign-in and no failure.
THEOREM DisconnectIsFinalCorrect == Spec => []DisconnectIsFinal
<1>1. AccountInv => S!DisconnectIsFinal
  <2> SUFFICES ASSUME AccountInv PROVE S!DisconnectIsFinal
    OBVIOUS
  <2>1. account.status \in {"none", "revoked"} <=> account.token = S!NoToken
    BY RestIs DEF AccountInv, AccountTyped, Accounts, HeldInv
  <2>2. \A l \in Links : past.exchanges[l] <= 1
    BY DEF AccountInv, AccountTyped, Pasts
  <2>3. S!Quiet /\ account.status = "revoked" /\ past.failures = 0 /\ ~past.overlap => live = {}
    BY RestIs DEF AccountInv, AccountTyped, HeldInv, GrantInv, Stored, Revoking, S!Quiet, S!Busy
  <2> QED
    BY <2>1, <2>2, <2>3 DEF S!DisconnectIsFinal
<1> QED
  BY <1>1, AccountInductive, PTL DEF DisconnectIsFinal

\* Only a sign-in brings a disconnected account back.
THEOREM OnlySignInReconnectsCorrect == Spec => S!OnlySignInReconnects
<1>1. [Next]_<<part, drafts, editorExports, aiEdits, replicas,
               generation, accounts, sourceCache, download, workspace, stream>>
      => [account.status = "revoked" /\ account'.status # "revoked" =>
            \E c \in Callbacks : callback[c].at = "store" /\ account'.token = callback[c].token]_(S!avars)
  <2> SUFFICES ASSUME S!Next, account.status = "revoked", account'.status # "revoked"
               PROVE  \E c \in Callbacks : callback[c].at = "store" /\ account'.token = callback[c].token
    BY DEF Next, accounts, S!avars
  <2>1. PICK c \in Callbacks : S!Upsert(c)
    BY DEF S!Next, S!Purge, S!StartConnection, S!Expire, S!Consume, S!Exchange, S!ExchangeFails, S!ReadAccount, S!Fresh,
       S!Refresh, S!StoreTokens, S!RevokeFresh, S!Call, S!SetStatus, S!GrantEnds, S!DisconnectRead, S!RevokeAccount,
       S!RevokeAtProvider, S!Connected
  <2> QED
    BY <2>1 DEF S!Upsert
<1> QED
  BY <1>1, PTL DEF Spec, S!OnlySignInReconnects

LEMMA ServicesTyped == ReplicasInv /\ AccountInv => R!TypeOK /\ S!TypeOK
<1> SUFFICES ASSUME ReplicasInv, AccountInv PROVE R!TypeOK /\ S!TypeOK
  OBVIOUS
<1>1. R!TypeOK
  BY DEF ReplicasInv
<1>2. S!TypeOK
  BY DEF AccountInv, AccountTyped, Accounts, Tokens, S!TypeOK
<1> QED
  BY <1>1, <1>2
=============================================================================
