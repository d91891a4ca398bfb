--------------------------- MODULE ClipsSourcesProofs ---------------------------
(***************************************************************************)
(* Proofs about the sources taken from a video site, in the behaviours of  *)
(* ClipParts: the cache their jobs share (SourceCache) and what the        *)
(* submissions, charges and retries of one download do (SourceDownload),   *)
(* for any number of jobs, heights, sections, expiries and failures.  Jobs *)
(* write in a directory under its lock, so what each one knows of it stays *)
(* so until it lets go.                                                    *)
(***************************************************************************)
EXTENDS ClipParts, FiniteSetTheorems, WellFoundedInduction, TLAPS

-----------------------------------------------------------------------------
(* The cache of a source.                                                  *)

Copies == {"none", "partial", "whole"}
Manifests == [audio : BOOLEAN, full : Heights \cup {0}, parts : SUBSET Parts]
Directories == [era : Nat, saved : BOOLEAN, old : BOOLEAN, manifest : Manifests,
                audio : Copies, full : [Heights -> Copies], part : [Parts -> Copies]]
Remotes == [saved : BOOLEAN, manifest : Manifests, audio : BOOLEAN, full : SUBSET Heights, parts : SUBSET Parts]
Working == {"hearing", "fill", "slicing", "adopting"}
Entering == {"audio", "sections", "cover", "resolve", "adopt"}
CacheJobs == [at : {"rest", "use", "publish", "assemble", "download"} \cup Entering \cup Working,
              locked : BOOLEAN, era : Nat, height : Heights \cup {0}, sections : BOOLEAN, todo : SUBSET Parts,
              source : [full : Heights \cup {0}, parts : [Parts -> Copies]],
              then : {"rest", "sections", "use"}]
Troubles == [begins : Nat, failures : Nat, unrestored : BOOLEAN, swept : BOOLEAN]
CacheTyped ==
    /\ dir \in Directories /\ remote \in Remotes
    /\ cacheJob \in [Jobs -> CacheJobs] /\ trouble \in Troubles

\* A job writes under the lock of the directory it opened, and what it renders from is as
\* high as it asked for.
Renders(r) == r.at = "use" \/ (r.at = "publish" /\ r.then = "use")
JobSound(r) ==
    /\ r.locked => r.at \in Entering \cup Working
    /\ r.at \in Working => r.locked
    /\ r.at # "rest" => r.height # 0
    /\ r.at = "slicing" => r.todo # {}
    /\ r.source.full # 0 => r.height <= r.source.full /\ Renders(r)
    /\ r.at = "publish" /\ r.then = "use" => r.source.full # 0
JobsSound == \A j \in Jobs : JobSound(cacheJob[j]) /\ cacheJob[j].era <= dir.era
OneHolder ==
    \A j \in Jobs : \A k \in Jobs :
        j # k /\ cacheJob[j].locked /\ cacheJob[k].locked => cacheJob[j].era # cacheJob[k].era

\* As long as no directory went from under a job, and no listed file was missing.
Calm == ~trouble.unrestored /\ ~trouble.swept
HeldHere == \A j \in Jobs : cacheJob[j].locked => cacheJob[j].era = dir.era
ListedWhole(d) ==
    /\ d.manifest.full # 0 => d.full[d.manifest.full] = "whole"
    /\ \A p \in d.manifest.parts : d.part[p] = "whole"
NothingUnsaved ==
    /\ ~dir.saved => dir.manifest = Y!Empty
    /\ ~dir.saved /\ remote.saved => dir.full = Y!NoFull /\ dir.part = Y!NoParts
RestoredFirst == \A j \in Jobs : cacheJob[j].locked /\ cacheJob[j].at # "cover" => dir.saved \/ ~remote.saved
JobCalm(d, r) ==
    /\ r.at \in {"fill", "slicing"} => r.todo \cap d.manifest.parts = {}
    /\ r.at = "adopting" => d.manifest.full < r.height
    /\ r.at = "assemble" => d.manifest.parts = Parts
    /\ Renders(r) /\ r.source.full = 0 => \A p \in Parts : r.source.parts[p] = "whole"
    /\ Renders(r) /\ r.source.full # 0 /\ r.era = d.era =>
         r.source.full <= d.manifest.full /\ d.full[r.source.full] = "whole"
CalmInv ==
    Calm => /\ HeldHere /\ ListedWhole(dir) /\ NothingUnsaved /\ RestoredFirst
            /\ \A j \in Jobs : JobCalm(dir, cacheJob[j])
CacheInv == CacheTyped /\ JobsSound /\ OneHolder /\ CalmInv


-----------------------------------------------------------------------------
(* The least of a set of numbers.                                           *)

LessThan == {p \in Nat \X Nat : p[1] < p[2]}
LEMMA LessIsWellFounded == IsWellFoundedOn(LessThan, Nat)
BY NatLessThanWellFounded DEF OpToRel, LessThan

\* The section to download next is one of those to do.
LEMMA SliceIs ==
    ASSUME CacheTyped, NEW j \in Jobs, cacheJob[j].todo # {}
    PROVE  Y!Slice(j) \in cacheJob[j].todo /\ Y!Slice(j) \in Parts
<1> DEFINE todo == cacheJob[j].todo
<1>1. todo \subseteq Parts /\ todo \subseteq Nat /\ todo # {}
  BY SourcesAssumption DEF CacheTyped, CacheJobs
<1> HIDE DEF todo
<1>2. PICK p \in todo : \A q \in todo : <<q, p>> \notin LessThan
  BY <1>1, LessIsWellFounded, WFMin
<1>3. \A q \in todo : p <= q
  <2> SUFFICES ASSUME NEW q \in todo PROVE p <= q
    OBVIOUS
  <2>1. p \in Nat /\ q \in Nat
    BY <1>1
  <2>2. ~(q < p)
    BY <1>2, <2>1 DEF LessThan
  <2> QED
    BY <2>1, <2>2
<1>4. \E q \in todo : \A s \in todo : q <= s
  BY <1>3
<1>5. (CHOOSE q \in todo : \A s \in todo : q <= s) \in todo
  BY <1>4
<1>6. Y!Slice(j) \in todo
  BY <1>5 DEF Y!Slice, todo
<1> QED
  BY <1>1, <1>6 DEF todo

-----------------------------------------------------------------------------
(* Steps of one job.                                                        *)

Sets(j, r) == r \in CacheJobs /\ cacheJob' = [cacheJob EXCEPT ![j] = r]
LEMMA SetsDoes ==
    ASSUME CacheTyped, NEW j \in Jobs, NEW r, Sets(j, r)
    PROVE  /\ cacheJob' \in [Jobs -> CacheJobs] /\ cacheJob'[j] = r
           /\ \A k \in Jobs \ {j} : cacheJob'[k] = cacheJob[k]
BY DEF CacheTyped, Sets

\* The lock is kept, given up, or taken when it is free.
Locks(j, r) ==
    r.locked => \/ cacheJob[j].locked /\ r.era = cacheJob[j].era
                \/ Y!Free /\ r.era = dir.era
LEMMA StepSound ==
    ASSUME CacheInv, NEW j \in Jobs, NEW r, Sets(j, r), JobSound(r), Locks(j, r),
           dir' \in Directories, dir.era <= dir'.era, r.era <= dir'.era
    PROVE  JobsSound' /\ OneHolder'
<1>1. JobsSound'
  <2> SUFFICES ASSUME NEW k \in Jobs PROVE JobSound(cacheJob'[k]) /\ cacheJob'[k].era <= dir'.era
    BY DEF JobsSound, JobSound
  <2>1. cacheJob[k].era \in Nat /\ dir.era \in Nat /\ dir'.era \in Nat
    BY DEF CacheInv, CacheTyped, CacheJobs, Directories
  <2> QED
    BY <2>1, SetsDoes DEF CacheInv, JobsSound
<1>2. OneHolder'
  BY SetsDoes DEF CacheInv, CacheTyped, OneHolder, Locks, Y!Free
<1> QED
  BY <1>1, <1>2

\* What is listed stays, and so does what a job renders from.
DirGrows(d) ==
    /\ d \in Directories /\ d.era = dir.era /\ (dir.saved => d.saved)
    /\ dir.manifest.parts = Parts => d.manifest.parts = Parts
    /\ dir.manifest.full <= d.manifest.full
    /\ \A h \in Heights : h <= dir.manifest.full /\ dir.full[h] = "whole" => d.full[h] = "whole"

LEMMA HeightsAre == \A h \in Heights \cup {0} : h \in Nat
<1> SUFFICES ASSUME NEW h \in Heights \cup {0} PROVE h \in Nat
  OBVIOUS
<1>1. Heights \subseteq Nat
  BY SourcesAssumption
<1> QED
  BY <1>1

LEMMA DirIs ==
    ASSUME NEW d \in Directories
    PROVE  /\ d.manifest.full \in Nat /\ d.manifest.full \in Heights \cup {0} /\ d.manifest.parts \subseteq Parts
           /\ d.full \in [Heights -> Copies] /\ d.part \in [Parts -> Copies] /\ d.era \in Nat /\ d.saved \in BOOLEAN
<1>1. d.manifest \in Manifests /\ d.full \in [Heights -> Copies] /\ d.part \in [Parts -> Copies] /\ d.era \in Nat
      /\ d.saved \in BOOLEAN
  BY DEF Directories
<1>2. d.manifest.full \in Heights \cup {0} /\ d.manifest.parts \subseteq Parts
  BY <1>1 DEF Manifests
<1> QED
  BY <1>1, <1>2, HeightsAre

LEMMA DirStays == CacheTyped => DirGrows(dir)
<1> SUFFICES ASSUME CacheTyped PROVE DirGrows(dir)
  OBVIOUS
<1>1. dir \in Directories
  BY DEF CacheTyped
<1>2. dir.manifest.full <= dir.manifest.full
  BY <1>1, DirIs
<1> QED
  BY <1>1, <1>2 DEF DirGrows

LEMMA OthersCalm ==
    ASSUME CacheInv, Calm, NEW j \in Jobs, NEW k \in Jobs, k # j, NEW d, DirGrows(d),
           cacheJob[j].locked \/ d = dir \/ Y!Free
    PROVE  JobCalm(d, cacheJob[k])
<1> DEFINE r == cacheJob[k]
<1>1. r \in CacheJobs /\ JobCalm(dir, r) /\ r.era <= dir.era /\ (r.at \in Working => r.locked /\ r.era = dir.era)
  BY DEF CacheInv, CacheTyped, CalmInv, HeldHere, JobsSound, JobSound
<1>2. d # dir => r.at \notin Working
  BY <1>1 DEF CacheInv, CalmInv, HeldHere, OneHolder, Y!Free
<1>3. dir.manifest.full \in Nat /\ d.manifest.full \in Nat
  BY DirIs DEF CacheInv, CacheTyped, DirGrows
<1>r. r.source.full \in Heights \cup {0} /\ r.source.full \in Nat
  BY <1>1, HeightsAre DEF CacheJobs
<1> HIDE DEF r
<1>4. Renders(r) /\ r.source.full # 0 /\ r.era = d.era =>
        r.source.full <= d.manifest.full /\ d.full[r.source.full] = "whole"
  BY <1>1, <1>3, <1>r DEF JobCalm, DirGrows
<1>5. r.at \in Working => JobCalm(d, r)
  BY <1>1, <1>2
<1>6. r.at \notin Working => JobCalm(d, r)
  BY <1>1, <1>4 DEF JobCalm, DirGrows, Working
<1> QED
  BY <1>5, <1>6 DEF r

\* What a step of one job has to show.
LEMMA StepCalm ==
    ASSUME CacheInv, NEW j \in Jobs, NEW r, Sets(j, r), Locks(j, r), Calm' => Calm,
           Calm' => /\ DirGrows(dir') /\ (cacheJob[j].locked \/ dir' = dir \/ Y!Free)
                    /\ remote'.saved => remote.saved \/ dir'.saved,
           Calm' => /\ ListedWhole(dir') /\ NothingUnsaved' /\ JobCalm(dir', r)
                    /\ r.locked /\ r.at # "cover" => dir'.saved \/ ~remote'.saved
    PROVE  CalmInv'
<1> SUFFICES ASSUME Calm'
             PROVE  /\ HeldHere' /\ ListedWhole(dir') /\ NothingUnsaved' /\ RestoredFirst'
                    /\ \A k \in Jobs : JobCalm(dir', cacheJob'[k])
  BY DEF CalmInv
<1>1. Calm /\ HeldHere /\ RestoredFirst /\ dir'.era = dir.era /\ (dir.saved => dir'.saved)
  BY DEF CacheInv, CalmInv, DirGrows
<1>2. HeldHere'
  BY <1>1, SetsDoes DEF CacheInv, HeldHere, Locks
<1>3. RestoredFirst'
  BY <1>1, SetsDoes DEF CacheInv, RestoredFirst
<1>4. \A k \in Jobs : JobCalm(dir', cacheJob'[k])
  BY <1>1, SetsDoes, OthersCalm DEF CacheInv
<1> QED
  BY <1>2, <1>3, <1>4

\* What went wrong stays known.
Worse ==
    /\ trouble' \in Troubles
    /\ (trouble.unrestored => trouble'.unrestored) /\ (trouble.swept => trouble'.swept)
LEMMA TroubleWorse == CacheTyped /\ (UNCHANGED trouble \/ trouble' = Y!Failed) => Worse
BY DEF CacheTyped, Troubles, Worse, Y!Failed

LEMMA StepQuiet ==
    ASSUME CacheInv, NEW j \in Jobs, NEW r, Sets(j, r), JobSound(r), UNCHANGED <<dir, remote>>, Worse,
           r.era <= dir.era, Calm => JobCalm(dir, r),
           r.locked => cacheJob[j].locked /\ r.era = cacheJob[j].era /\ (cacheJob[j].at = "cover" => r.at = "cover")
    PROVE  CacheInv'
<1>1. CacheTyped'
  BY SetsDoes DEF CacheInv, CacheTyped, Worse
<1>2. /\ dir' = dir /\ remote' = remote /\ dir' \in Directories /\ DirGrows(dir') /\ dir.era <= dir'.era /\ r.era <= dir'.era
      /\ Locks(j, r)
  BY DirStays, DirIs DEF CacheInv, CacheTyped, Locks
<1>3. JobsSound' /\ OneHolder'
  BY <1>2, StepSound
<1>4. Calm' => Calm
  BY DEF Worse, Calm
<1>5. Calm' => ListedWhole(dir') /\ NothingUnsaved' /\ JobCalm(dir', r)
  BY <1>2, <1>4 DEF CacheInv, CalmInv, NothingUnsaved
<1>6. Calm' => (r.locked /\ r.at # "cover" => dir'.saved \/ ~remote'.saved)
  BY <1>2, <1>4 DEF CacheInv, CalmInv, RestoredFirst
<1>7. CalmInv'
  BY <1>2, <1>4, <1>5, <1>6, StepCalm
<1> QED
  BY <1>1, <1>3, <1>7 DEF CacheInv

\* What a job is known to be, and its parts.
LEMMA CacheJobIs ==
    ASSUME CacheInv, NEW j \in Jobs
    PROVE  /\ cacheJob[j] \in CacheJobs /\ JobSound(cacheJob[j]) /\ cacheJob[j].era <= dir.era
           /\ Calm => JobCalm(dir, cacheJob[j]) /\ ListedWhole(dir)
           /\ Calm /\ cacheJob[j].locked => cacheJob[j].era = dir.era
           /\ dir \in Directories /\ remote \in Remotes
BY DEF CacheInv, CacheTyped, CalmInv, JobsSound, HeldHere

LEMMA NoJobIs ==
    /\ Y!NoJob \in CacheJobs /\ Y!NoJob.at = "rest" /\ ~Y!NoJob.locked /\ Y!NoJob.era = 0
    /\ Y!NoJob.source.full = 0 /\ Y!NoJob.height = 0
    /\ JobSound(Y!NoJob) /\ \A d : JobCalm(d, Y!NoJob)
<1>1. Y!NoParts \in [Parts -> Copies]
  BY DEF Y!NoParts, Copies
<1>2. Y!NoJob \in CacheJobs
  BY <1>1 DEF Y!NoJob, CacheJobs, Entering, Working
<1> QED
  BY <1>2 DEF Y!NoJob, JobSound, JobCalm, Renders, Entering, Working

LEMMA QuitKeeps ==
    ASSUME CacheInv, NEW j \in Jobs, cacheJob' = [cacheJob EXCEPT ![j] = Y!NoJob], UNCHANGED <<dir, remote>>, Worse
    PROVE  CacheInv'
<1>1. Sets(j, Y!NoJob) /\ JobSound(Y!NoJob) /\ JobCalm(dir, Y!NoJob) /\ ~Y!NoJob.locked
  BY NoJobIs DEF Sets
<1>2. Y!NoJob.era <= dir.era
  BY NoJobIs, CacheJobIs, DirIs DEF CacheInv
<1> QED
  BY <1>1, <1>2, StepQuiet

\* The lock is given up, or the job goes on under it.
LEMMA MoveKeeps ==
    ASSUME CacheInv, NEW j \in Jobs, NEW stage, NEW held \in BOOLEAN,
           cacheJob' = [cacheJob EXCEPT ![j].at = stage, ![j].locked = held],
           UNCHANGED <<dir, remote>>, Worse,
           cacheJob[j].at \notin {"rest", "use", "publish"}, held => cacheJob[j].locked /\ cacheJob[j].at # "cover",
           \/ stage \in {"rest", "sections", "resolve", "download", "cover", "adopt"} /\ ~held
           \/ stage = "assemble" /\ dir.manifest.parts = Parts /\ ~held
    PROVE  CacheInv'
<1> DEFINE b == cacheJob[j]
           r == [b EXCEPT !.at = stage, !.locked = held]
<1>1. b \in CacheJobs /\ JobSound(b) /\ b.era <= dir.era
  BY CacheJobIs
<1>2. r \in CacheJobs /\ r.at = stage /\ r.locked = held /\ r.era = b.era /\ r.height = b.height /\ r.source = b.source
  BY <1>1 DEF CacheJobs, Entering, Working
<1>3. cacheJob' = [cacheJob EXCEPT ![j] = r]
  BY DEF CacheInv, CacheTyped
<1> HIDE DEF r
<1>4. Sets(j, r)
  BY <1>2, <1>3 DEF Sets
<1>5. JobSound(r)
  BY <1>1, <1>2 DEF JobSound, Renders, Entering, Working
<1>6. JobCalm(dir, r)
  BY <1>2 DEF JobCalm, Renders
<1> QED
  BY <1>1, <1>2, <1>4, <1>5, <1>6, StepQuiet

LEMMA QuietSteps ==
    ASSUME CacheInv, NEW j \in Jobs,
           Y!AudioHit(j) \/ Y!Filled(j) \/ Y!Cover(j) \/ Y!Done(j) \/ Y!Dies(j)
    PROVE  CacheInv'
<1>0. CacheTyped /\ cacheJob \in [Jobs -> CacheJobs] /\ cacheJob[j] \in CacheJobs
  BY DEF CacheInv, CacheTyped
<1>1. CASE Y!AudioHit(j)
  <2>1. cacheJob' = [cacheJob EXCEPT ![j].at = "sections", ![j].locked = FALSE] /\ UNCHANGED <<dir, remote, trouble>>
        /\ cacheJob[j].at = "audio"
    BY <1>1 DEF Y!AudioHit, Y!Unlock, Y!At
  <2> QED
    BY <1>0, <2>1, MoveKeeps, TroubleWorse
<1>2. CASE Y!Filled(j)
  <2>1. cacheJob' = [cacheJob EXCEPT ![j].at = "cover", ![j].locked = FALSE] /\ UNCHANGED <<dir, remote, trouble>>
        /\ cacheJob[j].at = "fill"
    BY <1>2 DEF Y!Filled, Y!Unlock, Y!At
  <2> QED
    BY <1>0, <2>1, MoveKeeps, TroubleWorse
<1>3. CASE Y!Cover(j)
  <2> DEFINE stage == IF Y!Pieces = Parts THEN "assemble" ELSE "rest"
  <2>1. cacheJob' = [cacheJob EXCEPT ![j].at = stage, ![j].locked = FALSE] /\ UNCHANGED <<dir, remote, trouble>>
        /\ cacheJob[j].at = "cover"
    BY <1>3 DEF Y!Cover, Y!Unlock, Y!At
  <2>2. stage = "rest" \/ (stage = "assemble" /\ dir.manifest.parts = Parts)
    BY CacheJobIs, DirIs DEF Y!Pieces
  <2> HIDE DEF stage
  <2> QED
    BY <1>0, <2>1, <2>2, MoveKeeps, TroubleWorse
<1>4. CASE Y!Done(j)
  BY <1>0, <1>4, QuitKeeps, TroubleWorse DEF Y!Done
<1>5. CASE Y!Dies(j)
  BY <1>0, <1>5, QuitKeeps, TroubleWorse DEF Y!Dies
<1> QED
  BY <1>1, <1>2, <1>3, <1>4, <1>5

\* A job that goes on under its lock, or waits, as it was but for its stage.
LEMMA UseFullKeeps ==
    ASSUME CacheInv, NEW j \in Jobs, Y!Usable(cacheJob[j].height), Y!UseFull(j), UNCHANGED <<dir, remote, trouble>>,
           cacheJob[j].locked
    PROVE  CacheInv'
<1> DEFINE b == cacheJob[j]
           r == [b EXCEPT !.at = "use", !.locked = FALSE, !.source.full = dir.manifest.full]
<1>1. b \in CacheJobs /\ JobSound(b) /\ b.era <= dir.era /\ (b.locked => b.at # "rest") /\ dir \in Directories
  BY CacheJobIs DEF JobSound, Renders, Entering, Working
<1>2. /\ r \in CacheJobs /\ r.at = "use" /\ r.locked = FALSE /\ r.era = b.era /\ r.height = b.height
      /\ r.source.full = dir.manifest.full
  BY <1>1, DirIs DEF CacheJobs, Entering, Working
<1>3. cacheJob' = [cacheJob EXCEPT ![j] = r]
  BY DEF CacheInv, CacheTyped, Y!UseFull
<1>4. dir.manifest.full # 0 /\ b.height <= dir.manifest.full /\ dir.manifest.full \in Nat
  BY <1>1, DirIs DEF Y!Usable
<1> HIDE DEF r
<1>5. Sets(j, r) /\ Worse
  BY <1>2, <1>3, TroubleWorse DEF Sets, CacheInv
<1>6. JobSound(r)
  BY <1>1, <1>2, <1>4 DEF JobSound, Renders, Entering, Working
<1>7. Calm => JobCalm(dir, r)
  <2> SUFFICES ASSUME Calm PROVE JobCalm(dir, r)
    OBVIOUS
  <2>1. dir.full[dir.manifest.full] = "whole" /\ dir.manifest.full <= dir.manifest.full
    BY <1>4, CacheJobIs DEF ListedWhole
  <2> QED
    BY <1>2, <1>4, <2>1 DEF JobCalm, Renders
<1> QED
  BY <1>1, <1>2, <1>5, <1>6, <1>7, StepQuiet

LEMMA PlanSectionsKeeps == ASSUME CacheInv, NEW j \in Jobs, Y!PlanSections(j) PROVE CacheInv'
<1>1. CASE Y!Usable(cacheJob[j].height) /\ Y!UseFull(j)
  BY <1>1, UseFullKeeps DEF Y!PlanSections, Y!At
<1>2. CASE cacheJob' = [cacheJob EXCEPT ![j].at = "fill", ![j].todo = Parts \ Y!Pieces]
  <2> DEFINE b == cacheJob[j]
             r == [b EXCEPT !.at = "fill", !.todo = Parts \ Y!Pieces]
  <2>1. b \in CacheJobs /\ JobSound(b) /\ b.era <= dir.era /\ b.at = "sections" /\ b.locked
    BY CacheJobIs DEF Y!PlanSections, Y!At
  <2>2. /\ r \in CacheJobs /\ r.at = "fill" /\ r.locked /\ r.era = b.era /\ r.height = b.height
        /\ r.source.full = b.source.full /\ r.todo = Parts \ Y!Pieces
    BY <2>1 DEF CacheJobs, Entering, Working
  <2>3. cacheJob' = [cacheJob EXCEPT ![j] = r]
    BY <1>2 DEF CacheInv, CacheTyped
  <2> HIDE DEF r
  <2>4. Sets(j, r) /\ Worse /\ UNCHANGED <<dir, remote>>
    BY <2>2, <2>3, TroubleWorse DEF Sets, CacheInv, Y!PlanSections
  <2>5. JobSound(r)
    BY <2>1, <2>2 DEF JobSound, Renders, Entering, Working
  <2>6. Calm => r.todo \cap dir.manifest.parts = {}
    <3> SUFFICES ASSUME Calm, NEW p \in r.todo, p \in dir.manifest.parts PROVE FALSE
      OBVIOUS
    <3>1. dir.part[p] = "whole"
      BY CacheJobIs DEF ListedWhole
    <3> QED
      BY <2>2, <3>1 DEF Y!Pieces
  <2>7. Calm => JobCalm(dir, r)
    BY <2>2, <2>6 DEF JobCalm, Renders
  <2> QED
    BY <2>1, <2>2, <2>4, <2>5, <2>7, StepQuiet
<1> QED
  BY <1>1, <1>2 DEF Y!PlanSections

LEMMA AssembleKeeps == ASSUME CacheInv, NEW j \in Jobs, Y!Assemble(j) PROVE CacheInv'
<1> DEFINE b == cacheJob[j]
           r == [b EXCEPT !.at = "use", !.source.parts = dir.part]
<1>0. UNCHANGED <<dir, remote, trouble>> /\ Worse /\ b.at = "assemble"
  BY TroubleWorse DEF CacheInv, Y!Assemble
<1>1. CASE \E p \in Parts : dir.part[p] = "none"
  BY <1>0, <1>1, QuitKeeps DEF Y!Assemble
<1>2. CASE ~ \E p \in Parts : dir.part[p] = "none"
  <2>1. b \in CacheJobs /\ JobSound(b) /\ b.era <= dir.era /\ b.at = "assemble"
    BY <1>0, CacheJobIs
  <2>2. /\ r \in CacheJobs /\ r.at = "use" /\ r.locked = b.locked /\ r.era = b.era /\ r.height = b.height
        /\ r.source.full = b.source.full /\ r.source.parts = dir.part
    BY <2>1, CacheJobIs, DirIs DEF CacheJobs, Entering, Working
  <2>3. cacheJob' = [cacheJob EXCEPT ![j] = r]
    BY <1>2 DEF CacheInv, CacheTyped, Y!Assemble
  <2> HIDE DEF r
  <2>4. Sets(j, r)
    BY <2>2, <2>3 DEF Sets
  <2>5. JobSound(r) /\ ~r.locked
    BY <2>1, <2>2 DEF JobSound, Renders, Entering, Working
  <2>6. Calm => JobCalm(dir, r)
    <3> SUFFICES ASSUME Calm PROVE JobCalm(dir, r)
      OBVIOUS
    <3>1. \A p \in Parts : dir.part[p] = "whole"
      BY <2>1, CacheJobIs DEF JobCalm, ListedWhole
    <3>2. r.source.full = 0
      BY <2>1, <2>2 DEF JobSound, Renders
    <3> QED
      BY <2>2, <3>1, <3>2 DEF JobCalm, Renders
  <2> QED
    BY <1>0, <2>1, <2>2, <2>4, <2>5, <2>6, StepQuiet
<1> QED
  BY <1>1, <1>2

LEMMA ResolveKeeps == ASSUME CacheInv, NEW j \in Jobs, Y!Resolve(j) PROVE CacheInv'
<1>1. cacheJob[j].at = "resolve" /\ cacheJob[j].locked /\ UNCHANGED <<dir, remote, trouble>> /\ Worse
  BY TroubleWorse DEF Y!Resolve, Y!At, CacheInv
<1>2. CASE Y!Usable(cacheJob[j].height)
  BY <1>1, <1>2, UseFullKeeps DEF Y!Resolve
<1>3. CASE ~Y!Usable(cacheJob[j].height)
  <2>1. cacheJob' = [cacheJob EXCEPT ![j].at = "download", ![j].locked = FALSE]
    BY <1>3 DEF Y!Resolve, Y!Unlock
  <2> QED
    BY <1>1, <2>1, MoveKeeps
<1> QED
  BY <1>2, <1>3

LEMMA DownloadKeeps == ASSUME CacheInv, NEW j \in Jobs, Y!Download(j) PROVE CacheInv'
<1>1. cacheJob[j].at = "download" /\ UNCHANGED <<dir, remote>> /\ Worse /\ cacheJob[j] \in CacheJobs /\ JobSound(cacheJob[j])
  BY TroubleWorse, CacheJobIs DEF Y!Download, CacheInv
<1>2. CASE cacheJob' = [cacheJob EXCEPT ![j] = Y!NoJob]
  BY <1>1, <1>2, QuitKeeps
<1>3. CASE Y!Go(j, "adopt")
  <2>1. cacheJob[j].locked = FALSE
    BY <1>1 DEF CacheJobs, JobSound, Entering, Working
  <2>2. cacheJob[j] = [cacheJob[j] EXCEPT !.locked = FALSE]
    BY <1>1, <2>1 DEF CacheJobs
  <2>3. cacheJob' = [cacheJob EXCEPT ![j].at = "adopt", ![j].locked = FALSE]
    BY <1>1, <1>3, <2>2 DEF Y!Go, CacheInv, CacheTyped, CacheJobs
  <2> QED
    BY <1>1, <2>3, MoveKeeps
<1> QED
  BY <1>2, <1>3 DEF Y!Download

LEMMA AdoptKeepKeeps == ASSUME CacheInv, NEW j \in Jobs, Y!AdoptKeep(j) PROVE CacheInv'
BY UseFullKeeps DEF Y!AdoptKeep, Y!At

LEMMA PublishCopyKeeps == ASSUME CacheInv, NEW j \in Jobs, Y!Publish(j) PROVE CacheInv'
<1> DEFINE b == cacheJob[j]
           r == [b EXCEPT !.at = b.then]
<1>1. b \in CacheJobs /\ JobSound(b) /\ b.era <= dir.era /\ b.at = "publish" /\ ~b.locked /\ dir \in Directories
  BY CacheJobIs DEF Y!Publish, JobSound, Entering, Working
<1>2. /\ r \in CacheJobs /\ r.at = b.then /\ r.locked = b.locked /\ r.era = b.era /\ r.height = b.height /\ r.source = b.source
      /\ r.at \in {"rest", "sections", "use"}
  BY <1>1 DEF CacheJobs, Entering, Working
<1>3. cacheJob' = [cacheJob EXCEPT ![j] = r] /\ UNCHANGED dir
  BY DEF CacheInv, CacheTyped, Y!Publish, Y!Go
<1>4. /\ remote' \in Remotes /\ Worse
      /\ remote'.saved => remote.saved \/ dir.saved
  <2>1. CASE remote' = Y!Published /\ UNCHANGED trouble
    <3>1. Y!Published \in Remotes /\ (Y!Published.saved => dir.saved \/ remote.saved)
      BY <1>1, CacheJobIs DEF Y!Published, Remotes, Directories, Manifests
    <3> QED
      BY <2>1, <3>1, TroubleWorse DEF CacheInv
  <2>2. CASE trouble' = Y!Failed /\ UNCHANGED remote
    BY <2>2, TroubleWorse, CacheJobIs DEF CacheInv
  <2> QED
    BY <2>1, <2>2 DEF Y!Publish
<1>5. JobSound(r)
  BY <1>1, <1>2 DEF JobSound, Renders, Entering, Working
<1>6. Calm => JobCalm(dir, r)
  <2> SUFFICES ASSUME Calm PROVE JobCalm(dir, r)
    OBVIOUS
  <2>1. JobCalm(dir, b) /\ (Renders(r) => Renders(b))
    BY <1>1, <1>2, CacheJobIs DEF Renders
  <2> QED
    BY <1>2, <2>1 DEF JobCalm
<1> HIDE DEF r
<1>7. Sets(j, r) /\ Locks(j, r)
  BY <1>1, <1>2, <1>3 DEF Sets, Locks
<1>8. /\ dir' = dir /\ dir' \in Directories /\ DirGrows(dir') /\ dir.era <= dir'.era /\ r.era <= dir'.era
  BY <1>1, <1>2, <1>3, DirStays, DirIs DEF CacheInv
<1>9. Calm' => Calm
  BY <1>4 DEF Calm, Worse
<1>10. Calm' => ListedWhole(dir') /\ NothingUnsaved' /\ JobCalm(dir', r)
  BY <1>4, <1>6, <1>8, <1>9 DEF CacheInv, CalmInv, NothingUnsaved
<1>11. CacheTyped'
  BY <1>4, <1>7, <1>8, SetsDoes DEF CacheInv, CacheTyped, Worse
<1>12. JobsSound' /\ OneHolder'
  BY <1>5, <1>7, <1>8, StepSound
<1>13. ~r.locked
  BY <1>1, <1>2
<1>14. CalmInv'
  BY <1>4, <1>7, <1>8, <1>9, <1>10, <1>13, StepCalm
<1> QED
  BY <1>11, <1>12, <1>14 DEF CacheInv

LEMMA GrowOldKeeps == ASSUME CacheInv, Y!GrowOld PROVE CacheInv'
<1>1. dir' = [dir EXCEPT !.old = TRUE] /\ UNCHANGED <<remote, cacheJob, trouble>>
  BY DEF Y!GrowOld
<1>2. /\ dir' \in Directories /\ dir'.era = dir.era /\ dir'.saved = dir.saved /\ dir'.manifest = dir.manifest
      /\ dir'.full = dir.full /\ dir'.part = dir.part
  BY <1>1 DEF CacheInv, CacheTyped, Directories
<1>3. \A j \in Jobs : JobCalm(dir, cacheJob[j]) => JobCalm(dir', cacheJob'[j])
  BY <1>1, <1>2 DEF JobCalm
<1>4. CalmInv'
  BY <1>1, <1>2, <1>3 DEF CacheInv, CalmInv, Calm, HeldHere, ListedWhole, NothingUnsaved, RestoredFirst
<1> QED
  BY <1>1, <1>2, <1>4 DEF CacheInv, CacheTyped, JobsSound, JobSound, OneHolder

\* A directory that begins anew has nothing.
LEMMA NewDirIs ==
    ASSUME NEW n \in Nat
    PROVE  /\ Y!NewDir(n) \in Directories /\ Y!NewDir(n).era = n /\ ListedWhole(Y!NewDir(n))
           /\ Y!NewDir(n).manifest = Y!Empty /\ Y!NewDir(n).full = Y!NoFull /\ Y!NewDir(n).part = Y!NoParts
<1>1. Y!Empty \in Manifests /\ Y!Empty.full = 0 /\ Y!Empty.parts = {}
  BY DEF Y!Empty, Manifests
<1>2. Y!NoFull \in [Heights -> Copies] /\ Y!NoParts \in [Parts -> Copies]
  BY DEF Y!NoFull, Y!NoParts, Copies
<1> QED
  BY <1>1, <1>2 DEF Y!NewDir, Directories, Copies, ListedWhole

LEMMA BeginUseKeeps == ASSUME CacheInv, NEW j \in Jobs, Y!Begin(j) PROVE CacheInv'
<1> DEFINE b == cacheJob[j]
<1>1. b \in CacheJobs /\ JobSound(b) /\ b.era <= dir.era /\ b.at = "rest" /\ ~b.locked /\ dir \in Directories
      /\ UNCHANGED remote
  BY CacheJobIs DEF Y!Begin, JobSound, Entering, Working
<1>2. PICK height \in Heights, sections \in BOOLEAN :
        cacheJob' = [cacheJob EXCEPT ![j] = [Y!NoJob EXCEPT !.at = IF sections THEN "audio" ELSE "resolve",
                                                 !.height = height, !.sections = sections]]
  BY DEF Y!Begin
<1> DEFINE r == [Y!NoJob EXCEPT !.at = IF sections THEN "audio" ELSE "resolve", !.height = height, !.sections = sections]
<1>3. height # 0
  BY SourcesAssumption
<1>4. /\ r \in CacheJobs /\ r.at \in {"audio", "resolve"} /\ ~r.locked /\ r.era = 0 /\ r.height # 0 /\ r.source.full = 0
  BY <1>3, NoJobIs DEF CacheInv, CacheJobs, Entering, Working
<1> HIDE DEF r
<1>5. Sets(j, r) /\ Locks(j, r) /\ JobSound(r) /\ (\A d : JobCalm(d, r))
  BY <1>2, <1>4 DEF Sets, Locks, JobSound, JobCalm, Renders, Entering, Working, r
<1>6. /\ Worse
      /\ Calm' => ~dir.old \/ \A k \in Jobs : cacheJob[k].at \in {"rest", "use"}
  <2> DEFINE under == dir.old /\ \E k \in Jobs : cacheJob[k].at \notin {"rest", "use"}
  <2>1. trouble' = [trouble EXCEPT !.begins = @ + 1, !.swept = @ \/ under]
    BY DEF Y!Begin
  <2>2. under \in BOOLEAN /\ (~under => ~dir.old \/ \A k \in Jobs : cacheJob[k].at \in {"rest", "use"})
    OBVIOUS
  <2>3. trouble \in Troubles
    BY DEF CacheInv, CacheTyped
  <2> HIDE DEF under
  <2>a. /\ trouble.begins + 1 \in Nat /\ (trouble.swept \/ under) \in BOOLEAN
        /\ trouble' = [trouble EXCEPT !.begins = trouble.begins + 1, !.swept = trouble.swept \/ under]
    BY <2>1, <2>2, <2>3 DEF Troubles
  <2>4. trouble' \in Troubles /\ trouble'.unrestored = trouble.unrestored /\ trouble'.swept = (trouble.swept \/ under)
    BY <2>a, <2>3 DEF Troubles
  <2>5. trouble.unrestored \in BOOLEAN /\ trouble.swept \in BOOLEAN
    BY <2>3 DEF Troubles
  <2>6. Worse
    BY <2>2, <2>4, <2>5 DEF Worse
  <2>7. Calm' => ~under
    BY <2>2, <2>4, <2>5 DEF Calm
  <2> QED
    BY <2>2, <2>6, <2>7
<1>7. Calm' => Calm
  BY <1>6 DEF Worse, Calm
<1>8. CASE ~dir.old
  <2>1. dir' = dir
    BY <1>8 DEF Y!Begin
  <2> QED
    BY <1>1, <1>4, <1>5, <1>6, <2>1, DirIs, StepQuiet
<1>9. CASE dir.old
  <2>1. dir' = Y!NewDir(dir.era + 1) /\ dir.era + 1 \in Nat /\ dir.era \in Nat
    BY <1>1, <1>9, DirIs DEF Y!Begin
  <2>2. /\ dir' \in Directories /\ dir'.era = dir.era + 1 /\ ListedWhole(dir') /\ dir'.manifest = Y!Empty
        /\ dir'.full = Y!NoFull /\ dir'.part = Y!NoParts
    BY <2>1, NewDirIs
  <2>3. CacheTyped'
    BY <1>1, <1>5, <1>6, <2>2, SetsDoes DEF CacheInv, CacheTyped, Worse
  <2>4. dir.era <= dir'.era /\ r.era <= dir'.era
    BY <1>4, <2>1, <2>2
  <2>5. JobsSound' /\ OneHolder'
    BY <1>5, <2>2, <2>4, StepSound
  <2>6. CalmInv'
    <3> SUFFICES ASSUME Calm'
                 PROVE  /\ HeldHere' /\ ListedWhole(dir') /\ NothingUnsaved' /\ RestoredFirst'
                        /\ \A k \in Jobs : JobCalm(dir', cacheJob'[k])
      BY DEF CalmInv
    <3>1. \A k \in Jobs \ {j} : cacheJob'[k] = cacheJob[k] /\ cacheJob[k].at \in {"rest", "use"} /\ ~cacheJob[k].locked
      BY <1>5, <1>6, <1>9, SetsDoes, CacheJobIs DEF CacheInv, JobSound, Entering, Working
    <3>2. HeldHere' /\ RestoredFirst'
      BY <1>4, <1>5, <3>1, SetsDoes DEF CacheInv, HeldHere, RestoredFirst
    <3>3. NothingUnsaved'
      BY <2>2 DEF NothingUnsaved
    <3>4. ASSUME NEW k \in Jobs \ {j} PROVE JobCalm(dir', cacheJob'[k])
      <4>1. cacheJob[k].era \in Nat /\ cacheJob[k].era <= dir.era /\ JobCalm(dir, cacheJob[k])
        BY <1>7, CacheJobIs DEF CacheJobs
      <4>2. cacheJob[k].era # dir'.era
        BY <2>1, <2>2, <4>1
      <4> QED
        BY <3>1, <4>1, <4>2 DEF JobCalm
    <3> QED
      BY <1>5, <2>2, <3>2, <3>3, <3>4, SetsDoes DEF CacheInv
  <2> QED
    BY <2>3, <2>5, <2>6 DEF CacheInv
<1> QED
  BY <1>8, <1>9

\* What the object store has is restored where the directory was empty.
FullRestored == [h \in Heights |-> IF dir.full[h] = "none" /\ h \in remote.full /\ h = remote.manifest.full
                                   THEN "whole" ELSE dir.full[h]]
PartRestored == [p \in Parts |-> IF dir.part[p] = "none" /\ p \in remote.parts /\ p \in remote.manifest.parts
                                 THEN "whole" ELSE dir.part[p]]
LEMMA RestoredTyped ==
    ASSUME CacheTyped
    PROVE  /\ Y!Restored(dir) \in Directories /\ Y!Restored(dir).era = dir.era /\ Y!Restored(dir).saved
           /\ Y!Restored(dir).manifest = remote.manifest /\ Y!Restored(dir).full = FullRestored
           /\ Y!Restored(dir).part = PartRestored
<1> DEFINE e == Y!Restored(dir)
<1>1. dir \in Directories /\ remote.manifest \in Manifests /\ remote.audio \in BOOLEAN
  BY DEF CacheTyped, Remotes
<1>2. FullRestored \in [Heights -> Copies] /\ PartRestored \in [Parts -> Copies]
  BY <1>1, DirIs DEF Copies, FullRestored, PartRestored
<1>3. e = [dir EXCEPT !.saved = TRUE, !.old = FALSE, !.manifest = remote.manifest,
                      !.audio = IF @ = "none" /\ remote.audio /\ remote.manifest.audio THEN "whole" ELSE @,
                      !.full = FullRestored, !.part = PartRestored]
  BY <1>1 DEF Y!Restored, FullRestored, PartRestored, Directories
<1> HIDE DEF e
<1>4. /\ e \in Directories /\ e.era = dir.era /\ e.saved /\ e.manifest = remote.manifest
      /\ e.full = FullRestored /\ e.part = PartRestored
  BY <1>1, <1>2, <1>3 DEF Directories, Copies
<1> QED
  BY <1>4 DEF e

LEMMA RestoredIs ==
    ASSUME CacheTyped, ~dir.saved, dir.manifest = Y!Empty, dir.full = Y!NoFull, dir.part = Y!NoParts
    PROVE  DirGrows(Y!Restored(dir)) /\ (~Y!Missing => ListedWhole(Y!Restored(dir)))
<1> DEFINE e == Y!Restored(dir)
<1>1. remote.manifest \in Manifests /\ remote.full \subseteq Heights /\ remote.parts \subseteq Parts
  BY DEF CacheTyped, Remotes
<1>2. remote.manifest.full \in Heights \cup {0} /\ remote.manifest.parts \subseteq Parts /\ remote.manifest.full \in Nat
  BY <1>1, HeightsAre DEF Manifests
<1>3. /\ e \in Directories /\ e.era = dir.era /\ e.saved /\ e.manifest = remote.manifest
      /\ e.full = FullRestored /\ e.part = PartRestored
  BY RestoredTyped
<1> HIDE DEF e
<1>4. dir.manifest.full = 0 /\ dir.manifest.parts = {}
  BY DEF Y!Empty
<1>5. \A h \in Heights : ~(h <= 0)
  BY SourcesAssumption
<1>6. DirGrows(e)
  <2>1. dir.manifest.parts = Parts => e.manifest.parts = Parts
    BY <1>2, <1>3, <1>4
  <2>2. dir.manifest.full <= e.manifest.full
    BY <1>2, <1>3, <1>4
  <2>3. \A h \in Heights : h <= dir.manifest.full /\ dir.full[h] = "whole" => e.full[h] = "whole"
    BY <1>4, <1>5
  <2> QED
    BY <1>3, <2>1, <2>2, <2>3 DEF DirGrows
<1>7. ASSUME ~Y!Missing PROVE ListedWhole(e)
  <2>1. remote.manifest.parts \subseteq remote.parts /\ remote.manifest.full \in remote.full \cup {0}
    BY <1>7 DEF Y!Missing
  <2>2. \A p \in e.manifest.parts : e.part[p] = "whole"
    BY <1>2, <1>3, <2>1 DEF Y!NoParts, PartRestored
  <2>3. e.manifest.full # 0 => e.full[e.manifest.full] = "whole"
    BY <1>1, <1>3, <2>1 DEF Y!NoFull, FullRestored
  <2> QED
    BY <2>2, <2>3 DEF ListedWhole
<1> QED
  BY <1>6, <1>7 DEF e

LEMMA EnterKeeps == ASSUME CacheInv, NEW j \in Jobs, Y!Enter(j) PROVE CacheInv'
<1> DEFINE b == cacheJob[j]
           r == [b EXCEPT !.locked = TRUE, !.era = dir.era]
<1>1. /\ b \in CacheJobs /\ JobSound(b) /\ b.at \in Entering /\ ~b.locked /\ Y!Free /\ UNCHANGED remote
      /\ dir \in Directories /\ remote \in Remotes /\ dir.era \in Nat
  BY CacheJobIs, DirIs DEF Y!Enter, Entering
<1>2. r \in CacheJobs /\ r.at = b.at /\ r.locked /\ r.era = dir.era /\ r.height = b.height /\ r.source = b.source
  BY <1>1 DEF CacheJobs
<1>3. cacheJob' = [cacheJob EXCEPT ![j] = r]
  BY DEF CacheInv, CacheTyped, Y!Enter
<1> HIDE DEF r
<1>4. Sets(j, r) /\ Locks(j, r) /\ JobSound(r) /\ \A d : JobCalm(d, r)
  BY <1>1, <1>2, <1>3 DEF Sets, Locks, JobSound, JobCalm, Renders, Entering, Working
<1>5. /\ dir' \in Directories /\ dir'.era = dir.era /\ Worse
      /\ Calm' => /\ Calm /\ DirGrows(dir') /\ ListedWhole(dir') /\ NothingUnsaved'
                  /\ r.locked /\ r.at # "cover" => dir'.saved \/ ~remote'.saved
  <2>1. CASE (b.at = "cover" \/ dir.saved \/ ~remote.saved) /\ UNCHANGED <<dir, trouble>>
    <3>1. Worse
      BY <2>1, TroubleWorse DEF CacheInv
    <3>2. Calm' => Calm
      BY <2>1 DEF Calm
    <3>3. DirGrows(dir')
      BY <2>1, DirStays DEF CacheInv
    <3> QED
      BY <1>1, <1>2, <2>1, <3>1, <3>2, <3>3 DEF CacheInv, CalmInv, NothingUnsaved
  <2>2. CASE /\ b.at # "cover" /\ ~dir.saved /\ remote.saved
             /\ dir' = Y!Restored(dir) /\ trouble' = [trouble EXCEPT !.unrestored = @ \/ Y!Missing]
    <3>1. trouble \in Troubles
      BY DEF CacheInv, CacheTyped
    <3>2. Y!Missing \in BOOLEAN
      BY DEF Y!Missing
    <3>3. /\ trouble' \in Troubles /\ trouble'.unrestored = (trouble.unrestored \/ Y!Missing)
          /\ trouble'.swept = trouble.swept
      <4> DEFINE missing == Y!Missing
      <4>1. missing \in BOOLEAN /\ trouble' = [trouble EXCEPT !.unrestored = @ \/ missing]
        BY <2>2, <3>2
      <4> HIDE DEF missing
      <4>2. trouble' \in Troubles /\ trouble'.unrestored = (trouble.unrestored \/ missing) /\ trouble'.swept = trouble.swept
        BY <3>1, <4>1 DEF Troubles
      <4> QED
        BY <4>2 DEF missing
    <3>4. Worse
      BY <3>1, <3>3 DEF Troubles, Worse
    <3>5. Calm' => Calm /\ ~Y!Missing
      BY <3>1, <3>3 DEF Troubles, Calm
    <3>6. dir' \in Directories /\ dir'.era = dir.era /\ dir'.saved
      BY <1>1, <2>2, RestoredTyped DEF CacheInv
    <3>7. Calm' => DirGrows(dir') /\ ListedWhole(dir')
      BY <2>2, <3>5, RestoredIs DEF CacheInv, CalmInv, NothingUnsaved
    <3> QED
      BY <3>4, <3>5, <3>6, <3>7 DEF NothingUnsaved
  <2>3. CASE /\ trouble' = [Y!Failed EXCEPT !.unrestored = TRUE]
             /\ dir' = [dir EXCEPT !.saved = TRUE, !.manifest = remote.manifest]
    <3>1. trouble \in Troubles /\ remote.manifest \in Manifests
      BY <1>1 DEF CacheInv, CacheTyped, Remotes
    <3>f. Y!Failed \in Troubles /\ Y!Failed.swept = trouble.swept
      BY <3>1 DEF Troubles, Y!Failed
    <3>2. trouble' \in Troubles /\ trouble'.unrestored = TRUE /\ trouble'.swept = trouble.swept
      BY <2>3, <3>f DEF Troubles
    <3>3. Worse /\ ~Calm'
      BY <3>2 DEF Worse, Calm
    <3>4. dir' \in Directories /\ dir'.era = dir.era
      BY <1>1, <2>3, <3>1 DEF Directories
    <3> QED
      BY <3>3, <3>4
  <2> QED
    BY <2>1, <2>2, <2>3 DEF Y!Enter
<1>6. CacheTyped'
  BY <1>1, <1>4, <1>5, SetsDoes DEF CacheInv, CacheTyped, Worse
<1>7. dir.era <= dir'.era /\ r.era <= dir'.era
  BY <1>1, <1>2, <1>5
<1>8. JobsSound' /\ OneHolder'
  BY <1>4, <1>5, <1>7, StepSound
<1>9. CalmInv'
  BY <1>1, <1>4, <1>5, StepCalm
<1> QED
  BY <1>6, <1>8, <1>9 DEF CacheInv

\* What a step under the lock has to show.
LEMMA StepWrites ==
    ASSUME CacheInv, NEW j \in Jobs, NEW r, cacheJob[j].locked, cacheJob[j].at # "cover",
           Sets(j, r), JobSound(r), r.era = cacheJob[j].era,
           dir' \in Directories, dir'.era = dir.era, remote' \in Remotes, Worse,
           Calm => /\ DirGrows(dir') /\ ListedWhole(dir') /\ JobCalm(dir', r)
                   /\ remote'.saved => remote.saved \/ dir'.saved
                   /\ ~dir'.saved => dir'.manifest = dir.manifest /\ ~dir.saved
    PROVE  CacheInv'
<1>1. CacheTyped'
  BY SetsDoes DEF CacheInv, CacheTyped, Worse
<1>2. cacheJob[j].era \in Nat /\ dir.era \in Nat /\ cacheJob[j].era <= dir.era
  BY CacheJobIs, DirIs DEF CacheJobs
<1>3. Locks(j, r) /\ dir.era <= dir'.era /\ r.era <= dir'.era
  BY <1>2 DEF Locks
<1>4. JobsSound' /\ OneHolder'
  BY <1>3, StepSound
<1>5. Calm' => Calm
  BY DEF Worse, Calm
<1>6. Calm' => NothingUnsaved' /\ (dir'.saved \/ ~remote'.saved)
  BY <1>5 DEF CacheInv, CalmInv, NothingUnsaved, RestoredFirst, DirGrows
<1>7. CalmInv'
  BY <1>3, <1>5, <1>6, StepCalm
<1> QED
  BY <1>1, <1>4, <1>7 DEF CacheInv

\* The job goes on, or ends, when it has written a file, and nothing is listed anew.
LEMMA WriteKeeps ==
    ASSUME CacheInv, NEW j \in Jobs, NEW stage, NEW held \in BOOLEAN, cacheJob[j].locked,
           cacheJob' = [cacheJob EXCEPT ![j].at = stage, ![j].locked = held], UNCHANGED remote, Worse,
           cacheJob[j].at \notin {"cover", "use", "publish"},
           \/ stage \in {"hearing", "adopting"} /\ held
           \/ stage = "slicing" /\ held /\ cacheJob[j].todo # {}
           \/ stage \in {"resolve", "rest"} /\ ~held,
           dir' \in Directories, dir'.era = dir.era, dir'.saved = dir.saved, dir'.manifest = dir.manifest,
           Calm => /\ DirGrows(dir') /\ ListedWhole(dir')
                   /\ stage = "slicing" => cacheJob[j].at = "fill"
                   /\ stage = "adopting" => dir.manifest.full < cacheJob[j].height
    PROVE  CacheInv'
<1> DEFINE b == cacheJob[j]
           r == [b EXCEPT !.at = stage, !.locked = held]
<1>1. b \in CacheJobs /\ JobSound(b) /\ b.era <= dir.era /\ (Calm => JobCalm(dir, b)) /\ remote \in Remotes
  BY CacheJobIs
<1>2. /\ r \in CacheJobs /\ r.at = stage /\ r.locked = held /\ r.era = b.era /\ r.height = b.height /\ r.source = b.source
      /\ r.todo = b.todo
  BY <1>1 DEF CacheJobs, Entering, Working
<1>3. cacheJob' = [cacheJob EXCEPT ![j] = r]
  BY DEF CacheInv, CacheTyped
<1> HIDE DEF r
<1>4. Sets(j, r)
  BY <1>2, <1>3 DEF Sets
<1>5. JobSound(r)
  BY <1>1, <1>2 DEF JobSound, Renders, Entering, Working
<1>6. Calm => JobCalm(dir', r)
  BY <1>1, <1>2 DEF JobCalm, Renders
<1> QED
  BY <1>1, <1>2, <1>4, <1>5, <1>6, StepWrites

\* The manifest is written, with what it lists now.
LEMMA SavedIs ==
    ASSUME NEW d \in Directories, NEW m \in Manifests
    PROVE  /\ Y!Save(d, m) \in Directories /\ Y!Save(d, m).era = d.era /\ Y!Save(d, m).saved
           /\ Y!Save(d, m).manifest = m /\ Y!Save(d, m).full = d.full /\ Y!Save(d, m).part = d.part
BY DEF Y!Save, Directories

\* The first file of a job is written while nothing is listed of it.
LEMMA AudioStartKeeps == ASSUME CacheInv, NEW j \in Jobs, Y!AudioStart(j) PROVE CacheInv'
<1>1. cacheJob[j].at = "audio" /\ cacheJob[j].locked /\ UNCHANGED <<remote, trouble>> /\ Worse
  BY TroubleWorse DEF Y!AudioStart, Y!At, CacheInv
<1>2. cacheJob' = [cacheJob EXCEPT ![j].at = "hearing", ![j].locked = TRUE]
  BY <1>1 DEF Y!AudioStart, Y!Go, CacheInv, CacheTyped, CacheJobs
<1>3. dir' = [dir EXCEPT !.audio = "partial"] /\ dir \in Directories
  BY CacheJobIs DEF Y!AudioStart
<1>4. /\ dir' \in Directories /\ dir'.era = dir.era /\ dir'.saved = dir.saved /\ dir'.manifest = dir.manifest
      /\ dir'.full = dir.full /\ dir'.part = dir.part
  BY <1>3 DEF Directories, Copies
<1>5. DirGrows(dir') /\ (Calm => ListedWhole(dir'))
  BY <1>4, DirStays, CacheJobIs DEF CacheInv, DirGrows, ListedWhole
<1> QED
  BY <1>1, <1>2, <1>4, <1>5, WriteKeeps

LEMMA AudioFailsKeeps == ASSUME CacheInv, NEW j \in Jobs, Y!AudioFails(j) PROVE CacheInv'
<1>1. cacheJob[j].at = "hearing" /\ cacheJob[j].locked /\ UNCHANGED remote /\ Worse
  BY TroubleWorse DEF Y!AudioFails, Y!At, CacheInv
<1>2. cacheJob' = [cacheJob EXCEPT ![j].at = "resolve", ![j].locked = FALSE]
  BY DEF Y!AudioFails, Y!Unlock
<1>3. dir' = [dir EXCEPT !.audio = "none"] /\ dir \in Directories
  BY CacheJobIs DEF Y!AudioFails
<1>4. /\ dir' \in Directories /\ dir'.era = dir.era /\ dir'.saved = dir.saved /\ dir'.manifest = dir.manifest
      /\ dir'.full = dir.full /\ dir'.part = dir.part
  BY <1>3 DEF Directories, Copies
<1>5. DirGrows(dir') /\ (Calm => ListedWhole(dir'))
  BY <1>4, DirStays, CacheJobIs DEF CacheInv, DirGrows, ListedWhole
<1> QED
  BY <1>1, <1>2, <1>4, <1>5, WriteKeeps

LEMMA AudioEndKeeps == ASSUME CacheInv, NEW j \in Jobs, Y!AudioEnd(j) PROVE CacheInv'
<1> DEFINE b == cacheJob[j]
           r == [b EXCEPT !.at = "publish", !.then = "sections", !.locked = FALSE]
           audio == IF b.era = dir.era THEN "whole" ELSE dir.audio
           d == [dir EXCEPT !.audio = audio]
           m == [dir.manifest EXCEPT !.audio = TRUE]
<1>1. /\ b \in CacheJobs /\ JobSound(b) /\ b.at = "hearing" /\ b.locked /\ UNCHANGED <<remote, trouble>> /\ Worse
      /\ dir \in Directories /\ remote \in Remotes
  BY CacheJobIs, TroubleWorse DEF Y!AudioEnd, Y!At, CacheInv
<1>2. r \in CacheJobs /\ r.at = "publish" /\ r.then = "sections" /\ ~r.locked /\ r.era = b.era /\ r.height = b.height
      /\ r.source = b.source
  BY <1>1 DEF CacheJobs, Entering, Working
<1>3. cacheJob' = [cacheJob EXCEPT ![j] = r] /\ dir' = Y!Save(d, m)
  BY <1>1 DEF CacheInv, CacheTyped, Y!AudioEnd, Directories
<1>4. d \in Directories /\ d.era = dir.era /\ d.full = dir.full /\ d.part = dir.part
  BY <1>1 DEF Directories, Copies
<1>5. m \in Manifests /\ m.full = dir.manifest.full /\ m.parts = dir.manifest.parts
  BY <1>1 DEF Directories, Manifests
<1> HIDE DEF r, d, m
<1>6. /\ dir' \in Directories /\ dir'.era = dir.era /\ dir'.saved /\ dir'.manifest = m
      /\ dir'.full = dir.full /\ dir'.part = dir.part
  BY <1>3, <1>4, <1>5, SavedIs
<1>7. DirGrows(dir') /\ (Calm => ListedWhole(dir'))
  BY <1>5, <1>6, DirStays, CacheJobIs DEF CacheInv, DirGrows, ListedWhole
<1>8. Sets(j, r) /\ JobSound(r) /\ JobCalm(dir', r)
  BY <1>1, <1>2, <1>3 DEF Sets, JobSound, JobCalm, Renders, Entering, Working
<1> QED
  BY <1>1, <1>2, <1>6, <1>7, <1>8, StepWrites

\* A section that is being written is not listed yet.
LEMMA SectionStartKeeps == ASSUME CacheInv, NEW j \in Jobs, Y!SectionStart(j) PROVE CacheInv'
<1> DEFINE p == Y!Slice(j)
<1>1. /\ cacheJob[j].at = "fill" /\ cacheJob[j].locked /\ UNCHANGED <<remote, trouble>> /\ Worse
      /\ cacheJob[j].todo # {} /\ dir \in Directories
  BY TroubleWorse, CacheJobIs DEF Y!SectionStart, Y!At, CacheInv
<1>2. cacheJob' = [cacheJob EXCEPT ![j].at = "slicing", ![j].locked = TRUE]
  BY <1>1 DEF Y!SectionStart, Y!Go, CacheInv, CacheTyped, CacheJobs
<1>3. dir' = [dir EXCEPT !.part[p] = "partial"] /\ p \in Parts /\ p \in cacheJob[j].todo
  BY <1>1, SliceIs DEF Y!SectionStart, CacheInv
<1> HIDE DEF p
<1>4. /\ dir' \in Directories /\ dir'.era = dir.era /\ dir'.saved = dir.saved /\ dir'.manifest = dir.manifest
      /\ dir'.full = dir.full /\ dir'.part = [dir.part EXCEPT ![p] = "partial"]
  BY <1>1, <1>3 DEF Directories, Copies
<1>5. DirGrows(dir')
  BY <1>4, DirStays DEF CacheInv, DirGrows
<1>6. Calm => ListedWhole(dir')
  <2> SUFFICES ASSUME Calm PROVE ListedWhole(dir')
    OBVIOUS
  <2>1. ListedWhole(dir) /\ p \notin dir.manifest.parts
    BY <1>1, <1>3, CacheJobIs DEF JobCalm
  <2> QED
    BY <1>1, <1>4, <2>1, DirIs DEF ListedWhole
<1> QED
  BY <1>1, <1>2, <1>4, <1>5, <1>6, WriteKeeps

LEMMA SectionFailsKeeps == ASSUME CacheInv, NEW j \in Jobs, Y!SectionFails(j) PROVE CacheInv'
<1> DEFINE p == Y!Slice(j)
<1>1. /\ cacheJob[j].at = "slicing" /\ cacheJob[j].locked /\ UNCHANGED remote /\ Worse
      /\ dir \in Directories /\ dir' = [dir EXCEPT !.part[p] = "none"]
  BY TroubleWorse, CacheJobIs DEF Y!SectionFails, Y!At, CacheInv
<1>2. cacheJob' = [cacheJob EXCEPT ![j].at = "rest", ![j].locked = FALSE]
  BY DEF Y!SectionFails, Y!Unlock
<1>3. p \in Parts /\ p \in cacheJob[j].todo /\ (Calm => p \notin dir.manifest.parts)
  <2>1. cacheJob[j].todo # {}
    BY <1>1, CacheJobIs DEF JobSound
  <2>2. p \in Parts /\ p \in cacheJob[j].todo
    BY <2>1, SliceIs DEF CacheInv
  <2> QED
    BY <1>1, <2>2, CacheJobIs DEF JobCalm
<1> HIDE DEF p
<1>4. /\ dir' \in Directories /\ dir'.era = dir.era /\ dir'.saved = dir.saved /\ dir'.manifest = dir.manifest
      /\ dir'.full = dir.full /\ dir'.part = [dir.part EXCEPT ![p] = "none"]
  BY <1>1 DEF Directories, Copies
<1>5. DirGrows(dir')
  BY <1>4, DirStays DEF CacheInv, DirGrows
<1>6. Calm => ListedWhole(dir')
  BY <1>1, <1>3, <1>4, CacheJobIs, DirIs DEF ListedWhole
<1> QED
  BY <1>1, <1>2, <1>4, <1>5, <1>6, WriteKeeps

LEMMA SectionEndKeeps == ASSUME CacheInv, NEW j \in Jobs, Y!SectionEnd(j) PROVE CacheInv'
<1> DEFINE b == cacheJob[j]
           p == Y!Slice(j)
           r == [b EXCEPT !.at = "fill", !.todo = @ \ {p}]
           piece == IF b.era = dir.era THEN "whole" ELSE dir.part[p]
           d == [dir EXCEPT !.part[p] = piece]
           m == [dir.manifest EXCEPT !.parts = @ \cup {p}]
<1>1. /\ b \in CacheJobs /\ JobSound(b) /\ b.at = "slicing" /\ b.locked
      /\ dir \in Directories /\ remote \in Remotes
  BY CacheJobIs DEF Y!SectionEnd, Y!At
<1>a. p \in b.todo /\ p \in Parts
  BY <1>1, SliceIs DEF CacheInv, JobSound
<1>2. r \in CacheJobs /\ r.at = "fill" /\ r.todo = b.todo \ {p} /\ r.locked /\ r.era = b.era /\ r.height = b.height
      /\ r.source = b.source
  BY <1>1 DEF CacheJobs, Entering, Working
<1>3. /\ cacheJob' = [cacheJob EXCEPT ![j] = r]
      /\ dir' = Y!Save([dir EXCEPT !.part[p] = IF b.era = dir.era THEN "whole" ELSE @], m)
  BY <1>1 DEF CacheInv, CacheTyped, Y!SectionEnd
<1>4. piece \in Copies /\ d = [dir EXCEPT !.part[p] = IF b.era = dir.era THEN "whole" ELSE @]
  BY <1>1, <1>a, DirIs DEF Copies
<1>5. m \in Manifests /\ m.full = dir.manifest.full /\ m.parts = dir.manifest.parts \cup {p}
  BY <1>1, <1>a DEF Directories, Manifests
<1>6. (Calm => piece = "whole") /\ piece = IF b.era = dir.era THEN "whole" ELSE dir.part[p]
  BY <1>1, CacheJobIs
<1> HIDE DEF r, m, piece, p
<1>7. d \in Directories /\ d.era = dir.era /\ d.full = dir.full /\ d.part = [dir.part EXCEPT ![p] = piece]
  BY <1>1, <1>4, <1>a DEF Directories
<1> HIDE DEF d
<1>8. /\ dir' \in Directories /\ dir'.era = dir.era /\ dir'.saved /\ dir'.manifest = m
      /\ dir'.full = dir.full /\ dir'.part = [dir.part EXCEPT ![p] = piece]
  BY <1>3, <1>4, <1>5, <1>7, SavedIs
<1>9. /\ remote' \in Remotes /\ Worse
  <2> DEFINE whole == IF d.part[p] = "whole" THEN remote.parts \cup {p} ELSE remote.parts
  <2>1. whole \subseteq Parts
    BY <1>1, <1>a DEF Remotes
  <2>2. \/ remote' = [remote EXCEPT !.saved = TRUE, !.manifest = dir'.manifest, !.parts = whole] /\ UNCHANGED trouble
        \/ trouble' = Y!Failed /\ UNCHANGED remote
    BY <1>1, <1>4 DEF Y!SectionEnd, Remotes, d, p, piece
  <2> HIDE DEF whole
  <2>3. Worse
    BY <2>2, TroubleWorse DEF CacheInv
  <2>4. remote' \in Remotes
    BY <1>1, <1>5, <1>8, <2>1, <2>2 DEF Remotes
  <2> QED
    BY <2>3, <2>4
<1>10. Calm => DirGrows(dir') /\ ListedWhole(dir')
  <2> SUFFICES ASSUME Calm PROVE DirGrows(dir') /\ ListedWhole(dir')
    OBVIOUS
  <2>1. dir.manifest.parts = Parts => m.parts = Parts
    BY <1>5, <1>a
  <2>2. DirGrows(dir')
    BY <1>5, <1>8, <2>1, DirStays DEF CacheInv, DirGrows
  <2>3. \A q \in m.parts : dir'.part[q] = "whole"
    BY <1>1, <1>5, <1>6, <1>8, <1>a, CacheJobIs, DirIs DEF ListedWhole
  <2> QED
    BY <1>5, <1>8, <2>2, <2>3, CacheJobIs DEF ListedWhole
<1>11. Sets(j, r) /\ JobSound(r)
  BY <1>1, <1>2, <1>3 DEF Sets, JobSound, Renders, Entering, Working
<1>12. Calm => JobCalm(dir', r)
  <2> SUFFICES ASSUME Calm PROVE JobCalm(dir', r)
    OBVIOUS
  <2>1. b.todo \cap dir.manifest.parts = {}
    BY <1>1, CacheJobIs DEF JobCalm
  <2>2. r.todo \cap dir'.manifest.parts = {}
    BY <1>2, <1>5, <1>8, <2>1
  <2> QED
    BY <1>2, <2>2 DEF JobCalm, Renders
<1> QED
  BY <1>1, <1>2, <1>8, <1>9, <1>10, <1>11, <1>12, StepWrites

\* The copy a job adopts is higher than what is listed, which nobody rewrites.
LEMMA AdoptStartKeeps == ASSUME CacheInv, NEW j \in Jobs, Y!AdoptStart(j) PROVE CacheInv'
<1> DEFINE h == cacheJob[j].height
<1>1. /\ cacheJob[j] \in CacheJobs /\ JobSound(cacheJob[j]) /\ cacheJob[j].at = "adopt" /\ cacheJob[j].locked
      /\ UNCHANGED <<remote, trouble>> /\ Worse /\ ~Y!Usable(h) /\ dir \in Directories
      /\ dir' = [dir EXCEPT !.full[h] = "partial"]
  BY TroubleWorse, CacheJobIs DEF Y!AdoptStart, Y!At, CacheInv
<1>2. cacheJob' = [cacheJob EXCEPT ![j].at = "adopting", ![j].locked = TRUE]
  BY <1>1 DEF Y!AdoptStart, Y!Go, CacheInv, CacheTyped, CacheJobs
<1>3. h \in Heights \cup {0} /\ h # 0 /\ h \in Nat /\ dir.manifest.full \in Nat /\ dir.manifest.full \in Heights \cup {0}
  BY <1>1, HeightsAre, DirIs DEF CacheJobs, JobSound
<1> HIDE DEF h
<1>4. /\ dir' \in Directories /\ dir'.era = dir.era /\ dir'.saved = dir.saved /\ dir'.manifest = dir.manifest
      /\ dir'.full = [dir.full EXCEPT ![h] = "partial"] /\ dir'.part = dir.part
  BY <1>1 DEF Directories, Copies
<1>5. Calm => dir.manifest.full < h
  <2> SUFFICES ASSUME Calm PROVE dir.manifest.full < h
    OBVIOUS
  <2>1. dir.manifest.full # 0 => dir.full[dir.manifest.full] = "whole"
    BY CacheJobIs DEF ListedWhole
  <2>2. dir.manifest.full = 0 \/ ~(h <= dir.manifest.full)
    BY <1>1, <2>1 DEF Y!Usable
  <2> QED
    BY <1>3, <2>2
<1>6. Calm => DirGrows(dir')
  <2> SUFFICES ASSUME Calm PROVE DirGrows(dir')
    OBVIOUS
  <2>1. \A k \in Heights : k <= dir.manifest.full => k # h
    BY <1>3, <1>5, HeightsAre
  <2>2. \A k \in Heights : k # h => dir'.full[k] = dir.full[k]
    BY <1>1, <1>4, DirIs
  <2>3. dir.manifest.full <= dir'.manifest.full
    BY <1>3, <1>4
  <2> QED
    BY <1>4, <2>1, <2>2, <2>3 DEF DirGrows
<1>7. Calm => ListedWhole(dir')
  <2> SUFFICES ASSUME Calm PROVE ListedWhole(dir')
    OBVIOUS
  <2>1. dir.manifest.full # h
    BY <1>3, <1>5
  <2> QED
    BY <1>1, <1>3, <1>4, <2>1, CacheJobIs, DirIs DEF ListedWhole
<1>8. Calm => dir.manifest.full < cacheJob[j].height
  BY <1>5 DEF h
<1> QED
  BY <1>1, <1>2, <1>4, <1>6, <1>7, <1>8, WriteKeeps

LEMMA AdoptEndKeeps == ASSUME CacheInv, NEW j \in Jobs, Y!AdoptEnd(j) PROVE CacheInv'
<1> DEFINE b == cacheJob[j]
           h == b.height
           r == [b EXCEPT !.at = "publish", !.then = "use", !.locked = FALSE, !.source.full = h]
           file == IF b.era = dir.era THEN "whole" ELSE dir.full[h]
           d == [dir EXCEPT !.full[h] = file]
           m == [dir.manifest EXCEPT !.full = h]
<1>1. /\ b \in CacheJobs /\ JobSound(b) /\ b.at = "adopting" /\ b.locked /\ UNCHANGED <<remote, trouble>> /\ Worse
      /\ dir \in Directories /\ remote \in Remotes
  BY CacheJobIs, TroubleWorse DEF Y!AdoptEnd, Y!At, CacheInv
<1>2. h \in Heights \cup {0} /\ h # 0 /\ h \in Heights /\ h \in Nat /\ h <= h
  <2>1. h \in Heights \cup {0} /\ h # 0
    BY <1>1 DEF CacheJobs, JobSound
  <2> QED
    BY <2>1, HeightsAre
<1>3. /\ r \in CacheJobs /\ r.at = "publish" /\ r.then = "use" /\ ~r.locked /\ r.era = b.era /\ r.height = h
      /\ r.source.full = h
  BY <1>1, <1>2 DEF CacheJobs, Entering, Working
<1>4. /\ cacheJob' = [cacheJob EXCEPT ![j] = r]
      /\ dir' = Y!Save([dir EXCEPT !.full[h] = IF b.era = dir.era THEN "whole" ELSE @], m)
  BY <1>1 DEF CacheInv, CacheTyped, Y!AdoptEnd
<1>5. file \in Copies /\ d = [dir EXCEPT !.full[h] = IF b.era = dir.era THEN "whole" ELSE @]
  BY <1>1, <1>2, DirIs DEF Copies
<1>6. m \in Manifests /\ m.full = h /\ m.parts = dir.manifest.parts
  BY <1>1, <1>2 DEF Directories, Manifests
<1>7. Calm => file = "whole" /\ dir.manifest.full < h /\ dir.manifest.full \in Nat /\ ListedWhole(dir)
  BY <1>1, CacheJobIs, DirIs DEF JobCalm
<1> HIDE DEF r, m, file, h
<1>8. d \in Directories /\ d.era = dir.era /\ d.full = [dir.full EXCEPT ![h] = file] /\ d.part = dir.part
  BY <1>1, <1>2, <1>5 DEF Directories
<1> HIDE DEF d
<1>9. /\ dir' \in Directories /\ dir'.era = dir.era /\ dir'.saved /\ dir'.manifest = m
      /\ dir'.full = [dir.full EXCEPT ![h] = file] /\ dir'.part = dir.part
  BY <1>4, <1>5, <1>6, <1>8, SavedIs
<1>10. dir'.full[h] = file /\ \A k \in Heights : k # h => dir'.full[k] = dir.full[k]
  BY <1>1, <1>2, <1>9, DirIs
<1>11. Calm => DirGrows(dir') /\ ListedWhole(dir')
  <2> SUFFICES ASSUME Calm PROVE DirGrows(dir') /\ ListedWhole(dir')
    OBVIOUS
  <2>1. \A k \in Heights : k <= dir.manifest.full => k # h
    BY <1>2, <1>7, HeightsAre
  <2>2. dir.manifest.full <= dir'.manifest.full
    BY <1>2, <1>6, <1>7, <1>9
  <2>3. DirGrows(dir')
    BY <1>6, <1>9, <1>10, <2>1, <2>2 DEF DirGrows
  <2> QED
    BY <1>6, <1>7, <1>9, <1>10, <2>3 DEF ListedWhole
<1>12. Sets(j, r) /\ JobSound(r)
  BY <1>2, <1>3, <1>4 DEF Sets, JobSound, Renders, Entering, Working
<1>13. Calm => JobCalm(dir', r)
  BY <1>2, <1>3, <1>6, <1>7, <1>9, <1>10 DEF JobCalm, Renders
<1> QED
  BY <1>1, <1>3, <1>9, <1>11, <1>12, <1>13, StepWrites

\* Every step of every job keeps the invariant.
LEMMA CacheStepKeeps == ASSUME CacheInv, Y!Next PROVE CacheInv'
<1>1. CASE Y!GrowOld
  BY <1>1, GrowOldKeeps
<1>2. CASE ~Y!GrowOld
  <2>1. PICK j \in Jobs :
          \/ Y!Begin(j) \/ Y!Enter(j) \/ Y!Publish(j) \/ Y!AudioHit(j) \/ Y!AudioStart(j) \/ Y!AudioEnd(j)
          \/ Y!AudioFails(j) \/ Y!PlanSections(j) \/ Y!SectionStart(j) \/ Y!SectionEnd(j) \/ Y!SectionFails(j)
          \/ Y!Filled(j) \/ Y!Cover(j) \/ Y!Assemble(j) \/ Y!Resolve(j) \/ Y!Download(j) \/ Y!AdoptKeep(j)
          \/ Y!AdoptStart(j) \/ Y!AdoptEnd(j) \/ Y!Done(j) \/ Y!Dies(j)
    BY <1>2 DEF Y!Next
  <2> QED
    BY <2>1, BeginUseKeeps, EnterKeeps, PublishCopyKeeps, QuietSteps, AudioStartKeeps, AudioEndKeeps, AudioFailsKeeps,
       PlanSectionsKeeps, SectionStartKeeps, SectionEndKeeps, SectionFailsKeeps, AssembleKeeps, ResolveKeeps,
       DownloadKeeps, AdoptKeepKeeps, AdoptStartKeeps, AdoptEndKeeps
<1> QED
  BY <1>1, <1>2

LEMMA CacheStays == CacheInv /\ UNCHANGED sourceCache => CacheInv'
<1> SUFFICES ASSUME CacheInv, UNCHANGED sourceCache PROVE CacheInv'
  OBVIOUS
<1>1. dir' = dir /\ remote' = remote /\ cacheJob' = cacheJob /\ trouble' = trouble
  BY DEF sourceCache
<1> QED
  BY <1>1 DEF CacheInv, CacheTyped, JobsSound, OneHolder, CalmInv, Calm, HeldHere, NothingUnsaved, RestoredFirst,
              JobSound, ListedWhole, JobCalm

LEMMA CacheInitHolds == Init => CacheInv
<1> SUFFICES ASSUME NEW s \in {0, MaxBegins}, Y!StartIn(s) PROVE CacheInv
  BY DEF Init, Y!Init, Y!Gone
<1>1. dir = Y!NewDir(0) /\ cacheJob = [j \in Jobs |-> Y!NoJob]
      /\ remote = [saved |-> FALSE, manifest |-> Y!Empty, audio |-> FALSE, full |-> {}, parts |-> {}]
      /\ trouble = [begins |-> s, failures |-> 0, unrestored |-> FALSE, swept |-> FALSE]
  BY DEF Y!StartIn
<1>2. /\ dir \in Directories /\ dir.era = 0 /\ ListedWhole(dir) /\ dir.manifest = Y!Empty
      /\ dir.full = Y!NoFull /\ dir.part = Y!NoParts
  BY <1>1, NewDirIs
<1>3. Y!Empty \in Manifests
  BY DEF Y!Empty, Manifests
<1>4. remote \in Remotes /\ ~remote.saved
  BY <1>1, <1>3 DEF Remotes
<1>5. trouble \in Troubles
  BY <1>1, SourcesAssumption DEF Troubles
<1>6. /\ Y!NoJob \in CacheJobs /\ ~Y!NoJob.locked /\ Y!NoJob.era = 0 /\ JobSound(Y!NoJob)
      /\ \A d : JobCalm(d, Y!NoJob)
  BY NoJobIs
<1>7. CacheTyped
  BY <1>1, <1>2, <1>4, <1>5, <1>6 DEF CacheTyped
<1>8. \A j \in Jobs : cacheJob[j] = Y!NoJob
  BY <1>1
<1> QED
  BY <1>2, <1>4, <1>6, <1>7, <1>8 DEF CacheInv, JobsSound, OneHolder, CalmInv, HeldHere, NothingUnsaved, RestoredFirst

\* The directory of a source, its manifest, its locks and what each job renders from, in
\* every state of every behaviour, for any jobs, sections, heights and failures.
THEOREM CacheInductive == Spec => []CacheInv
<1>1. Init => CacheInv
  BY CacheInitHolds
<1>2. CacheInv /\ [Next]_<<part, drafts, editorExports, aiEdits, replicas,
                           generation, accounts, sourceCache, download, workspace, stream>> => CacheInv'
  BY CacheStepKeeps, CacheStays DEF Next
<1> QED
  BY <1>1, <1>2, PTL DEF Spec

LEMMA CacheSound == CacheInv => Y!SourceIsSound
<1> SUFFICES ASSUME CacheInv, NEW j \in Jobs, cacheJob[j].at = "use"
             PROVE  LET s == cacheJob[j].source
                    IN /\ s.full # 0 => cacheJob[j].height <= s.full
                       /\ ~trouble.unrestored /\ ~trouble.swept =>
                            /\ s.full = 0 => \A p \in Parts : s.parts[p] = "whole"
                            /\ s.full # 0 /\ cacheJob[j].era = dir.era => dir.full[s.full] = "whole"
  BY DEF Y!SourceIsSound
<1>1. JobSound(cacheJob[j]) /\ (Calm => JobCalm(dir, cacheJob[j])) /\ Renders(cacheJob[j])
  BY CacheJobIs DEF Renders
<1> QED
  BY <1>1 DEF JobSound, JobCalm, Calm
-----------------------------------------------------------------------------
(* Downloads.                                                               *)

DownloadStages == {"idle", "extract", "media", "hls", "judge", "measured", "next", "relay", "pool", "direct",
           "running", "billing", "billed", "done", "none", "geo", "budget"}
Failures == {"none", "geo", "transient", "other", "budget", "partial", "forbidden", "forbidden transport"}
Chain == {"proxy", "relay", "pool", "direct"}
Nets == [attempt : Nat, country : Regions, region : BOOLEAN, transport : BOOLEAN, clock : Nat, until : Nat,
         error : Failures, allowed : SUBSET Regions]
Loads == [kind : {"none", "analysis", "clips", "full"}, route : Regions, bytes : Nat, timed : BOOLEAN,
          prior : BOOLEAN, geo : BOOLEAN, rest : Seq(Chain), tries : Nat, regional : BOOLEAN]
Paids == [left : Nat, owed : Nat, candidate : 1..2, cap : Nat, cost : Nat, started : Nat, ended : BOOLEAN]
DownloadTyped ==
    /\ at \in DownloadStages /\ op \in {"none", "metadata", "audio", "section", "full"}
    /\ net \in Nets /\ load \in Loads /\ paid \in Paids

\* Each kind of retry is used once, and no attempt goes on past the end of the last.
Once(b) == IF b THEN 1 ELSE 0
TriesInv ==
    /\ net.attempt = 1 + Once(net.region) + Once(net.transport)
    /\ net.clock <= net.until /\ net.until <= X!Overall
BytesInv == load.bytes > ByteLimit => at = "budget" \/ (at = "judge" /\ net.error = "budget")
\* Between operations none is under way; the region errors of all are remembered.
InChain == {"idle", "next", "relay", "pool", "direct", "running", "billing", "billed"}
RegionInv ==
    /\ at \in InChain => op = "none"
    /\ load.regional = (load.geo \/ load.prior)
    /\ at = "idle" \/ op = "metadata" => ~load.geo /\ ~load.prior
    /\ at = "none" => ~load.regional
    /\ at = "geo" => load.regional
\* The paid pool comes once in what is left of the chain, and not before nothing is owed.
InPool == {"pool", "running", "billing", "billed"}
Unspent == paid.owed = 0 /\ paid.started = 0
ChainInv ==
    /\ at \in {"idle", "measured"} \/ op \in {"metadata", "audio", "section"} => Unspent
    /\ \A i, k \in DOMAIN load.rest : load.rest[i] = "pool" /\ load.rest[k] = "pool" => i = k
    /\ (\E i \in DOMAIN load.rest : load.rest[i] = "pool") => Unspent /\ at \notin InPool
\* What is owed and what may still be spent stay within the allowance.
MoneyInv ==
    /\ paid.owed <= Allowance /\ paid.started <= 2
    /\ at # "running" => paid.ended
    /\ at = "pool" => paid.owed + paid.left <= Allowance /\ paid.started < paid.candidate
    /\ at \in {"running", "billing", "billed"} => paid.cap <= paid.left /\ paid.started <= paid.candidate
    /\ at = "running" => paid.cap <= paid.owed /\ paid.owed + paid.left <= Allowance + paid.cap
    /\ at = "billing" => paid.cost <= paid.cap /\ paid.owed + paid.left <= Allowance + paid.cost
    /\ at = "billed" => paid.owed + paid.left <= Allowance + paid.cap
DownloadInv == DownloadTyped /\ TriesInv /\ BytesInv /\ RegionInv /\ ChainInv /\ MoneyInv


-----------------------------------------------------------------------------
(* The attempts of an operation.                                            *)

LEMMA DownloadIs ==
    ASSUME DownloadInv
    PROVE  /\ net.attempt \in Nat /\ net.country \in Regions /\ net.region \in BOOLEAN /\ net.transport \in BOOLEAN
           /\ net.clock \in Nat /\ net.until \in Nat /\ net.error \in Failures /\ net \in Nets
           /\ load.route \in Regions /\ load.bytes \in Nat /\ load.prior \in BOOLEAN /\ load.geo \in BOOLEAN
           /\ load.rest \in Seq(Chain) /\ load.tries \in Nat /\ load.regional \in BOOLEAN /\ load \in Loads
           /\ load.timed \in BOOLEAN
BY DEF DownloadInv, DownloadTyped, Nets, Loads

LEMMA PaidIs ==
    ASSUME DownloadInv
    PROVE  /\ paid \in Paids /\ paid.left \in Nat /\ paid.owed \in Nat /\ paid.candidate \in 1..2 /\ paid.cap \in Nat
           /\ paid.cost \in Nat /\ paid.started \in Nat /\ paid.ended \in BOOLEAN
BY DEF DownloadInv, DownloadTyped, Paids

LEMMA ClocksAre == DownloadInv => net.attempt \in Nat /\ net.clock \in Nat /\ net.until \in Nat
BY DEF DownloadInv, DownloadTyped, Nets

\* An attempt goes on, or ends: its clock moves and bytes arrive.
NetMoves(n) ==
    /\ n \in Nets /\ n.attempt = net.attempt /\ n.region = net.region /\ n.transport = net.transport
    /\ n.until = net.until /\ n.clock <= net.until
LoadMoves(l) == l \in Loads /\ l.prior = load.prior /\ l.geo = load.geo /\ l.rest = load.rest /\ l.regional = load.regional
AttemptGoes ==
    /\ at \in {"extract", "media", "hls"} /\ UNCHANGED <<op, paid>> /\ NetMoves(net') /\ LoadMoves(load')
    /\ at' \in {"media", "hls", "judge", "done"} \/ (at' = "measured" /\ op = "metadata")
    /\ load'.bytes > ByteLimit => at' = "judge" /\ net'.error = "budget"

LEMMA AttemptKeeps == ASSUME DownloadInv, AttemptGoes PROVE DownloadInv'
<1>1. DownloadTyped'
  BY DEF DownloadInv, DownloadTyped, AttemptGoes, NetMoves, LoadMoves, DownloadStages
<1>2. TriesInv'
  BY DEF DownloadInv, TriesInv, AttemptGoes, NetMoves
<1>3. BytesInv'
  BY DEF BytesInv, AttemptGoes
<1>4. RegionInv'
  BY DEF DownloadInv, RegionInv, AttemptGoes, LoadMoves, InChain
<1>5. ChainInv'
  BY DEF DownloadInv, ChainInv, Unspent, InPool, AttemptGoes, LoadMoves
<1>6. MoneyInv'
  BY DEF DownloadInv, MoneyInv, AttemptGoes
<1> QED
  BY <1>1, <1>2, <1>3, <1>4, <1>5, <1>6 DEF DownloadInv

LEMMA FailsIs ==
    ASSUME DownloadInv, NEW minute \in net.clock..net.until, NEW error \in Failures, X!Fails(error, minute)
    PROVE  at' = "judge" /\ NetMoves(net') /\ net'.error = error
<1>1. PICK allowed \in (IF error = "geo" THEN SUBSET Regions ELSE {{}}) :
        net' = [net EXCEPT !.clock = minute, !.error = error, !.allowed = allowed]
  BY DEF X!Fails
<1>2. allowed \in SUBSET Regions
  OBVIOUS
<1>3. minute \in Nat /\ minute <= net.until
  BY DownloadIs
<1> QED
  BY <1>1, <1>2, <1>3, DownloadIs DEF Nets, NetMoves, X!Fails

LEMMA ClockIs ==
    ASSUME DownloadInv, NEW minute \in net.clock..net.until, net' = [net EXCEPT !.clock = minute]
    PROVE  NetMoves(net')
<1>1. minute \in Nat /\ minute <= net.until
  BY DownloadIs
<1> QED
  BY <1>1, DownloadIs DEF Nets, NetMoves

\* Nothing moves but the stage.
LEMMA StillMoves == DownloadInv => NetMoves(net) /\ LoadMoves(load)
BY DEF DownloadInv, DownloadTyped, TriesInv, NetMoves, LoadMoves

LEMMA TransferIs ==
    ASSUME DownloadInv, NEW errors \in SUBSET Failures, NEW late \in Failures, X!Transfer(errors, late)
    PROVE  /\ NetMoves(net') /\ LoadMoves(load') /\ at' \in {"judge", "done"}
           /\ load'.bytes > ByteLimit => at' = "judge" /\ net'.error = "budget"
<1>1. PICK minute \in net.clock..net.until, bytes \in 1..2 :
        /\ load' = [load EXCEPT !.bytes = @ + bytes]
        /\ IF load.bytes + bytes > ByteLimit THEN X!Fails("budget", minute)
           ELSE \/ minute < net.until /\ X!Arrives(minute)
                \/ \E error \in X!Errors(errors, late, minute) : X!Fails(error, minute)
  BY DEF X!Transfer
<1>2. load.bytes + bytes \in Nat /\ load'.bytes = load.bytes + bytes /\ LoadMoves(load')
  BY <1>1, DownloadIs DEF Loads, LoadMoves
<1>3. CASE load.bytes + bytes > ByteLimit
  <2>1. X!Fails("budget", minute) /\ "budget" \in Failures
    BY <1>1, <1>3 DEF Failures
  <2> QED
    BY <1>2, <2>1, FailsIs
<1>4. CASE ~(load.bytes + bytes > ByteLimit) /\ X!Arrives(minute)
  <2>1. at' = "done" /\ net' = [net EXCEPT !.clock = minute]
    BY <1>4 DEF X!Arrives
  <2> QED
    BY <1>2, <1>4, <2>1, ClockIs
<1>5. CASE ~(load.bytes + bytes > ByteLimit) /\ \E error \in X!Errors(errors, late, minute) : X!Fails(error, minute)
  <2>1. PICK error \in X!Errors(errors, late, minute) : X!Fails(error, minute)
    BY <1>5
  <2>2. error \in Failures
    BY <2>1 DEF X!Errors
  <2> QED
    BY <1>2, <1>5, <2>1, <2>2, FailsIs
<1> QED
  BY <1>1, <1>3, <1>4, <1>5

LEMMA ExtractKeeps == ASSUME DownloadInv, X!Extract PROVE DownloadInv'
<1>0. at = "extract" /\ UNCHANGED <<op, paid>>
  BY DEF X!Extract
<1>b. ~(load.bytes > ByteLimit)
  BY <1>0 DEF DownloadInv, BytesInv
<1>1. PICK minute \in net.clock..net.until :
         \/ /\ at' = (IF op = "metadata" THEN "measured" ELSE "media") /\ net' = [net EXCEPT !.clock = minute]
            /\ load' = [load EXCEPT !.route = net.country, !.timed = @ \/ op = "metadata"]
         \/ \E error \in X!Errors({"geo", "transient", "other"}, "transient", minute) :
              X!Fails(error, minute) /\ UNCHANGED load
  BY DEF X!Extract
<1>2. CASE /\ at' = (IF op = "metadata" THEN "measured" ELSE "media") /\ net' = [net EXCEPT !.clock = minute]
           /\ load' = [load EXCEPT !.route = net.country, !.timed = @ \/ op = "metadata"]
  <2>1. NetMoves(net')
    BY <1>2, ClockIs
  <2>2. LoadMoves(load') /\ load'.bytes = load.bytes
    <3> DEFINE timed == load.timed \/ op = "metadata"
    <3>1. timed \in BOOLEAN /\ load' = [load EXCEPT !.route = net.country, !.timed = timed]
      BY <1>2, DownloadIs DEF Loads
    <3> HIDE DEF timed
    <3> QED
      BY <3>1, DownloadIs DEF Loads, LoadMoves
  <2>3. AttemptGoes
    BY <1>0, <1>2, <1>b, <2>1, <2>2 DEF AttemptGoes
  <2> QED
    BY <2>3, AttemptKeeps
<1>3. CASE \E error \in X!Errors({"geo", "transient", "other"}, "transient", minute) :
              X!Fails(error, minute) /\ UNCHANGED load
  <2>1. PICK error \in X!Errors({"geo", "transient", "other"}, "transient", minute) :
              X!Fails(error, minute) /\ UNCHANGED load
    BY <1>3
  <2>2. error \in Failures
    BY <2>1 DEF X!Errors, Failures
  <2>3. at' = "judge" /\ NetMoves(net') /\ LoadMoves(load')
    BY <2>1, <2>2, FailsIs, StillMoves
  <2>4. AttemptGoes
    BY <1>0, <1>b, <2>1, <2>3 DEF AttemptGoes
  <2> QED
    BY <2>4, AttemptKeeps
<1> QED
  BY <1>1, <1>2, <1>3

LEMMA MediaKeeps == ASSUME DownloadInv, X!Media \/ X!Hls PROVE DownloadInv'
<1>0. at \in {"media", "hls"} /\ UNCHANGED <<op, paid>>
  BY DEF X!Media, X!Hls
<1>b. ~(load.bytes > ByteLimit)
  BY <1>0 DEF DownloadInv, BytesInv
<1>c. net.clock \in net.clock..net.until
  BY DownloadIs DEF DownloadInv, TriesInv
<1>1. CASE \E errors \in SUBSET Failures : \E late \in Failures : X!Transfer(errors, late)
  <2>1. AttemptGoes
    BY <1>0, <1>1, TransferIs DEF AttemptGoes
  <2> QED
    BY <2>1, AttemptKeeps
<1>2. CASE \E error \in Failures : X!Fails(error, net.clock) /\ UNCHANGED load
  <2>1. AttemptGoes
    BY <1>0, <1>b, <1>c, <1>2, FailsIs, StillMoves DEF AttemptGoes
  <2> QED
    BY <2>1, AttemptKeeps
<1>3. CASE at' = "hls" /\ UNCHANGED <<net, load>>
  <2>1. AttemptGoes
    BY <1>0, <1>b, <1>3, StillMoves DEF AttemptGoes
  <2> QED
    BY <2>1, AttemptKeeps
<1>4. {"transient", "other"} \in SUBSET Failures /\ {"forbidden", "forbidden transport"} \in SUBSET Failures
      /\ {"transient", "forbidden transport", "partial", "forbidden"} \subseteq Failures
  BY DEF Failures
<1> QED
  BY <1>1, <1>2, <1>3, <1>4 DEF X!Media, X!Hls

\* Another attempt: of each kind one.
RetryLeft ==
    \/ net.error = "geo" /\ ~net.region
    \/ net.error \in {"transient", "forbidden transport"} /\ ~net.transport
LEMMA TryAgainKeeps ==
    ASSUME DownloadInv, NEW country \in Regions, NEW until \in Nat, at = "judge", X!Again(country, until),
           net.clock <= until, until <= X!Overall, RetryLeft
    PROVE  DownloadInv'
<1> DEFINE region == net.region \/ net.error = "geo"
           transport == net.transport \/ net.error # "geo"
<1>1. /\ net' = [net EXCEPT !.attempt = net.attempt + 1, !.country = country, !.until = until, !.error = "none",
                            !.allowed = {}, !.region = region, !.transport = transport]
      /\ at' = "extract" /\ UNCHANGED <<op, load, paid>> /\ region \in BOOLEAN /\ transport \in BOOLEAN
  BY DownloadIs DEF X!Again, Nets
<1>2. /\ net.error = "geo" => region /\ transport = net.transport
      /\ net.error # "geo" => transport /\ region = net.region
  BY DownloadIs
<1> HIDE DEF region, transport
<1>a. net.attempt + 1 \in Nat /\ net.attempt \in Nat
  BY ClocksAre
<1>c. "none" \in Failures /\ net \in Nets
  BY DownloadIs DEF Failures
<1>3. /\ net' \in Nets /\ net'.attempt = net.attempt + 1 /\ net'.region = region /\ net'.transport = transport
      /\ net'.clock = net.clock /\ net'.until = until
  BY <1>1, <1>a, <1>c DEF Nets
<1>4. DownloadTyped'
  BY <1>1, <1>3 DEF DownloadInv, DownloadTyped, DownloadStages
<1>5. TriesInv'
  <2>1. net.attempt = 1 + Once(net.region) + Once(net.transport)
    BY DEF DownloadInv, TriesInv
  <2>2. net.attempt + 1 = 1 + Once(region) + Once(transport)
    <3>1. CASE net.error = "geo"
      <4>1. net.region = FALSE /\ region = TRUE /\ transport = net.transport
        BY <1>1, <1>2, <3>1, DownloadIs DEF RetryLeft
      <4> QED
        BY <1>a, <2>1, <4>1 DEF Once
    <3>2. CASE net.error # "geo"
      <4>1. net.transport = FALSE /\ transport = TRUE /\ region = net.region
        BY <1>1, <1>2, <3>2, DownloadIs DEF RetryLeft
      <4> QED
        BY <1>a, <2>1, <4>1 DEF Once
    <3> QED
      BY <3>1, <3>2
  <2> QED
    BY <1>3, <2>2 DEF TriesInv
<1>6. BytesInv'
  BY <1>1 DEF DownloadInv, BytesInv, RetryLeft
<1>7. RegionInv'
  BY <1>1 DEF DownloadInv, RegionInv, InChain
<1>8. ChainInv'
  BY <1>1 DEF DownloadInv, ChainInv, Unspent, InPool
<1>9. MoneyInv'
  BY <1>1 DEF DownloadInv, MoneyInv
<1> QED
  BY <1>4, <1>5, <1>6, <1>7, <1>8, <1>9 DEF DownloadInv

LEMMA RetryKeeps == ASSUME DownloadInv, X!SwitchRegion \/ X!NewConnection PROVE DownloadInv'
<1>0. X!Overall = Initial + 1 /\ Initial \in Nat
  BY SourcesAssumption DEF X!Overall
<1>1. CASE X!SwitchRegion
  <2>1. PICK country \in net.allowed \ {net.country} : X!Again(country, X!Overall)
    BY <1>1 DEF X!SwitchRegion
  <2>2. country \in Regions
    BY <2>1, DownloadIs DEF Nets
  <2>3. at = "judge" /\ net.clock < X!Overall /\ RetryLeft
    BY <1>1 DEF X!SwitchRegion, X!CanSwitch, RetryLeft
  <2> QED
    BY <1>0, <2>1, <2>2, <2>3, TryAgainKeeps, DownloadIs
<1>2. CASE X!NewConnection
  <2> DEFINE until == X!Smallest(X!Overall, net.clock + 1)
  <2>1. at = "judge" /\ net.clock < X!Overall /\ RetryLeft /\ X!Again(net.country, until)
    BY <1>2 DEF X!NewConnection, X!Transport, RetryLeft
  <2>2. until \in Nat /\ net.clock <= until /\ until <= X!Overall
    <3>1. X!Overall \in Nat /\ net.clock \in Nat /\ net.clock < X!Overall
      BY <1>0, <2>1, ClocksAre
    <3>2. until = IF X!Overall <= net.clock + 1 THEN X!Overall ELSE net.clock + 1
      BY DEF X!Smallest
    <3> QED
      BY <3>1, <3>2
  <2> HIDE DEF until
  <2> QED
    BY <2>1, <2>2, TryAgainKeeps, DownloadIs
<1> QED
  BY <1>1, <1>2

-----------------------------------------------------------------------------
(* Operations and what follows them.                                        *)

LEMMA FirstTryIs ==
    ASSUME NEW route \in Regions
    PROVE  /\ X!FirstTry(route) \in Nets /\ X!FirstTry(route).attempt = 1 /\ X!FirstTry(route).region = FALSE
           /\ X!FirstTry(route).transport = FALSE /\ X!FirstTry(route).clock = 0 /\ X!FirstTry(route).until = Initial
<1>1. Initial \in Nat /\ "none" \in Failures
  BY SourcesAssumption DEF Failures
<1> QED
  BY <1>1 DEF X!FirstTry, Nets

LEMMA FirstTries ==
    ASSUME NEW route \in Regions, net' = X!FirstTry(route)
    PROVE  net' \in Nets /\ TriesInv'
<1>1. /\ net' \in Nets /\ net'.attempt = 1 /\ net'.region = FALSE /\ net'.transport = FALSE /\ net'.clock = 0
      /\ net'.until = Initial
  BY FirstTryIs
<1>2. Initial \in Nat
  BY SourcesAssumption
<1> QED
  BY <1>1, <1>2 DEF TriesInv, Once, X!Overall

\* The sequences of providers.
OnePool(s) == \A i, k \in DOMAIN s : s[i] = "pool" /\ s[k] = "pool" => i = k
HasPool(s) == \E i \in DOMAIN s : s[i] = "pool"
ChainIs(s) == s \in Seq(Chain) /\ OnePool(s)

LEMMA OrderIs ==
    ASSUME NEW proxy \in BOOLEAN, NEW skip \in BOOLEAN, NEW primary \in {"relay", "pool", "direct"}
    PROVE  ChainIs(X!ProviderOrder(proxy, skip, primary))
<1> DEFINE first == IF proxy /\ ~skip THEN <<"proxy">> ELSE <<>>
           rest == IF proxy \/ primary = "relay" THEN <<"relay", "pool", "direct">>
                   ELSE IF primary = "pool" THEN <<"pool", "relay", "direct">> ELSE <<"direct", "relay", "pool">>
<1>1. X!ProviderOrder(proxy, skip, primary) = first \o rest
  BY DEF X!ProviderOrder
<1>2. rest \in Seq(Chain) /\ Len(rest) = 3 /\ OnePool(rest)
  <2>1. rest = <<"relay", "pool", "direct">> \/ rest = <<"pool", "relay", "direct">> \/ rest = <<"direct", "relay", "pool">>
    OBVIOUS
  <2> HIDE DEF rest
  <2>2. CASE rest = <<"relay", "pool", "direct">>
    BY <2>2 DEF Chain, OnePool
  <2>3. CASE rest = <<"pool", "relay", "direct">>
    BY <2>3 DEF Chain, OnePool
  <2>4. CASE rest = <<"direct", "relay", "pool">>
    BY <2>4 DEF Chain, OnePool
  <2> QED
    BY <2>1, <2>2, <2>3, <2>4
<1>3. first \in Seq(Chain) /\ (Len(first) = 0 \/ (Len(first) = 1 /\ first[1] = "proxy"))
  BY DEF Chain
<1> HIDE DEF first, rest
<1>4. first \o rest \in Seq(Chain) /\ Len(first \o rest) = Len(first) + Len(rest)
      /\ \A i \in 1..Len(first) + Len(rest) : (first \o rest)[i] = IF i <= Len(first) THEN first[i] ELSE rest[i - Len(first)]
  <2>1. first \in Seq(Chain) /\ rest \in Seq(Chain)
    BY <1>2, <1>3
  <2>2. first \o rest \in Seq(Chain)
    BY <2>1
  <2>3. Len(first \o rest) = Len(first) + Len(rest)
    BY <2>1
  <2>4. \A i \in 1..Len(first) + Len(rest) : (first \o rest)[i] = IF i <= Len(first) THEN first[i] ELSE rest[i - Len(first)]
    BY <2>1
  <2> QED
    BY <2>2, <2>3, <2>4
<1>5. OnePool(first \o rest)
  <2> SUFFICES ASSUME NEW i \in 1..Len(first) + Len(rest), NEW k \in 1..Len(first) + Len(rest),
                      (first \o rest)[i] = "pool", (first \o rest)[k] = "pool"
               PROVE  i = k
    BY <1>4 DEF OnePool
  <2>1. Len(first) \in 0..1 /\ Len(rest) = 3
    BY <1>2, <1>3
  <2>2. i > Len(first) /\ k > Len(first)
    BY <1>3, <1>4, <2>1
  <2>3. i - Len(first) \in 1..Len(rest) /\ k - Len(first) \in 1..Len(rest)
    BY <2>1, <2>2
  <2>4. rest[i - Len(first)] = "pool" /\ rest[k - Len(first)] = "pool"
    BY <1>4, <2>1, <2>2
  <2>5. i - Len(first) = k - Len(first)
    BY <1>2, <2>3, <2>4 DEF OnePool
  <2> QED
    BY <2>1, <2>5
<1> QED
  BY <1>1, <1>4, <1>5 DEF ChainIs

LEMMA TailIs ==
    ASSUME NEW s, ChainIs(s), s # <<>>
    PROVE  /\ Head(s) \in Chain /\ ChainIs(Tail(s)) /\ (HasPool(Tail(s)) => HasPool(s))
           /\ Head(s) = "pool" => HasPool(s) /\ ~HasPool(Tail(s))
<1>1. s \in Seq(Chain) /\ Len(s) \in Nat /\ Len(s) >= 1 /\ Tail(s) \in Seq(Chain) /\ Len(Tail(s)) = Len(s) - 1 /\ Head(s) = s[1]
  BY DEF ChainIs
<1>2. \A i \in 1..Len(s) - 1 : Tail(s)[i] = s[i + 1]
  BY <1>1
<1>3. DOMAIN s = 1..Len(s) /\ DOMAIN Tail(s) = 1..Len(s) - 1
  BY <1>1
<1>4. \A i \in 1..Len(s) - 1 : i + 1 \in 1..Len(s) /\ i + 1 # 1 /\ 1 \in 1..Len(s)
  BY <1>1
<1>5. OnePool(Tail(s))
  <2> SUFFICES ASSUME NEW i \in 1..Len(s) - 1, NEW k \in 1..Len(s) - 1, Tail(s)[i] = "pool", Tail(s)[k] = "pool"
               PROVE  i = k
    BY <1>3 DEF OnePool
  <2>1. i + 1 = k + 1
    BY <1>2, <1>3, <1>4 DEF ChainIs, OnePool
  <2> QED
    BY <1>1, <2>1
<1>6. HasPool(Tail(s)) => HasPool(s)
  BY <1>2, <1>3, <1>4 DEF HasPool
<1>7. Head(s) = "pool" => HasPool(s)
  BY <1>1, <1>3 DEF HasPool
<1>8. Head(s) = "pool" => ~HasPool(Tail(s))
  <2> SUFFICES ASSUME Head(s) = "pool", NEW i \in 1..Len(s) - 1, Tail(s)[i] = "pool" PROVE FALSE
    BY <1>3 DEF HasPool
  <2>1. s[i + 1] = "pool" /\ s[1] = "pool"
    BY <1>1, <1>2
  <2>2. i + 1 = 1
    BY <1>3, <1>4, <2>1 DEF ChainIs, OnePool
  <2> QED
    BY <1>4, <2>2
<1>9. Head(s) \in Chain
  BY <1>1, <1>4
<1> QED
  BY <1>1, <1>5, <1>6, <1>7, <1>8, <1>9 DEF ChainIs

\* What the chain invariant says of the providers left.
LEMMA ChainOf ==
    DownloadInv => ChainIs(load.rest) /\ (HasPool(load.rest) => Unspent /\ at \notin InPool)
BY DEF DownloadInv, DownloadTyped, Loads, ChainInv, ChainIs, OnePool, HasPool

\* The record of a job with its region errors and what is left of the chain.
LEMMA LoadTyped ==
    ASSUME DownloadInv, NEW rest \in Seq(Chain), NEW prior \in BOOLEAN, NEW geo \in BOOLEAN, NEW regional \in BOOLEAN
    PROVE  LET l == [load EXCEPT !.rest = rest, !.prior = prior, !.geo = geo, !.regional = regional]
           IN /\ l \in Loads /\ l.rest = rest /\ l.prior = prior /\ l.geo = geo /\ l.regional = regional
              /\ l.bytes = load.bytes
BY DownloadIs DEF Loads

\* An operation begins with a first attempt; the chain is as it was.
LEMMA OperateKeeps ==
    ASSUME DownloadInv, NEW name \in {"metadata", "audio", "section", "full"}, at' = "extract", op' = name,
           net' = X!FirstTry(load.route), UNCHANGED paid, load' \in Loads, load'.bytes = load.bytes,
           load'.regional = load.regional, load'.geo = load.geo, load'.prior = load.prior,
           ~(load.bytes > ByteLimit), at # "running", ChainIs(load'.rest), HasPool(load'.rest) => Unspent,
           name # "full" => Unspent, name = "metadata" => at = "idle"
    PROVE  DownloadInv'
<1>1. net' \in Nets /\ TriesInv'
  BY FirstTries, DownloadIs
<1>2. DownloadTyped'
  BY <1>1 DEF DownloadInv, DownloadTyped, DownloadStages
<1>3. BytesInv'
  BY DEF BytesInv
<1>4. RegionInv'
  BY DEF DownloadInv, RegionInv, InChain
<1>5. ChainInv'
  BY DEF ChainInv, Unspent, ChainIs, OnePool, HasPool, InPool
<1>6. MoneyInv'
  BY DEF DownloadInv, MoneyInv
<1> QED
  BY <1>1, <1>2, <1>3, <1>4, <1>5, <1>6 DEF DownloadInv

LEMMA BeginKeepsLoad == ASSUME DownloadInv, NEW kind \in {"analysis", "clips", "full"}, X!Begin(kind) PROVE DownloadInv'
<1>1. at = "idle" /\ UNCHANGED paid /\ Unspent /\ ~(load.bytes > ByteLimit) /\ op = "none" /\ ~load.geo /\ ~load.prior
  BY DEF X!Begin, DownloadInv, ChainInv, BytesInv, RegionInv, InChain
<1>2. CASE X!Operate("metadata") /\ load' = [load EXCEPT !.kind = kind] /\ kind = "analysis"
  <2>1. LoadMoves(load') /\ load'.bytes = load.bytes
    BY <1>2, DownloadIs DEF Loads, LoadMoves
  <2> QED
    BY <1>1, <1>2, <2>1, OperateKeeps, ChainOf DEF X!Operate, LoadMoves
<1>3. CASE X!Operate("section") /\ load' = [load EXCEPT !.kind = kind] /\ kind = "clips"
  <2>1. LoadMoves(load') /\ load'.bytes = load.bytes
    BY <1>3, DownloadIs DEF Loads, LoadMoves
  <2> QED
    BY <1>1, <1>3, <2>1, OperateKeeps, ChainOf DEF X!Operate, LoadMoves
<1>4. CASE /\ kind = "full" /\ at' = "next" /\ UNCHANGED <<op, net>>
           /\ \E proxy \in BOOLEAN, primary \in {"relay", "pool", "direct"} :
                load' = [load EXCEPT !.kind = kind, !.rest = X!ProviderOrder(proxy, FALSE, primary)]
  <2>1. PICK proxy \in BOOLEAN, primary \in {"relay", "pool", "direct"} :
                load' = [load EXCEPT !.kind = kind, !.rest = X!ProviderOrder(proxy, FALSE, primary)]
    BY <1>4
  <2> DEFINE order == X!ProviderOrder(proxy, FALSE, primary)
  <2>2. ChainIs(order)
    BY OrderIs
  <2> HIDE DEF order
  <2>3. /\ load' \in Loads /\ load'.bytes = load.bytes /\ load'.regional = load.regional /\ load'.geo = load.geo
        /\ load'.prior = load.prior /\ load'.rest = order
    BY <2>1, <2>2, DownloadIs DEF Loads, ChainIs, order
  <2>4. DownloadTyped'
    BY <1>1, <1>4, <2>3 DEF DownloadInv, DownloadTyped, DownloadStages
  <2>5. TriesInv' /\ BytesInv' /\ RegionInv' /\ MoneyInv'
    BY <1>1, <1>4, <2>3 DEF DownloadInv, TriesInv, BytesInv, RegionInv, MoneyInv, InChain
  <2>6. ChainInv'
    BY <1>1, <1>4, <2>2, <2>3 DEF ChainInv, Unspent, ChainIs, OnePool, InPool
  <2> QED
    BY <2>4, <2>5, <2>6 DEF DownloadInv
<1> QED
  BY <1>2, <1>3, <1>4 DEF X!Begin

LEMMA MeasuredKeeps == ASSUME DownloadInv, X!Measured PROVE DownloadInv'
<1>1. at = "measured" /\ UNCHANGED <<load, paid>> /\ Unspent /\ ~(load.bytes > ByteLimit)
  BY DEF X!Measured, DownloadInv, ChainInv, BytesInv
<1>2. at' = "extract" /\ op' = "audio" /\ net' = X!FirstTry(load.route)
  BY DEF X!Measured, X!Operate
<1> QED
  BY <1>1, <1>2, OperateKeeps, ChainOf, DownloadIs

\* An operation is over, with a file or an error to remember.
LEMMA OverKeeps ==
    ASSUME DownloadInv, at = "judge", X!Over, UNCHANGED paid, at' \in {"budget", "measured", "next"},
           load' \in Loads, load'.bytes = load.bytes, ChainIs(load'.rest), HasPool(load'.rest) => Unspent,
           load'.regional = (load'.geo \/ load'.prior), at' = "measured" => Unspent,
           at' = "budget" \/ ~(load.bytes > ByteLimit)
    PROVE  DownloadInv'
<1>1. op' = "none" /\ net' = X!FirstTry(Home) /\ Home \in Regions
  BY SourcesAssumption DEF X!Over
<1>2. net' \in Nets /\ TriesInv'
  BY <1>1, FirstTries
<1>3. DownloadTyped'
  BY <1>1, <1>2 DEF DownloadInv, DownloadTyped, DownloadStages
<1>4. BytesInv'
  BY DEF BytesInv
<1>5. RegionInv'
  BY <1>1 DEF RegionInv, InChain
<1>6. ChainInv'
  BY <1>1 DEF ChainInv, Unspent, ChainIs, OnePool, HasPool, InPool
<1>7. MoneyInv'
  BY DEF DownloadInv, MoneyInv
<1> QED
  BY <1>2, <1>3, <1>4, <1>5, <1>6, <1>7 DEF DownloadInv

\* What is known where an operation has failed for good.
LEMMA JudgeIs ==
    ASSUME DownloadInv, at = "judge"
    PROVE  /\ load.bytes > ByteLimit => net.error = "budget"
           /\ load.regional = (load.geo \/ load.prior)
           /\ op = "metadata" => ~load.geo /\ ~load.prior
           /\ op \in {"metadata", "audio", "section"} => Unspent
           /\ X!Geo \in BOOLEAN
BY DEF DownloadInv, BytesInv, RegionInv, ChainInv, X!Geo

LEMMA JudgedKeeps ==
    ASSUME DownloadInv, X!OverBudget \/ X!MetadataFails \/ X!AudioFails \/ X!SectionFails \/ X!FullFails
    PROVE  DownloadInv'
<1> DEFINE geo == X!Geo
<1>0. at = "judge" /\ geo \in BOOLEAN
  BY DEF X!OverBudget, X!MetadataFails, X!AudioFails, X!SectionFails, X!FullFails, X!Stuck, X!Geo
<1>1. /\ load.bytes > ByteLimit => net.error = "budget"
      /\ load.regional = (load.geo \/ load.prior)
      /\ op = "metadata" => ~load.geo /\ ~load.prior
      /\ op \in {"metadata", "audio", "section"} => Unspent
      /\ ChainIs(load.rest) /\ (HasPool(load.rest) => Unspent)
  BY <1>0, JudgeIs, ChainOf
<1>2. /\ (load.prior \/ geo) \in BOOLEAN /\ (load.regional \/ geo) \in BOOLEAN /\ (load.geo \/ geo) \in BOOLEAN
  BY <1>0, DownloadIs
<1> HIDE DEF geo
<1>3. CASE X!OverBudget
  <2>1. X!Over /\ UNCHANGED <<load, paid>> /\ at' = "budget"
    BY <1>3 DEF X!OverBudget
  <2> QED
    BY <1>0, <1>1, <2>1, OverKeeps, DownloadIs
<1>4. CASE X!MetadataFails
  <2>1. X!Over /\ UNCHANGED paid /\ at' = "measured" /\ op = "metadata" /\ net.error # "budget"
    BY <1>4 DEF X!MetadataFails
  <2>2. PICK timed \in BOOLEAN :
         load' = [load EXCEPT !.timed = timed, !.prior = ~timed /\ geo, !.regional = @ \/ (~timed /\ geo)]
    BY <1>4 DEF X!MetadataFails, geo
  <2> DEFINE prior == ~timed /\ geo
             regional == load.regional \/ prior
  <2>3. prior \in BOOLEAN /\ regional \in BOOLEAN /\ load' = [load EXCEPT !.timed = timed, !.prior = prior, !.regional = regional]
    BY <1>0, <2>2, DownloadIs DEF Loads
  <2>4. regional = (load.geo \/ prior)
    BY <1>1, <2>1
  <2> HIDE DEF prior, regional
  <2>5. /\ load' \in Loads /\ load'.bytes = load.bytes /\ load'.rest = load.rest /\ load'.geo = load.geo
        /\ load'.prior = prior /\ load'.regional = regional
    BY <2>3, DownloadIs DEF Loads
  <2> QED
    BY <1>0, <1>1, <2>1, <2>4, <2>5, OverKeeps
<1>5. CASE X!AudioFails /\ X!Operate("section")
  <2>1. /\ at' = "extract" /\ op' = "section" /\ net' = X!FirstTry(load.route) /\ UNCHANGED <<load, paid>>
        /\ Unspent /\ ~(load.bytes > ByteLimit)
    BY <1>1, <1>5 DEF X!AudioFails, X!Operate
  <2> QED
    BY <1>0, <1>1, <2>1, OperateKeeps, DownloadIs
<1>6. CASE (X!AudioFails /\ ~(X!Forbidden /\ load.timed)) \/ X!SectionFails
  <2>1. /\ X!Over /\ UNCHANGED paid /\ at' = "next" /\ net.error # "budget" /\ op \in {"audio", "section"}
        /\ \E skip \in BOOLEAN :
             load' = [load EXCEPT !.rest = X!ProviderOrder(TRUE, skip, "direct"), !.prior = @ \/ geo, !.regional = @ \/ geo]
    BY <1>6 DEF X!AudioFails, X!SectionFails, geo
  <2>2. PICK skip \in BOOLEAN :
             load' = [load EXCEPT !.rest = X!ProviderOrder(TRUE, skip, "direct"), !.prior = @ \/ geo, !.regional = @ \/ geo]
    BY <2>1
  <2> DEFINE order == X!ProviderOrder(TRUE, skip, "direct")
             prior == load.prior \/ geo
             regional == load.regional \/ geo
  <2>3. ChainIs(order)
    BY OrderIs
  <2>4. /\ load' = [load EXCEPT !.rest = order, !.prior = prior, !.regional = regional]
        /\ prior \in BOOLEAN /\ regional \in BOOLEAN /\ regional = (load.geo \/ prior)
    BY <1>0, <1>1, <1>2, <2>2, DownloadIs DEF Loads
  <2> HIDE DEF order, prior, regional
  <2>5. /\ load' \in Loads /\ load'.bytes = load.bytes /\ load'.rest = order /\ load'.geo = load.geo
        /\ load'.prior = prior /\ load'.regional = regional
    BY <2>3, <2>4, DownloadIs DEF Loads, ChainIs
  <2>6. Unspent /\ ~(load.bytes > ByteLimit)
    BY <1>1, <2>1
  <2>7. /\ at = "judge" /\ X!Over /\ UNCHANGED paid /\ at' = "next" /\ load' \in Loads /\ load'.bytes = load.bytes
        /\ ChainIs(load'.rest)
    BY <1>0, <2>1, <2>3, <2>5
  <2>8. load'.regional = (load'.geo \/ load'.prior)
    BY <2>4, <2>5
  <2> QED
    BY <2>6, <2>7, <2>8, OverKeeps
<1>7. CASE X!FullFails
  <2>1. X!Over /\ UNCHANGED paid /\ at' = "next" /\ net.error # "budget"
    BY <1>7 DEF X!FullFails
  <2> DEFINE all == load.geo \/ geo
             regional == load.regional \/ geo
  <2>2. /\ load' = [load EXCEPT !.geo = all, !.regional = regional]
        /\ all \in BOOLEAN /\ regional \in BOOLEAN /\ regional = (all \/ load.prior)
    BY <1>0, <1>1, <1>2, <1>7, DownloadIs DEF Loads, X!FullFails, geo
  <2> HIDE DEF all, regional
  <2>3. /\ load' \in Loads /\ load'.bytes = load.bytes /\ load'.rest = load.rest /\ load'.geo = all
        /\ load'.prior = load.prior /\ load'.regional = regional
    BY <2>2, DownloadIs DEF Loads
  <2> QED
    BY <1>0, <1>1, <2>1, <2>2, <2>3, OverKeeps
<1> QED
  BY <1>3, <1>4, <1>5, <1>6, <1>7 DEF X!AudioFails

-----------------------------------------------------------------------------
(* The chain of providers and its paid runs.                                *)

Providing == {"next", "relay", "pool", "direct", "running", "billing", "billed"}
LEMMA ChainStep ==
    ASSUME DownloadInv, UNCHANGED <<op, net>>, at \in Providing, at' \in Providing \cup {"done", "none", "geo", "budget"},
           load' \in Loads, ChainIs(load'.rest), HasPool(load'.rest) => Unspent' /\ at' \notin InPool,
           load'.regional = (load'.geo \/ load'.prior), at' = "none" => ~load'.regional, at' = "geo" => load'.regional,
           load'.bytes > ByteLimit => at' = "budget", paid' \in Paids, MoneyInv'
    PROVE  DownloadInv'
<1>0. op = "none"
  BY DEF DownloadInv, RegionInv, InChain, Providing
<1>1. DownloadTyped'
  BY DEF DownloadInv, DownloadTyped, DownloadStages, Providing
<1>2. TriesInv' /\ BytesInv'
  BY DEF DownloadInv, TriesInv, BytesInv
<1>3. RegionInv'
  BY <1>0 DEF RegionInv, Providing
<1>4. ChainInv'
  BY <1>0 DEF ChainInv, Unspent, ChainIs, OnePool, HasPool, Providing
<1> QED
  BY <1>1, <1>2, <1>3, <1>4 DEF DownloadInv

LEMMA ChainAt ==
    ASSUME DownloadInv, at \in Providing
    PROVE  /\ ~(load.bytes > ByteLimit) /\ load.regional = (load.geo \/ load.prior)
           /\ ChainIs(load.rest) /\ (HasPool(load.rest) => Unspent /\ at \notin InPool) /\ MoneyInv
BY ChainOf DEF DownloadInv, BytesInv, RegionInv, Providing

\* Steps that leave the paid runs as they are.
LEMMA UnpaidStep ==
    ASSUME DownloadInv, UNCHANGED <<op, net, paid>>, at \in Providing \ {"running"},
           at' \in {"next", "relay", "direct", "done", "none", "geo", "budget"},
           load' \in Loads, ChainIs(load'.rest), HasPool(load'.rest) => HasPool(load.rest),
           load'.regional = (load'.geo \/ load'.prior), at' = "none" => ~load'.regional, at' = "geo" => load'.regional,
           load'.bytes > ByteLimit => at' = "budget"
    PROVE  DownloadInv'
<1>1. MoneyInv'
  BY ChainAt DEF MoneyInv
<1>2. HasPool(load'.rest) => Unspent' /\ at' \notin InPool
  BY ChainAt DEF Unspent, InPool
<1>3. paid' \in Paids /\ at' \in Providing \cup {"done", "none", "geo", "budget"}
  BY PaidIs DEF Providing
<1> QED
  BY <1>1, <1>2, <1>3, ChainStep

LEMMA EndChainKeeps == ASSUME DownloadInv, at \in Providing \ {"running"}, X!EndChain PROVE DownloadInv'
<1>1. at' = (IF load.geo \/ load.prior THEN "geo" ELSE "none") /\ UNCHANGED <<op, net, load, paid>>
  BY DEF X!EndChain
<1> QED
  BY <1>1, UnpaidStep, ChainAt, DownloadIs

LEMMA DeliveredIs ==
    ASSUME DownloadInv, X!Delivered
    PROVE  LoadMoves(load') /\ at' \in {"budget", "done"} /\ (load'.bytes > ByteLimit => at' = "budget")
<1>1. PICK bytes \in 1..2 : load' = [load EXCEPT !.bytes = @ + bytes] /\ at' = IF load.bytes + bytes > ByteLimit THEN "budget" ELSE "done"
  BY DEF X!Delivered
<1>2. load.bytes + bytes \in Nat /\ load'.bytes = load.bytes + bytes /\ LoadMoves(load')
  BY <1>1, DownloadIs DEF Loads, LoadMoves
<1> QED
  BY <1>1, <1>2

LEMMA RelayKeeps == ASSUME DownloadInv, X!Relay PROVE DownloadInv'
<1>1. at = "relay" /\ UNCHANGED <<op, net, paid>> /\ at \in Providing \ {"running"}
  BY DEF X!Relay, Providing
<1>2. LoadMoves(load') /\ at' \in {"budget", "done", "next"} /\ (load'.bytes > ByteLimit => at' = "budget")
  BY <1>1, DeliveredIs, StillMoves, ChainAt DEF X!Relay
<1> QED
  BY <1>1, <1>2, UnpaidStep, ChainAt DEF LoadMoves

LEMMA DirectKeeps == ASSUME DownloadInv, X!Direct PROVE DownloadInv'
<1>1. at = "direct" /\ UNCHANGED <<op, net, paid>> /\ at \in Providing \ {"running"}
  BY DEF X!Direct, Providing
<1>2. CASE X!Delivered
  BY <1>1, <1>2, DeliveredIs, UnpaidStep, ChainAt DEF LoadMoves
<1>3. CASE at' = "next" /\ load' = [load EXCEPT !.geo = TRUE, !.regional = TRUE]
  <2>1. /\ load' \in Loads /\ load'.rest = load.rest /\ load'.bytes = load.bytes /\ load'.geo = TRUE
        /\ load'.regional = TRUE
    BY <1>3, DownloadIs DEF Loads
  <2> QED
    BY <1>1, <1>3, <2>1, UnpaidStep, ChainAt
<1>4. CASE load' = [load EXCEPT !.tries = @ + 1] /\ at' \in {"next", "direct"}
  <2>1. load.tries + 1 \in Nat
    BY DownloadIs
  <2>2. LoadMoves(load') /\ load'.bytes = load.bytes
    BY <1>4, <2>1, DownloadIs DEF Loads, LoadMoves
  <2> QED
    BY <1>1, <1>4, <2>2, UnpaidStep, ChainAt DEF LoadMoves
<1> QED
  BY <1>2, <1>3, <1>4 DEF X!Direct

LEMMA NextProviderKeeps == ASSUME DownloadInv, X!NextProvider PROVE DownloadInv'
<1>0. at = "next" /\ at \in Providing \ {"running"}
  BY DEF X!NextProvider, Providing
<1>1. CASE load.rest = <<>> /\ X!EndChain
  BY <1>0, <1>1, EndChainKeeps
<1>2. CASE load.rest # <<>>
  <2> DEFINE head == Head(load.rest)
             rest == Tail(load.rest)
  <2>1. /\ head \in Chain /\ ChainIs(rest) /\ (HasPool(rest) => HasPool(load.rest))
        /\ head = "pool" => HasPool(load.rest) /\ ~HasPool(rest)
    BY <1>0, <1>2, TailIs, ChainAt
  <2>2. /\ load' = [load EXCEPT !.rest = rest, !.tries = 0]
        /\ \/ /\ head = "proxy" /\ at' = "extract" /\ op' = "full"
              /\ net' = X!FirstTry(load.route) /\ UNCHANGED paid
           \/ /\ head # "proxy" /\ at' = head /\ UNCHANGED <<op, net>>
              /\ paid' = (IF head = "pool" THEN [paid EXCEPT !.left = Allowance, !.candidate = 1] ELSE paid)
           \/ head \in {"relay", "pool"} /\ at' = "next" /\ UNCHANGED <<op, net, paid>>
    BY <1>2 DEF X!NextProvider, X!EndChain
  <2> HIDE DEF head, rest
  <2>3. /\ load' \in Loads /\ load'.rest = rest /\ load'.bytes = load.bytes /\ load'.regional = load.regional
        /\ load'.geo = load.geo /\ load'.prior = load.prior
    BY <2>1, <2>2, DownloadIs DEF Loads, ChainIs
  <2>4. CASE at' = "extract" /\ op' = "full" /\ net' = X!FirstTry(load.route) /\ UNCHANGED paid
    BY <1>0, <2>1, <2>3, <2>4, OperateKeeps, ChainAt
  <2>5. CASE at' \in {"next", "relay", "direct"} /\ UNCHANGED <<op, net, paid>>
    BY <1>0, <2>1, <2>3, <2>5, UnpaidStep, ChainAt
  <2>6. CASE head = "pool" /\ at' = head /\ UNCHANGED <<op, net>> /\ paid' = [paid EXCEPT !.left = Allowance, !.candidate = 1]
    <3>1. HasPool(load.rest) /\ ~HasPool(rest)
      BY <2>1, <2>6
    <3>2. paid.owed = 0 /\ paid.started = 0
      BY <1>0, <3>1, ChainAt DEF Unspent
    <3>3. /\ paid' \in Paids /\ paid'.left = Allowance /\ paid'.candidate = 1 /\ paid'.owed = paid.owed
          /\ paid'.started = paid.started /\ paid'.ended = paid.ended
      <4> DEFINE first == 1
      <4>1. Allowance \in Nat /\ paid \in Paids /\ first \in 1..2
        BY PaidIs, SourcesAssumption
      <4>2. paid' = [paid EXCEPT !.left = Allowance, !.candidate = first]
        BY <2>6
      <4> HIDE DEF first
      <4>3. /\ paid' \in Paids /\ paid'.left = Allowance /\ paid'.candidate = first /\ paid'.owed = paid.owed
            /\ paid'.started = paid.started /\ paid'.ended = paid.ended
        BY <4>1, <4>2 DEF Paids
      <4> QED
        BY <4>3 DEF first
    <3>4. MoneyInv'
      BY <1>0, <2>6, <3>2, <3>3, ChainAt, SourcesAssumption DEF MoneyInv
    <3>5. at' \in Providing /\ at' = "pool"
      BY <2>6 DEF Providing
    <3> QED
      BY <1>0, <2>1, <2>3, <2>6, <3>1, <3>3, <3>4, <3>5, ChainStep, ChainAt
  <2> QED
    BY <2>1, <2>2, <2>4, <2>5, <2>6 DEF Chain
<1> QED
  BY <1>1, <1>2 DEF X!NextProvider

\* A step of the paid runs, which leaves the job as it is but for the bytes delivered.
LEMMA PaidStep ==
    ASSUME DownloadInv, UNCHANGED <<op, net>>, at \in InPool,
           at' \in InPool \cup {"next", "done", "budget"}, LoadMoves(load'),
           load'.bytes > ByteLimit => at' = "budget", paid' \in Paids, MoneyInv'
    PROVE  DownloadInv'
<1>1. at \in Providing /\ at' \in Providing \cup {"done", "none", "geo", "budget"} /\ at' # "none" /\ at' # "geo"
  BY DEF InPool, Providing
<1>2. ~HasPool(load.rest)
  BY ChainOf
<1> QED
  BY <1>1, <1>2, ChainStep, ChainAt DEF LoadMoves

LEMMA CapIs ==
    ASSUME DownloadInv
    PROVE  LET cap == X!Smallest(ActorPrices[paid.candidate], paid.left)
           IN cap \in Nat /\ cap <= paid.left
<1>1. ActorPrices[paid.candidate] = 2
  BY PaidIs DEF ActorPrices
<1>2. paid.left \in Nat
  BY PaidIs
<1> QED
  BY <1>1, <1>2 DEF X!Smallest

LEMMA SubmitDownloadKeeps == ASSUME DownloadInv, X!Submit PROVE DownloadInv'
<1> DEFINE cap == X!Smallest(ActorPrices[paid.candidate], paid.left)
<1>1. cap \in Nat /\ cap <= paid.left
  BY CapIs
<1>2. /\ at = "pool"
      /\ \/ cap = 0 /\ X!PoolFails(FALSE)
         \/ cap > 0 /\ at' = "billed" /\ paid' = [paid EXCEPT !.cap = 0] /\ UNCHANGED <<op, net, load>>
         \/ /\ cap > 0 /\ UNCHANGED <<op, net, load>>
            /\ \E answered \in BOOLEAN :
                  /\ at' = IF answered THEN "running" ELSE "billed"
                  /\ paid' = [paid EXCEPT !.cap = cap, !.owed = @ + cap, !.started = @ + 1, !.ended = ~answered]
  BY DEF X!Submit
<1> HIDE DEF cap
<1>3. /\ at \in Providing /\ at \in InPool /\ MoneyInv /\ LoadMoves(load) /\ ~(load.bytes > ByteLimit)
      /\ paid.owed + paid.left <= Allowance /\ paid.started < paid.candidate /\ paid.ended /\ Allowance \in Nat
  BY <1>2, ChainAt, StillMoves, SourcesAssumption DEF Providing, InPool, MoneyInv
<1>4. CASE X!PoolFails(FALSE)
  <2>1. at' = "next" /\ UNCHANGED <<op, net, load, paid>>
    BY <1>4 DEF X!PoolFails
  <2>2. MoneyInv'
    BY <1>3, <2>1 DEF MoneyInv
  <2> QED
    BY <1>3, <2>1, <2>2, PaidStep, PaidIs
<1>5. CASE at' = "billed" /\ paid' = [paid EXCEPT !.cap = 0] /\ UNCHANGED <<op, net, load>>
  <2>1. /\ paid' \in Paids /\ paid'.cap = 0 /\ paid'.owed = paid.owed /\ paid'.left = paid.left
        /\ paid'.started = paid.started /\ paid'.candidate = paid.candidate /\ paid'.ended = paid.ended
    BY <1>5, PaidIs DEF Paids
  <2>2. MoneyInv'
    BY <1>3, <1>5, <2>1, PaidIs DEF MoneyInv
  <2>3. at' \in InPool
    BY <1>5 DEF InPool
  <2> QED
    BY <1>3, <1>5, <2>1, <2>2, <2>3, PaidStep
<1>6. CASE /\ UNCHANGED <<op, net, load>>
           /\ \E answered \in BOOLEAN :
                  /\ at' = IF answered THEN "running" ELSE "billed"
                  /\ paid' = [paid EXCEPT !.cap = cap, !.owed = @ + cap, !.started = @ + 1, !.ended = ~answered]
  <2>1. PICK answered \in BOOLEAN :
           /\ at' = IF answered THEN "running" ELSE "billed"
           /\ paid' = [paid EXCEPT !.cap = cap, !.owed = @ + cap, !.started = @ + 1, !.ended = ~answered]
    BY <1>6
  <2> DEFINE owed == paid.owed + cap
             started == paid.started + 1
             ended == ~answered
  <2>2. owed \in Nat /\ started \in Nat /\ ended \in BOOLEAN
    BY <1>1, PaidIs
  <2>3. paid' = [paid EXCEPT !.cap = cap, !.owed = owed, !.started = started, !.ended = ended]
    BY <2>1, PaidIs DEF Paids
  <2>n. paid.owed \in Nat /\ paid.left \in Nat /\ paid.started \in Nat /\ paid.candidate \in 1..2
    BY PaidIs
  <2>s. owed <= Allowance /\ cap <= owed /\ owed + paid.left <= Allowance + cap /\ started <= paid.candidate /\ started <= 2
    BY <1>1, <1>3, <2>n
  <2>e. (at' = "running" /\ ~ended) \/ (at' = "billed" /\ ended)
    BY <2>1
  <2> HIDE DEF owed, started, ended
  <2>4. /\ paid' \in Paids /\ paid'.cap = cap /\ paid'.owed = owed /\ paid'.left = paid.left
        /\ paid'.started = started /\ paid'.candidate = paid.candidate /\ paid'.ended = ended
    BY <1>1, <2>2, <2>3, PaidIs DEF Paids
  <2>5. MoneyInv'
    BY <1>1, <2>4, <2>s, <2>e DEF MoneyInv
  <2>6. at' \in InPool
    BY <2>e DEF InPool
  <2> QED
    BY <1>3, <1>6, <2>4, <2>5, <2>6, PaidStep
<1> QED
  BY <1>2, <1>4, <1>5, <1>6

LEMMA RunEndsKeeps == ASSUME DownloadInv, X!RunEnds PROVE DownloadInv'
<1>1. at = "running" /\ UNCHANGED <<op, net>>
  BY DEF X!RunEnds
<1>2. /\ at \in Providing /\ at \in InPool /\ LoadMoves(load) /\ ~(load.bytes > ByteLimit) /\ Allowance \in Nat
      /\ paid.cap <= paid.left /\ paid.cap <= paid.owed /\ paid.owed + paid.left <= Allowance + paid.cap
      /\ paid.started <= paid.candidate /\ paid.owed <= Allowance /\ paid.started <= 2
  BY <1>1, ChainAt, StillMoves, SourcesAssumption DEF Providing, InPool, MoneyInv
<1>3. paid.owed \in Nat /\ paid.left \in Nat /\ paid.cap \in Nat /\ paid.started \in Nat /\ paid.candidate \in 1..2
  BY PaidIs
<1>4. CASE \E cost \in 0..paid.cap :
            /\ paid' = [paid EXCEPT !.cost = cost, !.owed = @ - (paid.cap - cost), !.ended = TRUE]
            /\ X!Delivered \/ (at' = "billing" /\ UNCHANGED load)
  <2>1. PICK cost \in 0..paid.cap :
            /\ paid' = [paid EXCEPT !.cost = cost, !.owed = @ - (paid.cap - cost), !.ended = TRUE]
            /\ X!Delivered \/ (at' = "billing" /\ UNCHANGED load)
    BY <1>4
  <2> DEFINE owed == paid.owed - (paid.cap - cost)
  <2>2. owed \in Nat /\ cost \in Nat /\ owed <= Allowance /\ cost <= paid.cap /\ owed + paid.left <= Allowance + cost
    BY <1>2, <1>3
  <2>3. paid' = [paid EXCEPT !.cost = cost, !.owed = owed, !.ended = TRUE]
    BY <2>1, PaidIs DEF Paids
  <2> HIDE DEF owed
  <2>4. /\ paid' \in Paids /\ paid'.cost = cost /\ paid'.owed = owed /\ paid'.left = paid.left /\ paid'.cap = paid.cap
        /\ paid'.started = paid.started /\ paid'.candidate = paid.candidate /\ paid'.ended = TRUE
    BY <2>2, <2>3, PaidIs DEF Paids
  <2>5. at' \in {"billing", "done", "budget"} /\ LoadMoves(load') /\ (load'.bytes > ByteLimit => at' = "budget")
    BY <1>2, <2>1, DeliveredIs
  <2>6. MoneyInv'
    BY <1>2, <2>2, <2>4, <2>5 DEF MoneyInv
  <2>7. at' \in InPool \cup {"next", "done", "budget"}
    BY <2>5 DEF InPool
  <2> QED
    BY <1>1, <1>2, <2>4, <2>5, <2>6, <2>7, PaidStep
<1>5. CASE at' = "billed" /\ paid' = [paid EXCEPT !.ended = TRUE] /\ UNCHANGED load
  <2>1. /\ paid' \in Paids /\ paid'.owed = paid.owed /\ paid'.left = paid.left /\ paid'.cap = paid.cap
        /\ paid'.started = paid.started /\ paid'.candidate = paid.candidate /\ paid'.ended = TRUE
    BY <1>5, PaidIs DEF Paids
  <2>2. MoneyInv'
    BY <1>2, <1>5, <2>1 DEF MoneyInv
  <2>3. at' \in InPool
    BY <1>5 DEF InPool
  <2> QED
    BY <1>1, <1>2, <1>5, <2>1, <2>2, <2>3, PaidStep
<1> QED
  BY <1>4, <1>5 DEF X!RunEnds

LEMMA BillKeeps == ASSUME DownloadInv, X!Bill PROVE DownloadInv'
<1>1. at = "billing" /\ at' = "billed" /\ UNCHANGED <<op, net, load>>
  BY DEF X!Bill
<1>2. /\ at \in InPool /\ at' \in InPool /\ LoadMoves(load) /\ ~(load.bytes > ByteLimit) /\ Allowance \in Nat
      /\ paid.cap <= paid.left /\ paid.cost <= paid.cap /\ paid.owed + paid.left <= Allowance + paid.cost
      /\ paid.started <= paid.candidate /\ paid.owed <= Allowance /\ paid.started <= 2 /\ paid.ended
  BY <1>1, ChainAt, StillMoves, SourcesAssumption DEF Providing, InPool, MoneyInv
<1>3. PICK spent \in {paid.cost, paid.cap} : paid' = [paid EXCEPT !.cap = spent]
  BY DEF X!Bill
<1>4. paid.owed \in Nat /\ paid.left \in Nat /\ paid.cap \in Nat /\ paid.cost \in Nat /\ spent \in Nat
  BY PaidIs
<1>5. spent <= paid.left /\ paid.owed + paid.left <= Allowance + spent
  BY <1>2, <1>4
<1>6. /\ paid' \in Paids /\ paid'.owed = paid.owed /\ paid'.left = paid.left /\ paid'.cap = spent
      /\ paid'.started = paid.started /\ paid'.candidate = paid.candidate /\ paid'.ended = paid.ended
  BY <1>3, <1>4, PaidIs DEF Paids
<1>7. MoneyInv'
  BY <1>1, <1>2, <1>5, <1>6 DEF MoneyInv
<1> QED
  BY <1>1, <1>2, <1>6, <1>7, PaidStep

LEMMA NextActorKeeps == ASSUME DownloadInv, X!NextActor PROVE DownloadInv'
<1>1. at = "billed" /\ Len(ActorPrices) = 2
  BY DEF X!NextActor, ActorPrices
<1>2. /\ at \in Providing \ {"running"} /\ at \in InPool /\ LoadMoves(load) /\ ~(load.bytes > ByteLimit) /\ Allowance \in Nat
      /\ paid.cap <= paid.left /\ paid.owed + paid.left <= Allowance + paid.cap /\ MoneyInv
      /\ paid.started <= paid.candidate /\ paid.owed <= Allowance /\ paid.started <= 2 /\ paid.ended
  BY <1>1, ChainAt, StillMoves, SourcesAssumption DEF Providing, InPool, MoneyInv
<1>3. CASE /\ paid.candidate < Len(ActorPrices) /\ at' = "pool" /\ UNCHANGED <<op, net, load>>
           /\ paid' = [paid EXCEPT !.left = @ - paid.cap, !.candidate = @ + 1]
  <2> DEFINE left == paid.left - paid.cap
             candidate == paid.candidate + 1
  <2>1. paid.owed \in Nat /\ paid.left \in Nat /\ paid.cap \in Nat /\ paid.started \in Nat /\ paid.candidate \in 1..2
    BY PaidIs
  <2>2. left \in Nat /\ candidate \in 1..2 /\ paid.owed + left <= Allowance /\ paid.started < candidate
    BY <1>1, <1>2, <1>3, <2>1
  <2>3. paid' = [paid EXCEPT !.left = left, !.candidate = candidate]
    BY <1>3, PaidIs DEF Paids
  <2> HIDE DEF left, candidate
  <2>4. /\ paid' \in Paids /\ paid'.owed = paid.owed /\ paid'.left = left /\ paid'.cap = paid.cap
        /\ paid'.started = paid.started /\ paid'.candidate = candidate /\ paid'.ended = paid.ended
    BY <2>2, <2>3, PaidIs DEF Paids
  <2>5. MoneyInv'
    BY <1>2, <1>3, <2>2, <2>4 DEF MoneyInv
  <2>6. at' \in InPool
    BY <1>3 DEF InPool
  <2> QED
    BY <1>2, <1>3, <2>4, <2>5, <2>6, PaidStep
<1>4. CASE at' = "next" /\ UNCHANGED <<op, net, load, paid>>
  <2>1. MoneyInv'
    BY <1>2, <1>4 DEF MoneyInv
  <2> QED
    BY <1>2, <1>4, <2>1, PaidStep, PaidIs
<1>5. CASE X!EndChain
  BY <1>2, <1>5, EndChainKeeps
<1> QED
  BY <1>3, <1>4, <1>5 DEF X!NextActor, X!PoolFails

LEMMA DownloadStepKeeps == ASSUME DownloadInv, X!Next PROVE DownloadInv'
BY BeginKeepsLoad, ExtractKeeps, MediaKeeps, RetryKeeps, JudgedKeeps, MeasuredKeeps, NextProviderKeeps, RelayKeeps,
   DirectKeeps, SubmitDownloadKeeps, RunEndsKeeps, BillKeeps, NextActorKeeps DEF X!Next

LEMMA DownloadStays == DownloadInv /\ UNCHANGED download => DownloadInv'
<1> SUFFICES ASSUME DownloadInv, UNCHANGED download PROVE DownloadInv'
  OBVIOUS
<1>1. at' = at /\ op' = op /\ net' = net /\ load' = load /\ paid' = paid
  BY DEF download
<1> QED
  BY <1>1 DEF DownloadInv, DownloadTyped, TriesInv, BytesInv, RegionInv, ChainInv, Unspent, MoneyInv

LEMMA DownloadInitHolds == Init => DownloadInv
<1> SUFFICES ASSUME NEW stage \in {"idle", "none"}, X!StartIn(stage) PROVE DownloadInv
  BY DEF Init, X!Init, X!Gone
<1>1. at = stage /\ op = "none" /\ net = X!FirstTry(Home) /\ load = X!NoLoad /\ paid = X!NoRuns
      /\ Home \in Regions /\ Initial \in Nat /\ Allowance \in Nat /\ ByteLimit \in Nat
  BY SourcesAssumption DEF X!StartIn
<1>2. /\ net \in Nets /\ net.attempt = 1 /\ net.region = FALSE /\ net.transport = FALSE /\ net.clock = 0
      /\ net.until = Initial
  BY <1>1, FirstTryIs
<1>3. <<>> \in Seq(Chain) /\ DOMAIN <<>> = {}
  OBVIOUS
<1>4. /\ load \in Loads /\ load.rest = <<>> /\ load.bytes = 0 /\ load.prior = FALSE /\ load.geo = FALSE
      /\ load.regional = FALSE
  BY <1>1, <1>3 DEF X!NoLoad, Loads
<1>5. /\ paid \in Paids /\ paid.owed = 0 /\ paid.started = 0 /\ paid.ended = TRUE
  BY <1>1 DEF X!NoRuns, Paids
<1>6. DownloadTyped
  BY <1>1, <1>2, <1>4, <1>5 DEF DownloadTyped, DownloadStages
<1>7. TriesInv
  BY <1>1, <1>2 DEF TriesInv, Once, X!Overall
<1>8. BytesInv /\ RegionInv
  <2>1. BytesInv
    BY <1>1, <1>4 DEF BytesInv
  <2>2. load.regional = (load.geo \/ load.prior) /\ ~load.regional /\ ~load.geo /\ ~load.prior
    BY <1>4
  <2>3. op = "none" /\ at # "geo"
    BY <1>1
  <2> QED
    BY <2>1, <2>2, <2>3 DEF RegionInv
<1>9. ChainInv
  BY <1>3, <1>4, <1>5 DEF ChainInv, Unspent
<1>10. MoneyInv
  BY <1>1, <1>5 DEF MoneyInv
<1> QED
  BY <1>6, <1>7, <1>8, <1>9, <1>10 DEF DownloadInv

\* The attempts, the region errors, the bytes and the money of a download, for any regions,
\* minutes, limit and allowance.
THEOREM DownloadInductive == Spec => []DownloadInv
<1>1. Init => DownloadInv
  BY DownloadInitHolds
<1>2. DownloadInv /\ [Next]_<<part, drafts, editorExports, aiEdits, replicas,
                              generation, accounts, sourceCache, download, workspace, stream>> => DownloadInv'
  BY DownloadStepKeeps, DownloadStays DEF Next
<1> QED
  BY <1>1, <1>2, PTL DEF Spec

LEMMA DownloadSound == DownloadInv => X!DownloadHolds
<1> SUFFICES ASSUME DownloadInv PROVE X!DownloadHolds
  OBVIOUS
<1>1. net.attempt <= 3 /\ net.clock <= X!Overall
  <2>1. net.attempt = 1 + Once(net.region) + Once(net.transport) /\ net.clock <= net.until /\ net.until <= X!Overall
    BY DEF DownloadInv, TriesInv
  <2>2. Once(net.region) \in 0..1 /\ Once(net.transport) \in 0..1
    BY DEF Once
  <2>3. X!Overall \in Nat
    BY SourcesAssumption DEF X!Overall
  <2> QED
    BY <2>1, <2>2, <2>3, ClocksAre
<1>2. at = "done" => load.bytes <= ByteLimit
  <2>1. load.bytes \in Nat /\ ByteLimit \in Nat
    BY DownloadIs, SourcesAssumption
  <2> QED
    BY <2>1 DEF DownloadInv, BytesInv
<1>3. Len(ActorPrices) = 2
  BY DEF ActorPrices
<1> QED
  BY <1>1, <1>2, <1>3 DEF X!DownloadHolds, DownloadInv, BytesInv, RegionInv, MoneyInv

LEMMA SourcesTyped == CacheInv /\ DownloadInv => Y!TypeOK /\ X!TypeOK
<1> SUFFICES ASSUME CacheInv, DownloadInv PROVE Y!TypeOK /\ X!TypeOK
  OBVIOUS
<1>1. Y!TypeOK
  <2>1. dir.manifest \in Manifests /\ remote.full \subseteq Heights /\ remote.parts \subseteq Parts
    BY DEF CacheInv, CacheTyped, Directories, Remotes
  <2>2. ASSUME NEW j \in Jobs PROVE cacheJob[j].todo \subseteq Parts /\ cacheJob[j].height \in Heights \cup {0}
    <3>1. cacheJob[j] \in CacheJobs
      BY DEF CacheInv, CacheTyped
    <3> QED
      BY <3>1 DEF CacheJobs
  <2> QED
    BY <2>1, <2>2 DEF Manifests, Y!TypeOK
<1>2. X!TypeOK
  <2>1. op \in {"none", "metadata", "audio", "section", "full"} /\ net \in Nets /\ load \in Loads /\ paid \in Paids
    BY DEF DownloadInv, DownloadTyped
  <2>2. net.clock <= net.until
    BY DEF DownloadInv, TriesInv
  <2>3. Len(ActorPrices) = 2
    BY DEF ActorPrices
  <2> QED
    BY <2>1, <2>2, <2>3 DEF Nets, Loads, Paids, X!TypeOK
<1> QED
  BY <1>1, <1>2
=============================================================================
