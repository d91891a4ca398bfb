------------------------------ MODULE SourceCache ------------------------------
(* The cache of one YouTube source: analysis audio, sections and full files of    *)
(* one directory, their manifest and its lock, the copy in the object store, and  *)
(* the jobs that fill and use them. A job may die, a copy may fail, and a job     *)
(* that begins removes a directory whose manifest has grown old. SourceTimeline   *)
(* has the arithmetic of the sections; here a section is a part of the plan.      *)
EXTENDS Naturals, FiniteSets

CONSTANTS Jobs, Parts, Heights, MaxBegins, MaxFailures

VARIABLES
    dir,      \* the directory: how often it began anew, manifest, files, their age
    remote,   \* what the object store has of it
    job,      \* each job: where it is, what it wants, what it renders from
    trouble   \* jobs begun, failures, and what went wrong with the directory
cvars == <<dir, remote, job, trouble>>

NoParts == [p \in Parts |-> "none"]
NoFull == [h \in Heights |-> "none"]
Empty == [audio |-> FALSE, full |-> 0, parts |-> {}]
NewDir(era) == [era |-> era, saved |-> FALSE, old |-> FALSE, manifest |-> Empty,
                audio |-> "none", full |-> NoFull, part |-> NoParts]
NoJob == [at |-> "rest", locked |-> FALSE, era |-> 0, height |-> 0, sections |-> FALSE, todo |-> {},
          source |-> [full |-> 0, parts |-> NoParts], then |-> "rest"]

StartIn(begins) ==
    /\ dir = NewDir(0) /\ job = [j \in Jobs |-> NoJob]
    /\ remote = [saved |-> FALSE, manifest |-> Empty, audio |-> FALSE, full |-> {}, parts |-> {}]
    /\ trouble = [begins |-> begins, failures |-> 0, unrestored |-> FALSE, swept |-> FALSE]
Init == StartIn(0)
Gone == StartIn(MaxBegins)

Fails == trouble.failures < MaxFailures
Failed == [trouble EXCEPT !.failures = @ + 1]
At(j, stage) == job[j].at = stage /\ job[j].locked
\* cache_lock: held on the lock file of the directory the job opened.
Free == \A j \in Jobs : ~(job[j].locked /\ job[j].era = dir.era)
Go(j, stage) == job' = [job EXCEPT ![j].at = stage]
Unlock(j, stage) == job' = [job EXCEPT ![j].at = stage, ![j].locked = FALSE]
Save(d, m) == [d EXCEPT !.manifest = m, !.saved = TRUE, !.old = FALSE]

(***************************************************************************)
(* Files and copies                                                        *)
(***************************************************************************)
\* A file counts when it is listed and has bytes.
Audio == dir.manifest.audio /\ dir.audio # "none"
Pieces == {p \in dir.manifest.parts : dir.part[p] # "none"}
\* Variant: any full file is good enough.
UsableAny(height) == dir.manifest.full # 0 /\ dir.full[dir.manifest.full] # "none"
Usable(height) == dir.manifest.full # 0 /\ dir.full[dir.manifest.full] # "none" /\ height <= dir.manifest.full
UseFull(j) == job' = [job EXCEPT ![j].at = "use", ![j].locked = FALSE, ![j].source.full = dir.manifest.full]

Restored(d) ==
    [d EXCEPT !.saved = TRUE, !.old = FALSE, !.manifest = remote.manifest,
        !.audio = IF @ = "none" /\ remote.audio /\ remote.manifest.audio THEN "whole" ELSE @,
        !.full = [h \in Heights |-> IF @[h] = "none" /\ h \in remote.full /\ h = remote.manifest.full THEN "whole" ELSE @[h]],
        !.part = [p \in Parts |-> IF @[p] = "none" /\ p \in remote.parts /\ p \in remote.manifest.parts THEN "whole" ELSE @[p]]]
\* The manifest was copied when the copy of a file it lists had failed.
Missing == ~(remote.manifest.parts \subseteq remote.parts /\ remote.manifest.full \in remote.full \cup {0})
\* The lock, then what the object store has when there is no manifest here. A file that
\* is not there, or cannot be copied, stays listed.
Enter(j) ==
    /\ job[j].at \in {"audio", "sections", "cover", "resolve", "adopt"} /\ ~job[j].locked /\ Free
    /\ job' = [job EXCEPT ![j].locked = TRUE, ![j].era = dir.era]
    /\ \/ /\ job[j].at = "cover" \/ dir.saved \/ ~remote.saved
          /\ UNCHANGED <<dir, trouble>>
       \/ /\ job[j].at # "cover" /\ ~dir.saved /\ remote.saved
          /\ \/ dir' = Restored(dir) /\ trouble' = [trouble EXCEPT !.unrestored = @ \/ Missing]
             \/ /\ Fails /\ trouble' = [Failed EXCEPT !.unrestored = TRUE]
                /\ dir' = [dir EXCEPT !.saved = TRUE, !.manifest = remote.manifest]
    /\ UNCHANGED remote
\* persist_named: a copy that fails is logged; the manifest is copied as it is then.
Published ==
    [remote EXCEPT !.saved = dir.saved \/ @, !.manifest = IF dir.saved THEN dir.manifest ELSE @,
        !.audio = @ \/ dir.audio = "whole", !.full = @ \cup {h \in Heights : dir.full[h] = "whole"},
        !.parts = @ \cup {p \in Parts : dir.part[p] = "whole"}]
Publish(j) ==
    /\ job[j].at = "publish"
    /\ \/ remote' = Published /\ UNCHANGED trouble
       \/ Fails /\ trouble' = Failed /\ UNCHANGED remote
    /\ Go(j, job[j].then) /\ UNCHANGED dir

(***************************************************************************)
(* A job: it removes the directory when its manifest is old, then takes    *)
(* the audio for the analysis, or a full file.                             *)
(***************************************************************************)
Begin(j) ==
    /\ job[j].at = "rest" /\ trouble.begins < MaxBegins
    /\ \E height \in Heights, sections \in BOOLEAN :
         job' = [job EXCEPT ![j] = [NoJob EXCEPT !.at = IF sections THEN "audio" ELSE "resolve",
                                        !.height = height, !.sections = sections]]
    /\ dir' = (IF dir.old THEN NewDir(dir.era + 1) ELSE dir)
    /\ trouble' = [trouble EXCEPT !.begins = @ + 1,
                       !.swept = @ \/ (dir.old /\ \E k \in Jobs : job[k].at \notin {"rest", "use"})]
    /\ UNCHANGED remote
GrowOld ==
    /\ dir.saved /\ ~dir.old /\ trouble.begins \in 1..MaxBegins - 1 /\ dir' = [dir EXCEPT !.old = TRUE]
    /\ UNCHANGED <<remote, job, trouble>>

\* download_audio_for_job: the lock is held until the manifest has the file.
AudioHit(j) == At(j, "audio") /\ Audio /\ Unlock(j, "sections") /\ UNCHANGED <<dir, remote, trouble>>
AudioStart(j) ==
    /\ At(j, "audio") /\ ~Audio /\ Go(j, "hearing") /\ dir' = [dir EXCEPT !.audio = "partial"]
    /\ UNCHANGED <<remote, trouble>>
AudioEnd(j) ==
    /\ At(j, "hearing")
    /\ dir' = Save([dir EXCEPT !.audio = IF job[j].era = dir.era THEN "whole" ELSE @],
                   [dir.manifest EXCEPT !.audio = TRUE])
    /\ job' = [job EXCEPT ![j].at = "publish", ![j].then = "sections", ![j].locked = FALSE]
    /\ UNCHANGED <<remote, trouble>>
\* Then the full file is fetched instead.
AudioFails(j) ==
    /\ At(j, "hearing") /\ Fails /\ trouble' = Failed /\ Unlock(j, "resolve")
    /\ dir' = [dir EXCEPT !.audio = "none"] /\ UNCHANGED remote

\* materialize_clip_source: a full file, or the missing sections under the same lock.
PlanSections(j) ==
    /\ At(j, "sections")
    /\ \/ Usable(job[j].height) /\ UseFull(j)
       \/ ~Usable(job[j].height) /\ job' = [job EXCEPT ![j].at = "fill", ![j].todo = Parts \ Pieces]
    /\ UNCHANGED <<dir, remote, trouble>>
Slice(j) == CHOOSE p \in job[j].todo : \A q \in job[j].todo : p <= q
\* Variant: the range is listed when its download begins.
SectionListed(j) ==
    /\ At(j, "fill") /\ job[j].todo # {}
    /\ dir' = Save([dir EXCEPT !.part[Slice(j)] = "partial"],
                   [dir.manifest EXCEPT !.parts = @ \cup {Slice(j)}])
    /\ Go(j, "slicing") /\ UNCHANGED <<remote, trouble>>
SectionStart(j) ==
    /\ At(j, "fill") /\ job[j].todo # {}
    /\ dir' = [dir EXCEPT !.part[Slice(j)] = "partial"]
    /\ Go(j, "slicing") /\ UNCHANGED <<remote, trouble>>
\* The file is there, the manifest is read again and lists it, both are copied. A
\* directory removed meanwhile has no such file, unless another job is writing one.
SectionEnd(j) ==
    LET p == Slice(j)
        d == [dir EXCEPT !.part[p] = IF job[j].era = dir.era THEN "whole" ELSE @]
    IN /\ At(j, "slicing") /\ d.part[p] # "none"
       /\ dir' = Save(d, [dir.manifest EXCEPT !.parts = @ \cup {p}])
       /\ \/ /\ remote' = [remote EXCEPT !.saved = TRUE, !.manifest = dir'.manifest,
                                         !.parts = IF d.part[p] = "whole" THEN @ \cup {p} ELSE @]
             /\ UNCHANGED trouble
          \/ Fails /\ trouble' = Failed /\ UNCHANGED remote
       /\ job' = [job EXCEPT ![j].at = "fill", ![j].todo = @ \ {p}]
SectionFails(j) ==
    /\ At(j, "slicing") /\ (Fails \/ (job[j].era # dir.era /\ dir.part[Slice(j)] = "none"))
    /\ trouble' = (IF job[j].era = dir.era THEN Failed ELSE trouble)
    /\ dir' = [dir EXCEPT !.part[Slice(j)] = "none"]
    /\ Unlock(j, "rest") /\ UNCHANGED remote
Filled(j) == At(j, "fill") /\ job[j].todo = {} /\ Unlock(j, "cover") /\ UNCHANGED <<dir, remote, trouble>>
\* The second time under the lock: every range must have its pieces.
Cover(j) ==
    /\ At(j, "cover") /\ Unlock(j, IF Pieces = Parts THEN "assemble" ELSE "rest")
    /\ UNCHANGED <<dir, remote, trouble>>
\* Cutting them into one file happens outside the lock.
Assemble(j) ==
    /\ job[j].at = "assemble"
    /\ job' = [job EXCEPT ![j] = IF \E p \in Parts : dir.part[p] = "none" THEN NoJob
                                 ELSE [@ EXCEPT !.at = "use", !.source.parts = dir.part]]
    /\ UNCHANGED <<dir, remote, trouble>>

\* resolve_full_youtube_download: the lock is not held while the file is downloaded.
Resolve(j) ==
    /\ At(j, "resolve")
    /\ IF Usable(job[j].height) THEN UseFull(j) ELSE Unlock(j, "download")
    /\ UNCHANGED <<dir, remote, trouble>>
Download(j) ==
    /\ job[j].at = "download"
    /\ \/ Go(j, "adopt") /\ UNCHANGED trouble
       \/ Fails /\ trouble' = Failed /\ job' = [job EXCEPT ![j] = NoJob]
    /\ UNCHANGED <<dir, remote>>
\* adopt_full_download: another job's file is kept, or this one is copied to a name
\* of its height.
AdoptKeep(j) ==
    /\ At(j, "adopt") /\ Usable(job[j].height) /\ UseFull(j)
    /\ UNCHANGED <<dir, remote, trouble>>
AdoptStart(j) ==
    /\ At(j, "adopt") /\ ~Usable(job[j].height) /\ Go(j, "adopting")
    /\ dir' = [dir EXCEPT !.full[job[j].height] = "partial"]
    /\ UNCHANGED <<remote, trouble>>
AdoptEnd(j) ==
    LET h == job[j].height
    IN /\ At(j, "adopting")
       /\ dir' = Save([dir EXCEPT !.full[h] = IF job[j].era = dir.era THEN "whole" ELSE @],
                      [dir.manifest EXCEPT !.full = h])
       /\ job' = [job EXCEPT ![j].at = "publish", ![j].then = "use", ![j].locked = FALSE,
                             ![j].source.full = h]
       /\ UNCHANGED <<remote, trouble>>
\* The render ends, or the job dies and the kernel drops its lock.
Done(j) ==
    /\ job[j].at = "use" /\ job' = [job EXCEPT ![j] = NoJob] /\ UNCHANGED <<dir, remote, trouble>>
Dies(j) ==
    /\ job[j].at # "rest" /\ Fails /\ trouble' = Failed
    /\ job' = [job EXCEPT ![j] = NoJob] /\ UNCHANGED <<dir, remote>>

Next ==
    \/ GrowOld
    \/ \E j \in Jobs :
         \/ Begin(j) \/ Enter(j) \/ Publish(j) \/ AudioHit(j) \/ AudioStart(j) \/ AudioEnd(j) \/ AudioFails(j)
         \/ PlanSections(j) \/ SectionStart(j) \/ SectionEnd(j) \/ SectionFails(j) \/ Filled(j) \/ Cover(j)
         \/ Assemble(j) \/ Resolve(j) \/ Download(j) \/ AdoptKeep(j) \/ AdoptStart(j) \/ AdoptEnd(j)
         \/ Done(j) \/ Dies(j)
Spec == Init /\ [][Next]_cvars

(***************************************************************************)
(* Properties                                                              *)
(***************************************************************************)
TypeOK ==
    /\ dir.manifest.full \in Heights \cup {0} /\ dir.manifest.parts \subseteq Parts
    /\ remote.full \subseteq Heights /\ remote.parts \subseteq Parts
    /\ \A j \in Jobs : job[j].todo \subseteq Parts /\ job[j].height \in Heights \cup {0}
\* A job renders from a full file at least as high as its plan asks for (youtube_source.py:
\* 604-609), or from sections that are all there and whole, and "a better download never
\* rewrites a file another job is reading" (youtube_source.py:656), whoever dies while
\* writing; unless a file the restored manifest lists could not be copied, to the store
\* or from it, or the directory was removed under a job at work.
SourceIsSound ==
    \A j \in Jobs : job[j].at = "use" =>
        LET s == job[j].source
        IN /\ s.full # 0 => job[j].height <= s.full
           /\ ~trouble.unrestored /\ ~trouble.swept =>
                /\ s.full = 0 => \A p \in Parts : s.parts[p] = "whole"
                /\ s.full # 0 /\ job[j].era = dir.era => dir.full[s.full] = "whole"
=============================================================================
