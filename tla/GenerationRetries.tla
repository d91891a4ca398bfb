--------------------------- MODULE GenerationRetries ---------------------------
(* The runs of one task: what the stages of the pipeline save in the task's       *)
(* checkpoint, what a retry takes from it when the input key, the word timings or *)
(* the clips have changed in between, and the metadata a settings edit and a      *)
(* resume both write. TaskLifecycle has the statuses, guards and charges of the   *)
(* same runs; here one run follows another, as the run guard makes them.          *)
EXTENDS Naturals

CONSTANTS
    Keys,      \* the input keys: source, processing mode, length, transcription settings
    Texts,     \* how many transcripts the task may make
    PlanSize,  \* the most segments of a plan
    MaxRuns, MaxEdits

VARIABLES
    status,     \* tasks.status
    key,        \* the key the next run computes from its inputs and the configuration
    checkpoint, \* task_processing_checkpoints: its key and payload; how often it began anew
    cache,      \* the processing cache of the source, which other tasks fill too
    sidecar,    \* the transcript whose word timings lie beside the source, 0 for none
    clips,      \* generated_clips: display order, and the position each was made for
    made,       \* every position a run ever made a clip for, with the era of its plan
    run,        \* the run: where it is, and its locals
    metadata,   \* tasks.source_metadata: the job reserved last and the cleanup settings
    resume, settings,  \* the two requests that write it: where each is, and what it read
    counts      \* transcripts, analyses, runs, edits and jobs so far
gvars == <<status, key, checkpoint, cache, sidecar, clips, made, run, metadata, resume, settings, counts>>

None == [id |-> 0, of |-> 0, own |-> FALSE, size |-> 0]
Shared == Texts + 1      \* the transcript, and the analysis, of another task
Empty == [text |-> 0, words |-> 0, analysis |-> None, candidates |-> None, segments |-> None,
          positions |-> {0}]     \* {0}: completed_positions was never saved
NoRun == [at |-> "none", key |-> 0, cp |-> Empty, text |-> 0, cached |-> None, plan |-> None,
          done |-> {}, failed |-> FALSE, next |-> 1]
NoRequest == [at |-> "none", read |-> [job |-> 0, style |-> 0]]
Orders == {c.order : c \in clips}
Highest(S) == IF S = {} THEN 0 ELSE CHOOSE x \in S : \A y \in S : y <= x

StartIn(s) ==
    /\ status = s /\ key = CHOOSE k \in Keys : TRUE
    /\ checkpoint = [key |-> key, era |-> 0, payload |-> Empty]
    /\ clips = {} /\ made = {} /\ run = NoRun
    /\ metadata = [job |-> 1, style |-> 0] /\ resume = NoRequest /\ settings = NoRequest
    /\ counts = [texts |-> 0, analyses |-> 0, runs |-> 0, edits |-> 0, jobs |-> 1]
Init ==
    /\ StartIn("queued") /\ sidecar \in {0, Shared}
    /\ cache \in {[text |-> t, analysis |-> a] : t \in {0, Shared},
                    a \in {None, [id |-> Shared, of |-> Shared, own |-> FALSE, size |-> PlanSize]}}
Gone == StartIn("deleted") /\ cache = [text |-> 0, analysis |-> None] /\ sidecar = 0

(***************************************************************************)
(* The checkpoint                                                          *)
(***************************************************************************)
\* What a patch leaves of a payload, and what it replaces.
Merged(patch, payload) == [field \in DOMAIN payload |-> IF field \in DOMAIN patch THEN patch[field] ELSE payload[field]]
\* Variant: the payload is merged whatever its key.
SaveMerged(patch) == checkpoint' = [checkpoint EXCEPT !.payload = Merged(patch, @), !.key = run.key]
\* A save under another key replaces the payload: the checkpoint begins anew.
Save(patch) == checkpoint' =
    IF checkpoint.key = run.key THEN [checkpoint EXCEPT !.payload = Merged(patch, @)]
    ELSE [key |-> run.key, era |-> checkpoint.era + 1, payload |-> Merged(patch, Empty)]
\* save_checkpoint: the row, then the run's own copy.
SaveAnd(patch, next) == Save(patch) /\ run' = [next EXCEPT !.cp = Merged(patch, @)]

(***************************************************************************)
(* A run. A cancelled task stops it at its next progress update, or at the *)
(* transaction of the next clip.                                           *)
(***************************************************************************)
Kept == UNCHANGED <<clips, made, metadata, resume, settings, key>>
\* The queue delivers the job (again, after a worker died in the middle).
StartRun ==
    /\ run.at = "none" /\ resume.at = "none" /\ status \in {"queued", "processing"}
    /\ counts.runs < MaxRuns
    /\ counts' = [counts EXCEPT !.runs = @ + 1] /\ status' = "processing"
    /\ \E personal \in BOOLEAN :     \* a personalized analysis bypasses the cache
         run' = [NoRun EXCEPT !.at = "source", !.key = key,
                     !.cp = IF checkpoint.key = key THEN checkpoint.payload ELSE Empty,
                     !.text = cache.text, !.cached = IF personal THEN None ELSE cache.analysis]
    /\ UNCHANGED <<checkpoint, cache, sidecar>> /\ Kept
Stage(from) == run.at = from /\ status = "processing" /\ Kept
\* The source is there; the saved timings are put back beside it, and where they are
\* missing the speech is transcribed again. It may have no word in it.
Transcribe ==
    LET saved == IF run.cp.text # 0 THEN run.cp.text ELSE run.text
        timed == IF run.cp.text # 0 /\ run.cp.words # 0 THEN run.cp.words ELSE sidecar
    IN /\ Stage("source")
       /\ \/ /\ saved # 0 /\ timed # 0
             /\ sidecar' = timed /\ run' = [run EXCEPT !.at = "transcript", !.text = saved]
             /\ UNCHANGED counts
          \/ /\ saved = 0 \/ timed = 0
             /\ counts.texts < Texts /\ counts' = [counts EXCEPT !.texts = @ + 1]
             /\ sidecar' \in {0, counts.texts + 1}
             /\ run' = [run EXCEPT !.text = counts.texts + 1,
                                   !.at = IF run.cp.analysis # None THEN "retimed" ELSE "transcript"]
       /\ UNCHANGED <<status, checkpoint, cache>>
\* Variant: the frozen plan is kept for the positions counted on it.
DropAnalysis ==
    /\ Stage("retimed")
    /\ SaveAnd([analysis |-> None, candidates |-> None], [run EXCEPT !.at = "transcript", !.cached = None])
    /\ UNCHANGED <<status, cache, sidecar, counts>>
\* New timings are never combined with the old plan of the checkpoint: it goes first.
DropPlan ==
    /\ Stage("retimed")
    /\ SaveAnd([analysis |-> None, candidates |-> None, segments |-> None],
               [run EXCEPT !.at = "transcript", !.cached = None])
    /\ UNCHANGED <<status, cache, sidecar, counts>>
SaveTranscript ==
    /\ Stage("transcript")
    /\ SaveAnd([text |-> run.text, words |-> sidecar], [run EXCEPT !.at = "analysis"])
    /\ UNCHANGED <<status, cache, sidecar, counts>>
Analyze ==
    LET old == IF run.cp.analysis # None THEN run.cp.analysis ELSE run.cached
    IN /\ Stage("analysis")
       /\ \/ /\ old # None /\ SaveAnd([analysis |-> old], [run EXCEPT !.at = "plan"])
             /\ UNCHANGED counts
          \/ /\ old = None
             /\ counts' = [counts EXCEPT !.analyses = @ + 1]
             /\ SaveAnd([analysis |-> [id |-> counts.analyses + 1, of |-> run.text, own |-> TRUE, size |-> PlanSize]],
                        [run EXCEPT !.at = "plan"])
       /\ UNCHANGED <<status, cache, sidecar>>
\* The saved plan, or the analysis cut to twice the limit, as candidates.
PlanCandidates ==
    /\ Stage("plan")
    /\ \/ run.cp.segments # None
          /\ run' = [run EXCEPT !.at = "freeze", !.plan = run.cp.segments] /\ UNCHANGED checkpoint
       \/ /\ run.cp.segments = None
          /\ LET plan == IF run.cp.candidates # None THEN run.cp.candidates ELSE run.cp.analysis
             IN SaveAnd([candidates |-> plan], [run EXCEPT !.at = "freeze", !.plan = plan])
    /\ UNCHANGED <<status, cache, sidecar, counts>>
\* With the picture there, the plan loses its static segments and is final. The cache
\* gets what other tasks can use.
FreezePlan ==
    /\ Stage("freeze")
    /\ \E n \in 1..run.plan.size :
         /\ run.cp.segments # None => n = run.plan.size
         /\ LET plan == [run.plan EXCEPT !.size = n]
            IN /\ SaveAnd([segments |-> plan], [run EXCEPT !.at = "open", !.plan = plan])
               /\ cache' = [text |-> run.text, analysis |-> [plan EXCEPT !.own = FALSE]]
    /\ UNCHANGED <<status, sidecar, counts>>
\* Positions are counted apart from the display order; without a count, the clips
\* there are stand for it.
OpenPlan ==
    /\ Stage("open")
    /\ LET done == IF run.cp.positions = {0} THEN Orders ELSE run.cp.positions
       IN SaveAnd([positions |-> done], [run EXCEPT !.at = "render", !.done = done])
    /\ UNCHANGED <<status, cache, sidecar, counts>>
RenderClip ==
    /\ Stage("render") /\ run.next <= run.plan.size
    /\ run' \in (IF run.next \in run.done THEN {[run EXCEPT !.next = @ + 1]}
                 ELSE {[run EXCEPT !.at = "save"], [run EXCEPT !.next = @ + 1, !.failed = TRUE]})
    /\ UNCHANGED <<status, checkpoint, cache, sidecar, counts>>
\* The clip and its position, in one transaction.
SaveClip ==
    /\ run.at = "save" /\ status = "processing"
    /\ LET done == run.done \cup {run.next}
       IN SaveAnd([positions |-> done], [run EXCEPT !.at = "render", !.done = done, !.next = @ + 1])
    /\ clips' = clips \cup {[order |-> Highest(Orders) + 1, position |-> run.next, era |-> checkpoint'.era]}
    /\ made' = made \cup {[era |-> checkpoint'.era, position |-> run.next,
                           again |-> \E m \in made : m.era = checkpoint'.era /\ m.position = run.next]}
    /\ UNCHANGED <<status, key, cache, sidecar, metadata, resume, settings, counts>>
Complete ==
    /\ Stage("render") /\ run.next > run.plan.size
    /\ status' = (IF clips = {} \/ run.failed THEN "error" ELSE "completed")
    /\ run' = [run EXCEPT !.at = "none"] /\ UNCHANGED <<checkpoint, cache, sidecar, counts>>
\* Any stage may fail, be cancelled, or lose its worker.
RunStops ==
    /\ run.at # "none" /\ run' = NoRun
    /\ status' \in (IF status = "processing" THEN {"processing", "error"} ELSE {status})
    /\ UNCHANGED <<checkpoint, cache, sidecar, counts>> /\ Kept
Cancel ==
    /\ status \in {"queued", "processing"} /\ status' = "cancelled"
    /\ UNCHANGED <<checkpoint, cache, sidecar, run, counts>> /\ Kept

(***************************************************************************)
(* Between runs                                                            *)
(***************************************************************************)
Edit == counts.edits < MaxEdits /\ counts' = [counts EXCEPT !.edits = @ + 1]
\* The configuration or the inputs change, the source is evicted, a clip is deleted.
ChangeKey ==
    /\ Edit /\ \E k \in Keys : k # key /\ key' = k
    /\ UNCHANGED <<status, checkpoint, cache, sidecar, clips, made, run, metadata, resume, settings>>
Evict ==
    /\ Edit /\ run.at = "none" /\ sidecar # 0 /\ sidecar' = 0
    /\ UNCHANGED <<status, key, checkpoint, cache, clips, made, run, metadata, resume, settings>>
DeleteClip ==
    /\ Edit /\ status \notin {"queued", "processing"} /\ \E c \in clips : clips' = clips \ {c}
    /\ UNCHANGED <<status, key, checkpoint, cache, sidecar, made, run, metadata, resume, settings>>

Others == UNCHANGED <<key, checkpoint, cache, sidecar, clips, made, run>>
\* resume_task, under the run guard: what it reads, the status, the metadata with the
\* job it reserved.
ResumeRead ==
    /\ run.at = "none" /\ resume.at = "none" /\ status \in {"cancelled", "error"} /\ counts.jobs < MaxRuns
    /\ resume' = [at |-> "read", read |-> metadata]
    /\ UNCHANGED <<status, metadata, settings, counts>> /\ Others
ResumeQueue ==
    /\ resume.at = "read" /\ resume' = [resume EXCEPT !.at = "queued"] /\ status' = "queued"
    /\ UNCHANGED <<metadata, settings, counts>> /\ Others
ResumeReserve ==
    /\ resume.at = "queued" /\ resume' = NoRequest
    /\ counts' = [counts EXCEPT !.jobs = @ + 1]
    /\ metadata' = [job |-> counts.jobs + 1, style |-> resume.read.style]
    /\ UNCHANGED <<status, settings>> /\ Others
\* apply_task_settings: what it reads, the edit of the task, the metadata.
SettingsRead ==
    /\ settings.at = "none" /\ Edit /\ settings' = [at |-> "read", read |-> metadata]
    /\ UNCHANGED <<status, metadata, resume>> /\ Others
SettingsEdit ==
    /\ settings.at = "read"
    /\ settings' = (IF status \in {"queued", "processing"} THEN NoRequest ELSE [settings EXCEPT !.at = "edited"])
    /\ UNCHANGED <<status, metadata, resume, counts>> /\ Others
\* Variant: what it read is saved, the job with it.
SettingsSaveAll ==
    /\ settings.at = "edited" /\ settings' = NoRequest
    /\ metadata' = [job |-> settings.read.job, style |-> counts.edits]
    /\ UNCHANGED <<status, resume, counts>> /\ Others
SettingsSave ==
    /\ settings.at = "edited" /\ settings' = NoRequest
    /\ metadata' = [metadata EXCEPT !.style = counts.edits]
    /\ UNCHANGED <<status, resume, counts>> /\ Others

Next ==
    \/ StartRun \/ Transcribe \/ DropPlan \/ SaveTranscript \/ Analyze \/ PlanCandidates \/ FreezePlan
    \/ OpenPlan \/ RenderClip \/ SaveClip \/ Complete \/ RunStops \/ Cancel
    \/ ChangeKey \/ Evict \/ DeleteClip
    \/ ResumeRead \/ ResumeQueue \/ ResumeReserve \/ SettingsRead \/ SettingsEdit \/ SettingsSave
Spec == Init /\ [][Next]_gvars

(***************************************************************************)
(* Properties                                                              *)
(***************************************************************************)
TypeOK ==
    /\ status \in {"queued", "processing", "completed", "cancelled", "error", "deleted"} /\ key \in Keys
    /\ checkpoint.key \in Keys /\ sidecar \in 0..Shared /\ cache.text \in 0..Shared
    /\ resume.at \in {"none", "read", "queued"} /\ settings.at \in {"none", "read", "edited"}
    /\ \A c \in clips : c.position \in 1..PlanSize

Payload == checkpoint.payload
\* Whatever fails, and whatever changed before the retry: the plan in the checkpoint
\* comes from the analysis in it, the analysis (when it is the task's own) from the
\* transcript in it, and a run renders the plan its checkpoint holds, each position
\* once, however the user edits the clips between the runs. A completed task has no
\* position left to render, and the job its metadata names is the one reserved last,
\* whatever a settings edit read before (tasks.py:1328-1330).
RetriesKeepTheirPlan ==
    /\ \A plan \in {Payload.candidates, Payload.segments} : plan # None => plan.id = Payload.analysis.id
    /\ Payload.analysis.own => Payload.analysis.of = Payload.text
    /\ run.at \in {"open", "render", "save"} => checkpoint.key = run.key /\ run.plan = Payload.segments
    /\ run.at \in {"render", "save"} => run.done = Payload.positions
    /\ \A m \in made : ~m.again
    /\ status = "completed" => 1..Payload.segments.size \subseteq Payload.positions
    /\ resume.at = "none" => metadata.job = counts.jobs
=============================================================================
