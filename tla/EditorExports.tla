----------------------------- MODULE EditorExports -----------------------------
(* The background exports of one clip's editor: each renders a snapshot of the    *)
(* document from the prepared video, may be cancelled through a marker file, and  *)
(* may be delivered again after a crash, while the cache evicts videos that S3    *)
(* holds. (export_editor, run_render, routes/editor, media_storage.)              *)
EXTENDS Naturals, FiniteSets

CONSTANTS Jobs, MaxTries, MaxCrashes, MaxVersions,   \* deliveries, crashes, preparations
          MaxActive                                  \* exports at a time: three in the code

VARIABLES jobs,       \* [status, cancel, at, tries, file, answer]
          clean,      \* clean.mp4: [made, here, stamp, stored, copying], versions, 0 for none
          crashes

evars == <<jobs, clean, crashes>>

Active(s) == s \in {"queued", "rendering"}
Holding(j) == jobs[j].at \in {"loaded", "checked", "rendering", "rendered"}   \* .media-lease

StartIn(status, versions) ==
    /\ jobs = [j \in Jobs |-> [status |-> status, cancel |-> FALSE, at |-> "none", tries |-> 0, file |-> FALSE, answer |-> "none"]]
    /\ clean = [made |-> versions, here |-> 0, stamp |-> 0, stored |-> versions, copying |-> 0] /\ crashes = 0
Init == StartIn("none", 0)
\* The exports failed, and the video is evicted.
Gone == StartIn("failed", MaxVersions)

(***************************************************************************)
(* Exports.                                                                *)
(***************************************************************************)
Set(j, status, at) == jobs' = [jobs EXCEPT ![j].status = status, ![j].at = at]
StartExport(j) ==
    /\ clean.made # 0 /\ jobs[j].status = "none"
    /\ Cardinality({i \in Jobs : Active(jobs[i].status)}) < MaxActive
    /\ Set(j, "queued", "asked")
    /\ UNCHANGED <<clean, crashes>>
EnqueueExport(j) ==
    /\ jobs[j].at = "asked" /\ Set(j, jobs[j].status, "queued")
    /\ UNCHANGED <<clean, crashes>>
EnqueueFails(j) ==
    /\ jobs[j].at = "asked" /\ \E at \in {"queued", "gone"} : Set(j, "failed", at)
    /\ UNCHANGED <<clean, crashes>>
\* restore_editor: the lease is taken before the video is looked for.
Deliver(j) ==
    /\ jobs[j].at = "queued"
    /\ jobs' = [jobs EXCEPT ![j].at = "loaded", ![j].tries = @ + 1]
    /\ clean' = IF clean.here = 0 THEN [clean EXCEPT !.here = clean.stored, !.stamp = clean.stored] ELSE clean
    /\ UNCHANGED crashes
CheckCancel(j) ==
    /\ jobs[j].at = "loaded"
    /\ IF jobs[j].cancel THEN Set(j, "cancelled", "gone") ELSE Set(j, jobs[j].status, "checked")
    /\ UNCHANGED <<clean, crashes>>
\* run_render: each round looks at the marker and writes the status.
Render(j) ==
    /\ jobs[j].at \in {"checked", "rendering"} /\ clean.here # 0
    /\ IF jobs[j].cancel THEN Set(j, "cancelled", "gone") ELSE Set(j, "rendering", "rendering")
    /\ UNCHANGED <<clean, crashes>>
\* Variant: a cancellation is only looked for while the render runs.
RenderedAnyway(j) ==
    /\ jobs[j].at = "rendering" /\ clean.here # 0
    /\ jobs' = [jobs EXCEPT ![j].at = "rendered", ![j].file = TRUE]
    /\ UNCHANGED <<clean, crashes>>
Rendered(j) ==
    /\ jobs[j].at = "rendering" /\ clean.here # 0
    /\ IF jobs[j].cancel THEN Set(j, "cancelled", "gone")
       ELSE jobs' = [jobs EXCEPT ![j].at = "rendered", ![j].file = TRUE]
    /\ UNCHANGED <<clean, crashes>>
Complete(j) ==
    /\ jobs[j].at = "rendered" /\ Set(j, "completed", "gone")
    /\ UNCHANGED <<clean, crashes>>
ExportFails(j) ==
    /\ Holding(j) /\ Set(j, "failed", "gone")
    /\ UNCHANGED <<clean, crashes>>
\* cancel_export reads the status and leaves the marker at once.
Cancel(j) ==
    /\ Active(jobs[j].status)
    /\ jobs' = [jobs EXCEPT ![j].cancel = TRUE,
                            ![j].status = IF @ = "queued" THEN "cancelled" ELSE @,
                            ![j].answer = IF jobs[j].status = "queued" THEN "cancelled" ELSE "cancelling"]
    /\ UNCHANGED <<clean, crashes>>

(***************************************************************************)
(* The prepared video, its copy in S3 and the cache.                       *)
(***************************************************************************)
\* prepare_editor: a second preparation may replace the video while it is in use.
Prepared ==
    /\ clean.made < MaxVersions
    /\ clean' = [clean EXCEPT !.made = @ + 1, !.here = clean.made + 1]
    /\ UNCHANGED <<jobs, crashes>>
\* save_editor, under the .sync lock: the file is looked at, uploaded, its stamp written.
SyncStart ==
    /\ clean.copying = 0 /\ clean.here # 0 /\ clean.stamp # clean.here
    /\ clean' = [clean EXCEPT !.copying = clean.here]
    /\ UNCHANGED <<jobs, crashes>>
Copied(content, stamp) == clean' = [clean EXCEPT !.stored = content, !.stamp = stamp, !.copying = 0]
\* Variant: the stamp is that of the file when the upload ends.
SyncEndsLate ==
    /\ clean.copying # 0
    /\ Copied(clean.copying, clean.here)
    /\ UNCHANGED <<jobs, crashes>>
SyncEnds ==
    /\ clean.copying # 0
    /\ \E content \in {clean.copying, clean.here} : Copied(content, clean.copying)
    /\ UNCHANGED <<jobs, crashes>>
SyncFails ==
    /\ clean.copying # 0 /\ clean' = [clean EXCEPT !.copying = 0]
    /\ UNCHANGED <<jobs, crashes>>
\* sweep_editor_cache: a video that is in use, or not as it was uploaded, stays.
SweepCache ==
    /\ \A j \in Jobs : ~Holding(j)
    /\ clean.here # 0 /\ clean.here = clean.stamp
    /\ clean' = [clean EXCEPT !.here = 0]
    /\ UNCHANGED <<jobs, crashes>>

\* A worker is killed: the queue delivers its job again, MaxTries times in all.
WorkerDies(j) ==
    /\ crashes < MaxCrashes /\ crashes' = crashes + 1 /\ Holding(j)
    /\ Set(j, jobs[j].status, IF jobs[j].tries < MaxTries THEN "queued" ELSE "gone")
    /\ UNCHANGED clean

Next ==
    \/ \E j \in Jobs : \/ StartExport(j) \/ EnqueueExport(j) \/ EnqueueFails(j) \/ Deliver(j) \/ CheckCancel(j)
                       \/ Render(j) \/ Rendered(j) \/ Complete(j) \/ ExportFails(j) \/ Cancel(j) \/ WorkerDies(j)
    \/ Prepared \/ SyncStart \/ SyncEnds \/ SyncFails \/ SweepCache

(***************************************************************************)
(* Properties.                                                             *)
(***************************************************************************)
TypeOK ==
    /\ crashes \in 0..MaxCrashes /\ clean.here \in {0, clean.stored, clean.made}
    /\ \A j \in Jobs : /\ jobs[j].status \in {"none", "queued", "rendering", "completed", "failed", "cancelled"}
                       /\ jobs[j].tries \in 0..MaxTries

\* An export that was cancelled before it began never completes; a completed one has its
\* file; the video a render reads is not evicted under it; and what is evicted can be
\* restored as it was last prepared.
ExportsKeepTheirWord ==
    /\ \A j \in Jobs : /\ jobs[j].answer = "cancelled" => jobs[j].status # "completed"
                       /\ jobs[j].status = "completed" => jobs[j].file
                       /\ Holding(j) => clean.here # 0
    /\ clean.here = 0 => clean.stored = clean.made
=============================================================================
