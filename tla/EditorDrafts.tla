----------------------------- MODULE EditorDrafts -----------------------------
(* The editor of one clip: a directory the API and the worker share. A worker    *)
(* prepares the preview, tabs save a draft under a revision, and the draft is    *)
(* copied to S3. (editor_service, editor_document, routes/editor.)               *)
EXTENDS Naturals, Sequences, SequencesExt, FiniteSets

CONSTANTS Tabs, Preps,
          MaxSaves, MaxTries, MaxCrashes      \* saves, deliveries of a job, crashes

VARIABLES asset,      \* asset.json: "none", "preparing", "ready" or "failed"
          draft,      \* draft.json: the saves it holds, its revision their number
          tabs,       \* what each tab last read or wrote, and whether it is saving
          preps,      \* prepare_editor jobs: [at, tries]
          snapshot,   \* S3's draft, the manifest's stamp of it, a copy under way
          crashes

dvars == <<asset, draft, tabs, preps, snapshot, crashes>>

None == <<0>>                                           \* no draft.json, or no tab

StartIn(status, at) ==
    /\ asset = status /\ draft = None /\ crashes = 0
    /\ tabs = [t \in Tabs |-> [read |-> None, saving |-> FALSE]]
    /\ preps = [p \in Preps |-> [at |-> at, tries |-> 0]]
    /\ snapshot = [held |-> None, stamp |-> None, copying |-> None]
Init == StartIn("none", "none")
\* A preparation nobody runs.
Gone == StartIn("preparing", "gone")

(***************************************************************************)
(* Preparing.                                                              *)
(***************************************************************************)
PrepTo(p, at) == preps' = [preps EXCEPT ![p].at = at]
\* prepare: under the lock; then the job is enqueued.
Prepare(p) ==
    /\ asset \in {"none", "failed"} /\ preps[p].at = "none"
    /\ asset' = "preparing" /\ PrepTo(p, "asked")
    /\ UNCHANGED <<draft, tabs, snapshot, crashes>>
PrepareEnqueue(p) ==
    /\ preps[p].at = "asked" /\ PrepTo(p, "queued")
    /\ UNCHANGED <<asset, draft, tabs, snapshot, crashes>>
\* The queue did not answer: it may hold the job or not.
PrepareFails(p) ==
    /\ preps[p].at = "asked" /\ \E at \in {"queued", "gone"} : PrepTo(p, at)
    /\ asset' = "failed"
    /\ UNCHANGED <<draft, tabs, snapshot, crashes>>
PrepRun(p) ==
    /\ preps[p].at = "queued"
    /\ preps' = [preps EXCEPT ![p] = [at |-> "running", tries |-> @.tries + 1]]
    /\ UNCHANGED <<asset, draft, tabs, snapshot, crashes>>
\* Variant: every preparation starts a new draft.
PrepDoneAnew(p) ==
    /\ preps[p].at = "running" /\ PrepTo(p, "gone")
    /\ draft' = <<>> /\ asset' = "ready"
    /\ UNCHANGED <<tabs, snapshot, crashes>>
\* The clip was cut again without captions; under the lock a first draft is written,
\* then asset.json.
PrepDone(p) ==
    /\ preps[p].at = "running" /\ PrepTo(p, "gone")
    /\ draft' = (IF draft = None THEN <<>> ELSE draft)
    /\ asset' = "ready"
    /\ UNCHANGED <<tabs, snapshot, crashes>>
PrepFails(p) ==
    /\ preps[p].at = "running" /\ PrepTo(p, "gone")
    /\ asset' = "failed"
    /\ UNCHANGED <<draft, tabs, snapshot, crashes>>

(***************************************************************************)
(* Tabs.                                                                   *)
(***************************************************************************)
Open(t) ==
    /\ asset = "ready" /\ ~tabs[t].saving
    /\ tabs' = [tabs EXCEPT ![t].read = draft]
    /\ UNCHANGED <<asset, draft, preps, snapshot, crashes>>
\* save: the state is read before the lock is taken.
Save(t) ==
    /\ asset = "ready" /\ tabs[t].read # None /\ ~tabs[t].saving /\ Len(tabs[t].read) < MaxSaves
    /\ tabs' = [tabs EXCEPT ![t].saving = TRUE]
    /\ UNCHANGED <<asset, draft, preps, snapshot, crashes>>
\* save_document: the tab's document replaces the draft when it was made from its
\* revision. The tab may not hear the answer, or that it was refused.
SaveCommit(t) ==
    /\ tabs[t].saving
    /\ LET made == Append(tabs[t].read, t)
           accepted == Len(tabs[t].read) = Len(draft)
       IN /\ draft' = (IF accepted THEN made ELSE draft)
          /\ \E heard \in BOOLEAN :
               tabs' = [tabs EXCEPT ![t] = [read |-> IF ~heard THEN @.read ELSE IF accepted THEN made ELSE None, saving |-> FALSE]]
    /\ UNCHANGED <<asset, preps, snapshot, crashes>>

\* A worker is killed: the queue delivers its job again, MaxTries times in all.
WorkerDies(p) ==
    /\ crashes < MaxCrashes /\ crashes' = crashes + 1
    /\ preps[p].at = "running"
    /\ PrepTo(p, IF preps[p].tries < MaxTries THEN "queued" ELSE "gone")
    /\ draft' \in {draft, IF draft = None THEN <<>> ELSE draft}
    /\ UNCHANGED <<asset, tabs, snapshot>>

(***************************************************************************)
(* The copy in S3.                                                         *)
(***************************************************************************)
\* save_editor, under the .sync lock: the file is looked at, then uploaded, then its
\* stamp written. One pass also uploads the prepared video.
SyncStart ==
    /\ snapshot.copying = None /\ draft # None /\ snapshot.stamp # draft
    /\ snapshot' = [snapshot EXCEPT !.copying = draft]
    /\ UNCHANGED <<asset, draft, tabs, preps, crashes>>
\* Variant: the stamp is that of the file when the upload ends.
SyncEndsLate ==
    /\ snapshot.copying # None
    /\ snapshot' = [held |-> snapshot.copying, stamp |-> draft, copying |-> None]
    /\ UNCHANGED <<asset, draft, tabs, preps, crashes>>
SyncEnds ==
    /\ snapshot.copying # None
    /\ \E content \in {snapshot.copying, draft} :         \* a save may replace the file before it is read
         snapshot' = [held |-> content, stamp |-> snapshot.copying, copying |-> None]
    /\ UNCHANGED <<asset, draft, tabs, preps, crashes>>
SyncFails ==
    /\ snapshot.copying # None /\ crashes < MaxCrashes /\ crashes' = crashes + 1
    /\ snapshot' = [snapshot EXCEPT !.copying = None]
    /\ UNCHANGED <<asset, draft, tabs, preps>>

Next ==
    \/ \E p \in Preps : \/ Prepare(p) \/ PrepareEnqueue(p) \/ PrepareFails(p) \/ PrepRun(p)
                        \/ PrepDone(p) \/ PrepFails(p) \/ WorkerDies(p)
    \/ \E t \in Tabs : Open(t) \/ Save(t) \/ SaveCommit(t)
    \/ SyncStart \/ SyncEnds \/ SyncFails

Spec == Init /\ [][Next]_dvars

(***************************************************************************)
(* Properties.                                                             *)
(***************************************************************************)
TypeOK ==
    /\ asset \in {"none", "preparing", "ready", "failed"} /\ crashes \in 0..MaxCrashes
    /\ asset = "ready" => draft # None

\* No save is lost: a draft is only ever replaced by one made from it, whichever tabs
\* race, however often a preparation is repeated, and whatever answer is lost.
SavesAreKept == [][draft # None => draft' # None /\ IsPrefix(draft, draft')]_dvars

\* A draft that the manifest calls copied is the one S3 holds, so the snapshot pass
\* never leaves an older one there for good.
SnapshotsAreTrue == snapshot.copying = None /\ draft # None /\ snapshot.stamp = draft => snapshot.held = draft
=============================================================================
