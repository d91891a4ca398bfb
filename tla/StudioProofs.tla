------------------------------ MODULE StudioProofs ------------------------------
(***************************************************************************)
(* Proofs about the exports of a clip (ClipExports), the uploads of a      *)
(* user, direct (StoredUploads) and from the browser (MultipartUploads),   *)
(* the page that follows a task (ProgressStream), and the domains of the   *)
(* object behind the stores (MediaReplicas), in the behaviours of          *)
(* MCStudio, for any number of rows, edits, requests, contents, keys,      *)
(* sessions and revisions.                                                 *)
(***************************************************************************)
EXTENDS MCStudio, Sequences, FiniteSetTheorems, TLAPS

-----------------------------------------------------------------------------
(* Exports: the life of a row, and the files rows name.                     *)

\* No start, job or worker has anything left to do for the row.
Rests(e) == e \notin posting /\ job[e] = "absent" /\ worker[e] = "idle"

\* The life of one row: it is used once, its job is enqueued once, what has
\* finished stays finished, and only files no live row names are to be deleted.
RowInv(e) ==
    /\ row[e].source = 0 => row[e] = X!NoRow /\ Rests(e) /\ e \notin exportFiles
    /\ e \in posting => job[e] = "absent" /\ worker[e] = "idle"
    /\ row[e].file \/ row[e].status = "succeeded" \/ e \in exportFiles => Rests(e)
    /\ e \in exportFiles => row[e].status \notin X!Live
    /\ worker[e] = "uploaded" => e \in stored
    /\ row[e].status = "succeeded" => e \in stored \/ e \in lost

ExportInv == X!TypeOK /\ (\A e \in Exports : RowInv(e)) /\ X!OneLiveExport

ExportRows == [status : {"none", "failed", "queued", "running", "succeeded"}, source : 0..MaxEdits,
         file : BOOLEAN, overdue : 0..2, expired : BOOLEAN]
Sets == posting \subseteq Exports /\ stored \subseteq Exports /\ exportFiles \subseteq Exports /\ lost \subseteq Exports
ExportTyped ==
    /\ clip \in 0..MaxEdits /\ row \in [Exports -> ExportRows]
    /\ job \in [Exports -> {"absent", "waiting", "active"}]
    /\ worker \in [Exports -> {"idle", "started", "encoding", "encoded", "uploaded"}]
    /\ Sets

-----------------------------------------------------------------------------
(* ExportRows and the functions of them.                                          *)

LEMMA ExportConstants == MaxEdits \in Nat /\ 0 \in 0..MaxEdits /\ 1 \in 0..MaxEdits /\ 0 \in 0..2 /\ 1 \in 0..2 /\ 2 \in 0..2
BY StudioAssumption

LEMMA ExportTypedIs == X!TypeOK <=> ExportTyped
BY DEF X!TypeOK, ExportTyped, Sets, ExportRows, X!Live, X!Active, X!Stages

LEMMA ExportTypedIsAfter == (X!TypeOK)' <=> ExportTyped'
BY DEF X!TypeOK, ExportTyped, Sets, ExportRows, X!Live, X!Active, X!Stages

LEMMA NoRowIs ==
    X!NoRow \in ExportRows /\ X!NoRow.status = "none" /\ X!NoRow.source = 0 /\ ~X!NoRow.file /\ X!NoRow.overdue = 0
BY ExportConstants DEF X!NoRow, ExportRows

LEMMA FailedIs ==
    ASSUME NEW r \in ExportRows
    PROVE  /\ X!Failed(r) \in ExportRows /\ X!Failed(r).status = "failed"
           /\ X!Failed(r).source = r.source /\ X!Failed(r).file = r.file
BY ExportConstants DEF X!Failed, ExportRows

LEMMA DeletedIs ==
    ASSUME NEW r \in ExportRows
    PROVE  /\ X!Deleted(r) \in ExportRows /\ X!Deleted(r).status = "none"
           /\ X!Deleted(r).source = r.source /\ ~X!Deleted(r).file
           /\ r = X!NoRow => X!Deleted(r) = X!NoRow
BY ExportConstants DEF X!Deleted, X!NoRow, ExportRows

\* A sweep fails queued and running rows and leaves the others.
LEMMA ReapedIs ==
    ASSUME ExportTyped, NEW within, NEW reachable \in BOOLEAN
    PROVE  /\ X!Reaped(within, reachable) \in [Exports -> ExportRows]
           /\ \A e \in Exports : LET r == X!Reaped(within, reachable)[e] IN
                 \/ r = row[e]
                 \/ /\ row[e].status \in {"queued", "running"} /\ r.status = "failed"
                    /\ r.source = row[e].source /\ r.file = row[e].file
<1>1. \A e \in Exports : row[e] \in ExportRows
  BY DEF ExportTyped
<1>2. ASSUME NEW e \in Exports
      PROVE  /\ X!Failed(row[e]) \in ExportRows /\ X!Failed(row[e]).status = "failed"
             /\ X!Failed(row[e]).source = row[e].source /\ X!Failed(row[e]).file = row[e].file
  BY <1>1, FailedIs
<1>3. ASSUME NEW e \in Exports, X!Overdue(e, reachable)
      PROVE  row[e].status \in {"queued", "running"}
  BY <1>3 DEF X!Overdue, X!Status
<1> QED
  BY <1>1, <1>2, <1>3 DEF X!Reaped

-----------------------------------------------------------------------------
(* What a step does to one row.                                             *)

\* Nothing.
Same(e) ==
    /\ row'[e] = row[e] /\ job'[e] = job[e] /\ worker'[e] = worker[e]
    /\ e \in posting' <=> e \in posting
    /\ e \in stored' <=> e \in stored
    /\ e \in exportFiles' <=> e \in exportFiles
    /\ e \in lost' <=> e \in lost

\* No row comes to life.
NoneLives ==
    \A e \in Exports : row'[e].status \in X!Live =>
        row[e].status \in X!Live /\ row'[e].source = row[e].source

LEMMA SameKeeps ==
    ASSUME NEW e \in Exports, RowInv(e), Same(e)
    PROVE  RowInv(e)'
BY DEF RowInv, Same, Rests

LEMMA NoneLivesKeeps ==
    ASSUME X!OneLiveExport, NoneLives
    PROVE  (X!OneLiveExport)'
BY DEF X!OneLiveExport, NoneLives, X!Status

\* A step of one row.
Only(e) == \A f \in Exports \ {e} : Same(f)
LEMMA OnlyKeeps ==
    ASSUME ExportInv, ExportTyped', NEW e \in Exports, Only(e), RowInv(e)',
           row'[e].status \in X!Live => row[e].status \in X!Live /\ row'[e].source = row[e].source
    PROVE  ExportInv'
<1>1. \A f \in Exports : RowInv(f)'
  BY SameKeeps DEF Only, ExportInv
<1>2. NoneLives
  BY DEF NoneLives, Only, Same
<1> QED
  BY <1>1, <1>2, NoneLivesKeeps, ExportTypedIsAfter DEF ExportInv

-----------------------------------------------------------------------------
(* Steps that write no row.                                                 *)

USE DEF X!Live, X!Active

LEMMA QuietSteps ==
    ASSUME ExportInv, NEW e \in Exports,
           X!Enqueue(e) \/ X!ApiDies(e) \/ X!Encode(e) \/ X!Upload(e) \/ X!WorkerDies(e) \/ X!DrainDeletion(e)
    PROVE  ExportInv'
<1>1. ExportTyped /\ RowInv(e)
  BY ExportTypedIs DEF ExportInv
<1>2. row' = row /\ clip' = clip
  BY DEF X!Enqueue, X!ApiDies, X!Encode, X!Upload, X!WorkerDies, X!DrainDeletion
<1>3. row'[e].status \in X!Live => row[e].status \in X!Live /\ row'[e].source = row[e].source
  BY <1>2
<1>4. CASE X!Enqueue(e)
  <2>1. ExportTyped' /\ Only(e)
    BY <1>1, <1>2, <1>4 DEF X!Enqueue, ExportTyped, Sets, Only, Same
  <2>2. RowInv(e)'
    BY <1>1, <1>2, <1>4 DEF X!Enqueue, RowInv, Rests, ExportTyped
  <2> QED
    BY <1>3, <2>1, <2>2, OnlyKeeps
<1>5. CASE X!ApiDies(e)
  <2>1. ExportTyped' /\ Only(e)
    BY <1>1, <1>2, <1>5 DEF X!ApiDies, ExportTyped, Sets, Only, Same
  <2>2. RowInv(e)'
    BY <1>1, <1>2, <1>5 DEF X!ApiDies, RowInv, Rests, ExportTyped
  <2> QED
    BY <1>3, <2>1, <2>2, OnlyKeeps
<1>6. CASE X!Encode(e)
  <2>1. ExportTyped' /\ Only(e)
    BY <1>1, <1>2, <1>6 DEF X!Encode, ExportTyped, Sets, Only, Same
  <2>2. RowInv(e)'
    BY <1>1, <1>2, <1>6 DEF X!Encode, RowInv, Rests, ExportTyped
  <2> QED
    BY <1>3, <2>1, <2>2, OnlyKeeps
<1>7. CASE X!Upload(e)
  <2>1. ExportTyped' /\ Only(e)
    BY <1>1, <1>2, <1>7 DEF X!Upload, ExportTyped, Sets, Only, Same
  <2>2. RowInv(e)'
    BY <1>1, <1>2, <1>7 DEF X!Upload, RowInv, Rests, ExportTyped
  <2> QED
    BY <1>3, <2>1, <2>2, OnlyKeeps
<1>8. CASE X!WorkerDies(e)
  <2>1. ExportTyped' /\ Only(e)
    BY <1>1, <1>2, <1>8 DEF X!WorkerDies, X!StrayUpload, X!EndJob, ExportTyped, Sets, Only, Same
  <2>2. RowInv(e)'
    BY <1>1, <1>2, <1>8 DEF X!WorkerDies, X!StrayUpload, X!EndJob, RowInv, Rests, ExportTyped
  <2> QED
    BY <1>3, <2>1, <2>2, OnlyKeeps
<1>9. CASE X!DrainDeletion(e)
  <2>1. ExportTyped' /\ Only(e)
    BY <1>1, <1>2, <1>9 DEF X!DrainDeletion, ExportTyped, Sets, Only, Same
  <2>2. RowInv(e)'
    BY <1>1, <1>2, <1>9 DEF X!DrainDeletion, RowInv, Rests, ExportTyped
  <2> QED
    BY <1>3, <2>1, <2>2, OnlyKeeps
<1> QED
  BY <1>4, <1>5, <1>6, <1>7, <1>8, <1>9

-----------------------------------------------------------------------------
(* Steps that write one row: it may only change where it is, to a status    *)
(* that is not live unless it was.                                          *)

\* r is what row e becomes.
RowBecomes(e, r) ==
    /\ r \in ExportRows /\ row' = [row EXCEPT ![e] = r] /\ r.source = row[e].source
    /\ r.status \in X!Live => row[e].status \in X!Live

LEMMA RowBecomesDoes ==
    ASSUME ExportTyped, NEW e \in Exports, NEW r, RowBecomes(e, r)
    PROVE  /\ row' \in [Exports -> ExportRows] /\ row'[e] = r
           /\ \A f \in Exports \ {e} : row'[f] = row[f]
           /\ row'[e].status \in X!Live => row[e].status \in X!Live /\ row'[e].source = row[e].source
BY DEF RowBecomes, ExportTyped

\* A clock's step, or a failure that is recorded.
LEMMA TimeSteps ==
    ASSUME ExportInv, NEW e \in Exports,
           X!GrowsOverdue(e) \/ X!Expires(e) \/ X!ExpireExport(e) \/ X!PurgeFailure(e)
    PROVE  ExportInv'
<1>1. ExportTyped /\ RowInv(e) /\ row[e] \in ExportRows
  BY ExportTypedIs DEF ExportInv, ExportTyped
<1>2. CASE X!GrowsOverdue(e)
  <2> DEFINE r == [row[e] EXCEPT !.overdue = @ + 1]
  <2>1. r \in ExportRows /\ r.status = row[e].status /\ r.source = row[e].source /\ r.file = row[e].file
    BY <1>1, <1>2 DEF ExportRows, X!GrowsOverdue, X!Status
  <2>2. row' = [row EXCEPT ![e] = r] /\ row[e].status \in {"queued", "running"}
    BY <1>1, <1>2 DEF X!GrowsOverdue, X!Status, ExportTyped, ExportRows
  <2> HIDE DEF r
  <2>3. RowBecomes(e, r)
    BY <2>1, <2>2 DEF RowBecomes
  <2>4. ExportTyped' /\ Only(e)
    BY <1>1, <1>2, <2>3, RowBecomesDoes DEF X!GrowsOverdue, ExportTyped, Sets, Only, Same
  <2>5. RowInv(e)'
    BY <1>1, <1>2, <2>1, <2>2, <2>3, RowBecomesDoes DEF X!GrowsOverdue, RowInv, Rests, X!NoRow
  <2> QED
    BY <1>1, <2>3, <2>4, <2>5, RowBecomesDoes, OnlyKeeps
<1>3. CASE X!Expires(e)
  <2> DEFINE r == [row[e] EXCEPT !.expired = TRUE]
  <2>1. r \in ExportRows /\ r.status = row[e].status /\ r.source = row[e].source /\ r.file = row[e].file
    BY <1>1 DEF ExportRows
  <2>2. row' = [row EXCEPT ![e] = r] /\ row[e].status = "succeeded"
    BY <1>1, <1>3 DEF X!Expires, X!Status, ExportTyped
  <2> HIDE DEF r
  <2>3. RowBecomes(e, r)
    BY <2>1, <2>2 DEF RowBecomes
  <2>4. ExportTyped' /\ Only(e)
    BY <1>1, <1>3, <2>3, RowBecomesDoes DEF X!Expires, ExportTyped, Sets, Only, Same
  <2>5. RowInv(e)'
    BY <1>1, <1>3, <2>1, <2>2, <2>3, RowBecomesDoes DEF X!Expires, RowInv, Rests, X!NoRow
  <2> QED
    BY <1>1, <2>3, <2>4, <2>5, RowBecomesDoes, OnlyKeeps
<1>4. CASE X!ExpireExport(e)
  <2> DEFINE r == X!Deleted(row[e])
  <2>1. RowBecomes(e, r) /\ r.status = "none" /\ row[e].status = "succeeded" /\ ~r.file
    BY <1>1, <1>4, DeletedIs DEF X!ExpireExport, X!Status, RowBecomes, ExportTyped
  <2>2. row[e].source # 0
    BY <1>1, <2>1 DEF RowInv, X!NoRow
  <2> HIDE DEF r
  <2>3. ExportTyped' /\ Only(e)
    BY <1>1, <1>4, <2>1, RowBecomesDoes DEF X!ExpireExport, ExportTyped, Sets, Only, Same
  <2>4. RowInv(e)'
    BY <1>1, <1>4, <2>1, <2>2, RowBecomesDoes DEF X!ExpireExport, RowInv, Rests, RowBecomes
  <2> QED
    BY <1>1, <2>1, <2>3, <2>4, RowBecomesDoes, OnlyKeeps
<1>5. CASE X!PurgeFailure(e)
  <2> DEFINE r == X!Deleted(row[e])
  <2>1. RowBecomes(e, r) /\ r.status = "none" /\ row[e].status = "failed" /\ ~r.file
    BY <1>1, <1>5, DeletedIs DEF X!PurgeFailure, X!Status, RowBecomes, ExportTyped
  <2>2. row[e].source # 0
    BY <1>1, <2>1 DEF RowInv, X!NoRow
  <2> HIDE DEF r
  <2>3. ExportTyped' /\ Only(e)
    BY <1>1, <1>5, <2>1, RowBecomesDoes DEF X!PurgeFailure, ExportTyped, Sets, Only, Same
  <2>4. RowInv(e)'
    BY <1>1, <1>5, <2>1, <2>2, RowBecomesDoes DEF X!PurgeFailure, RowInv, Rests, RowBecomes
  <2> QED
    BY <1>1, <2>1, <2>3, <2>4, RowBecomesDoes, OnlyKeeps
<1> QED
  BY <1>2, <1>3, <1>4, <1>5

-----------------------------------------------------------------------------
(* The worker, and an enqueue that raises.                                  *)

LEMMA FailureRecorded ==
    ASSUME ExportTyped, NEW e \in Exports, X!RecordFailure(e)
    PROVE  \E r : /\ RowBecomes(e, r) /\ r.file = row[e].file
                  /\ r.status = "succeeded" => row[e].status = "succeeded"
                  /\ r = row[e] \/ row[e].status \in X!Active
<1>1. row[e] \in ExportRows
  BY DEF ExportTyped
<1>2. CASE row[e].status \in X!Active
  <2>1. RowBecomes(e, X!Failed(row[e])) /\ X!Failed(row[e]).file = row[e].file /\ X!Failed(row[e]).status = "failed"
    BY <1>1, <1>2, FailedIs DEF X!RecordFailure, RowBecomes
  <2> QED
    BY <1>2, <2>1
<1>3. CASE row[e].status \notin X!Active
  <2>1. RowBecomes(e, row[e])
    BY <1>1, <1>3 DEF X!RecordFailure, RowBecomes
  <2> QED
    BY <2>1
<1> QED
  BY <1>2, <1>3

LEMMA RowKept ==
    ASSUME ExportTyped, NEW e \in Exports, UNCHANGED row
    PROVE  RowBecomes(e, row[e])
BY DEF ExportTyped, RowBecomes

\* A step of e's worker that leaves the files of the others alone.
Worked(e) ==
    /\ clip' = clip /\ ExportTyped'
    /\ \A f \in Exports \ {e} : job'[f] = job[f] /\ worker'[f] = worker[f]
                                 /\ (f \in stored' <=> f \in stored) /\ (f \in lost' <=> f \in lost)
    /\ posting' \in {posting, posting \ {e}} /\ exportFiles' = exportFiles

LEMMA WorkedKeeps ==
    ASSUME ExportInv, NEW e \in Exports, NEW r, RowBecomes(e, r), Worked(e), RowInv(e)'
    PROVE  ExportInv'
<1>1. ExportTyped
  BY ExportTypedIs DEF ExportInv
<1>2. Only(e)
  BY <1>1, RowBecomesDoes DEF Only, Same, Worked
<1> QED
  BY <1>1, <1>2, RowBecomesDoes, OnlyKeeps DEF Worked

LEMMA DeliverKeeps ==
    ASSUME ExportInv, NEW e \in Exports, X!Deliver(e)
    PROVE  ExportInv'
<1>1. ExportTyped /\ RowInv(e) /\ row[e] \in ExportRows /\ job[e] = "waiting"
  BY ExportTypedIs DEF ExportInv, ExportTyped, X!Deliver
<1>2. row[e].source # 0 /\ e \notin posting /\ e \notin exportFiles /\ ~row[e].file
  BY <1>1 DEF RowInv, Rests
<1>3. CASE row[e].status \in X!Active
  <2> DEFINE r == [row[e] EXCEPT !.status = "running", !.overdue = 0]
  <2>1. r \in ExportRows /\ r.status = "running" /\ r.source = row[e].source /\ r.file = row[e].file
    BY <1>1, ExportConstants DEF ExportRows
  <2>2. row' = [row EXCEPT ![e] = r]
    BY <1>1, <1>3 DEF X!Deliver, X!Status, ExportTyped
  <2> HIDE DEF r
  <2>3. RowBecomes(e, r)
    BY <1>3, <2>1, <2>2 DEF RowBecomes
  <2>4. Worked(e)
    BY <1>1, <1>3, <2>3, RowBecomesDoes DEF X!Deliver, X!Status, ExportTyped, Sets, Worked
  <2>5. RowInv(e)'
    BY <1>1, <1>2, <1>3, <2>1, <2>3, RowBecomesDoes DEF X!Deliver, X!Status, ExportTyped, RowInv, Rests
  <2> QED
    BY <2>3, <2>4, <2>5, WorkedKeeps
<1>4. CASE row[e].status \notin X!Active
  <2>1. RowBecomes(e, row[e]) /\ row' = row
    BY <1>1, <1>4, RowKept DEF X!Deliver, X!Status
  <2>2. Worked(e)
    BY <1>1, <1>4 DEF X!Deliver, X!Status, X!EndJob, ExportTyped, Sets, Worked
  <2>3. RowInv(e)'
    BY <1>1, <1>2, <1>4, <2>1 DEF X!Deliver, X!Status, X!EndJob, ExportTyped, RowInv, Rests
  <2> QED
    BY <2>1, <2>2, <2>3, WorkedKeeps
<1> QED
  BY <1>3, <1>4

\* A worker that is not idle works on a row whose job was delivered.
LEMMA AtWork ==
    ASSUME ExportInv, NEW e \in Exports, worker[e] # "idle"
    PROVE  /\ ExportTyped /\ RowInv(e) /\ row[e] \in ExportRows
           /\ row[e].source # 0 /\ e \notin posting /\ e \notin exportFiles
           /\ ~row[e].file /\ row[e].status # "succeeded"
<1>1. ExportTyped /\ RowInv(e) /\ row[e] \in ExportRows
  BY ExportTypedIs DEF ExportInv, ExportTyped
<1> QED
  BY <1>1 DEF RowInv, Rests, ExportRows

LEMMA ReadClipKeeps ==
    ASSUME ExportInv, NEW e \in Exports, X!ReadClip(e)
    PROVE  ExportInv'
<1>1. worker[e] = "started"
  BY DEF X!ReadClip
<1>2. CASE clip = row[e].source /\ clip # 0
  <2>1. RowBecomes(e, row[e]) /\ row' = row
    BY <1>1, <1>2, AtWork, RowKept DEF X!ReadClip
  <2>2. Worked(e)
    BY <1>1, <1>2, AtWork DEF X!ReadClip, ExportTyped, Sets, Worked
  <2>3. RowInv(e)'
    BY <1>1, <1>2, <2>1, AtWork DEF X!ReadClip, ExportTyped, RowInv, Rests
  <2> QED
    BY <2>1, <2>2, <2>3, WorkedKeeps
<1>3. CASE ~(clip = row[e].source /\ clip # 0)
  <2>1. PICK r : RowBecomes(e, r) /\ r.file = row[e].file /\ (r.status = "succeeded" => row[e].status = "succeeded")
    BY <1>1, <1>3, AtWork, FailureRecorded DEF X!ReadClip
  <2>2. Worked(e)
    BY <1>1, <1>3, <2>1, AtWork, RowBecomesDoes DEF X!ReadClip, X!EndJob, ExportTyped, Sets, Worked
  <2>3. RowInv(e)'
    BY <1>1, <1>3, <2>1, AtWork, RowBecomesDoes DEF X!ReadClip, X!EndJob, ExportTyped, RowInv, Rests, RowBecomes
  <2> QED
    BY <2>1, <2>2, <2>3, WorkedKeeps
<1> QED
  BY <1>2, <1>3

LEMMA HeartbeatKeeps ==
    ASSUME ExportInv, NEW e \in Exports, X!Heartbeat(e)
    PROVE  ExportInv'
<1>1. worker[e] = "encoding"
  BY DEF X!Heartbeat
<1>2. CASE row[e].status = "running"
  <2> DEFINE r == [row[e] EXCEPT !.overdue = 0]
  <2>1. r \in ExportRows /\ r.status = "running" /\ r.source = row[e].source /\ r.file = row[e].file
    BY <1>1, <1>2, AtWork, ExportConstants DEF ExportRows
  <2>2. row' = [row EXCEPT ![e] = r] /\ job' = job /\ worker' = worker
    BY <1>1, <1>2, AtWork DEF X!Heartbeat, X!Status, ExportTyped
  <2> HIDE DEF r
  <2>3. RowBecomes(e, r)
    BY <1>2, <2>1, <2>2 DEF RowBecomes
  <2>4. Worked(e)
    BY <1>1, <2>2, <2>3, AtWork, RowBecomesDoes DEF X!Heartbeat, ExportTyped, Sets, Worked
  <2>5. RowInv(e)'
    BY <1>1, <2>1, <2>2, <2>3, AtWork, RowBecomesDoes DEF X!Heartbeat, ExportTyped, RowInv, Rests
  <2> QED
    BY <2>3, <2>4, <2>5, WorkedKeeps
<1>3. CASE row[e].status # "running"
  <2>1. RowBecomes(e, row[e]) /\ row' = row
    BY <1>1, <1>3, AtWork, RowKept DEF X!Heartbeat, X!Status
  <2>2. Worked(e)
    BY <1>1, <1>3, AtWork DEF X!Heartbeat, X!Status, X!EndJob, ExportTyped, Sets, Worked
  <2>3. RowInv(e)'
    BY <1>1, <1>3, <2>1, AtWork DEF X!Heartbeat, X!Status, X!EndJob, ExportTyped, RowInv, Rests
  <2> QED
    BY <2>1, <2>2, <2>3, WorkedKeeps
<1> QED
  BY <1>2, <1>3

\* The commit of mark_succeeded, whether or not its answer arrives.
Succeeds(e) ==
    /\ worker[e] = "uploaded" /\ row[e].status = "running"
    /\ row' = [row EXCEPT ![e].status = "succeeded", ![e].file = TRUE, ![e].overdue = 0]
    /\ X!EndJob(e)
    /\ \/ stored' = stored /\ lost' = lost
       \/ stored' = stored \ {e} /\ lost' = lost \cup {e}
    /\ UNCHANGED <<clip, posting, exportFiles>>

LEMMA SucceedsKeeps ==
    ASSUME ExportInv, NEW e \in Exports, Succeeds(e)
    PROVE  ExportInv'
<1>1. worker[e] = "uploaded" /\ worker[e] # "idle"
  BY DEF Succeeds
<1> DEFINE r == [row[e] EXCEPT !.status = "succeeded", !.file = TRUE, !.overdue = 0]
<1>2. r \in ExportRows /\ r.status = "succeeded" /\ r.source = row[e].source
  BY <1>1, AtWork, ExportConstants DEF ExportRows
<1>3. row' = [row EXCEPT ![e] = r]
  BY <1>1, AtWork DEF Succeeds, ExportTyped
<1> HIDE DEF r
<1>4. RowBecomes(e, r)
  BY <1>2, <1>3 DEF RowBecomes, Succeeds
<1>5. Worked(e)
  BY <1>1, <1>4, AtWork, RowBecomesDoes DEF Succeeds, X!EndJob, ExportTyped, Sets, Worked
<1>6. RowInv(e)'
  BY <1>1, <1>2, <1>4, AtWork, RowBecomesDoes DEF Succeeds, X!EndJob, ExportTyped, RowInv, Rests
<1> QED
  BY <1>4, <1>5, <1>6, WorkedKeeps

LEMMA SaveKeeps ==
    ASSUME ExportInv, NEW e \in Exports, X!Save(e) \/ X!SaveAnswerLost(e)
    PROVE  ExportInv'
<1>1. worker[e] = "uploaded" /\ worker[e] # "idle"
  BY DEF X!Save, X!SaveAnswerLost
<1>2. CASE row[e].status = "running"
  <2>1. Succeeds(e)
    BY <1>1, <1>2 DEF X!Save, X!SaveAnswerLost, X!Status, Succeeds
  <2> QED
    BY <2>1, SucceedsKeeps
<1>3. CASE row[e].status # "running"
  <2>1. RowBecomes(e, row[e]) /\ row' = row
    BY <1>1, <1>3, AtWork, RowKept DEF X!Save, X!SaveAnswerLost, X!Status
  <2>2. Worked(e)
    BY <1>1, <1>3, AtWork DEF X!Save, X!SaveAnswerLost, X!Status, X!Discard, X!EndJob, ExportTyped, Sets, Worked
  <2>3. RowInv(e)'
    BY <1>1, <1>3, <2>1, AtWork DEF X!Save, X!SaveAnswerLost, X!Status, X!Discard, X!EndJob, ExportTyped, RowInv, Rests
  <2> QED
    BY <2>1, <2>2, <2>3, WorkedKeeps
<1> QED
  BY <1>2, <1>3

LEMMA AbandonKeeps ==
    ASSUME ExportInv, NEW e \in Exports, X!Abandon(e)
    PROVE  ExportInv'
<1>1. worker[e] # "idle"
  BY DEF X!Abandon
<1>2. PICK r : RowBecomes(e, r) /\ r.file = row[e].file /\ (r.status = "succeeded" => row[e].status = "succeeded")
  BY <1>1, AtWork, FailureRecorded DEF X!Abandon
<1>3. Worked(e)
  BY <1>1, <1>2, AtWork, RowBecomesDoes DEF X!Abandon, X!StrayUpload, X!Discard, X!EndJob, ExportTyped, Sets, Worked
<1>4. RowInv(e)'
  BY <1>1, <1>2, AtWork, RowBecomesDoes DEF X!Abandon, X!StrayUpload, X!Discard, X!EndJob, ExportTyped, RowInv, Rests, RowBecomes
<1> QED
  BY <1>2, <1>3, <1>4, WorkedKeeps

LEMMA EnqueueFailsKeeps ==
    ASSUME ExportInv, NEW e \in Exports, X!EnqueueFails(e)
    PROVE  ExportInv'
<1>1. ExportTyped /\ RowInv(e) /\ row[e] \in ExportRows /\ e \in posting
  BY ExportTypedIs DEF ExportInv, ExportTyped, X!EnqueueFails
<1>2. /\ job[e] = "absent" /\ worker[e] = "idle" /\ e \notin exportFiles
      /\ ~row[e].file /\ row[e].status # "succeeded" /\ row[e].source # 0
  BY <1>1 DEF RowInv, Rests, ExportRows
<1>3. X!RecordFailure(e)
  BY DEF X!EnqueueFails, X!RecordFailure
<1>4. PICK r : RowBecomes(e, r) /\ r.file = row[e].file /\ (r.status = "succeeded" => row[e].status = "succeeded")
  BY <1>1, <1>3, FailureRecorded
<1>5. Worked(e)
  BY <1>1, <1>2, <1>4, RowBecomesDoes DEF X!EnqueueFails, ExportTyped, Sets, Worked
<1>6. RowInv(e)'
  BY <1>1, <1>2, <1>4, RowBecomesDoes DEF X!EnqueueFails, ExportTyped, RowInv, Rests, RowBecomes
<1> QED
  BY <1>4, <1>5, <1>6, WorkedKeeps

-----------------------------------------------------------------------------
(* Steps that end any number of rows: sweeps, polls, the clip's deletion.   *)

\* A row stays as it is, or fails or goes; only a file at rest is to be deleted.
Falls(e) ==
    /\ job'[e] = job[e] /\ worker'[e] = worker[e]
    /\ e \in posting' <=> e \in posting
    /\ e \in stored' <=> e \in stored
    /\ e \in lost' <=> e \in lost
    /\ \/ row'[e] = row[e] /\ (e \in exportFiles' <=> e \in exportFiles)
       \/ /\ row'[e].status \in {"failed", "none"} /\ row'[e].source = row[e].source
          /\ row[e].source # 0 /\ (row'[e].file => row[e].file)
          /\ e \in exportFiles' => e \in exportFiles \/ Rests(e)

LEMMA FallsOne ==
    ASSUME NEW e \in Exports, RowInv(e), Falls(e)
    PROVE  RowInv(e)'
BY DEF RowInv, Falls, Rests

LEMMA FallsKeeps ==
    ASSUME ExportInv, ExportTyped', \A e \in Exports : Falls(e)
    PROVE  ExportInv'
<1>1. \A e \in Exports : RowInv(e)'
  BY FallsOne DEF ExportInv
<1>2. NoneLives
  BY DEF NoneLives, Falls
<1> QED
  BY <1>1, <1>2, NoneLivesKeeps, ExportTypedIsAfter DEF ExportInv

LEMMA LiveIsUsed ==
    ASSUME ExportInv, NEW e \in Exports, row[e].status # "none"
    PROVE  row[e].source # 0
BY NoRowIs DEF ExportInv, RowInv

LEMMA SweepKeeps ==
    ASSUME ExportInv, NEW reachable \in BOOLEAN, X!SweepExports(reachable)
    PROVE  ExportInv'
<1>1. ExportTyped
  BY ExportTypedIs DEF ExportInv
<1> DEFINE swept == X!Reaped(Exports, reachable)
<1>2. /\ swept \in [Exports -> ExportRows] /\ row' = swept
      /\ \A e \in Exports :
            \/ swept[e] = row[e]
            \/ /\ row[e].status \in {"queued", "running"} /\ swept[e].status = "failed"
               /\ swept[e].source = row[e].source /\ swept[e].file = row[e].file
  BY <1>1, ReapedIs DEF X!SweepExports
<1> HIDE DEF swept
<1>3. ExportTyped'
  BY <1>1, <1>2 DEF X!SweepExports, ExportTyped, Sets
<1>4. \A e \in Exports : Falls(e)
  BY <1>2, LiveIsUsed DEF X!SweepExports, Falls
<1> QED
  BY <1>3, <1>4, FallsKeeps

LEMMA PresentKeeps ==
    ASSUME ExportInv, NEW e \in Exports, NEW reachable \in BOOLEAN, X!Present(e, reachable)
    PROVE  ExportInv'
<1>1. ExportTyped /\ RowInv(e)
  BY ExportTypedIs DEF ExportInv
<1> DEFINE swept == X!Reaped({e}, reachable)
           gone == swept[e].status = "succeeded" /\ e \notin stored
<1>2. /\ swept \in [Exports -> ExportRows]
      /\ \A f \in Exports :
            \/ swept[f] = row[f]
            \/ /\ row[f].status \in {"queued", "running"} /\ swept[f].status = "failed"
               /\ swept[f].source = row[f].source /\ swept[f].file = row[f].file
  BY <1>1, ReapedIs
<1>3. /\ row' = IF gone THEN [swept EXCEPT ![e] = X!Failed(@)] ELSE swept
      /\ exportFiles' = IF gone THEN exportFiles \cup {e} ELSE exportFiles
      /\ UNCHANGED <<clip, job, worker, posting, stored, lost>>
  BY DEF X!Present
<1> HIDE DEF swept
<1>4. CASE ~gone
  <2>1. ExportTyped'
    BY <1>1, <1>2, <1>3, <1>4 DEF ExportTyped, Sets
  <2>2. \A f \in Exports : Falls(f)
    BY <1>2, <1>3, <1>4, LiveIsUsed DEF Falls
  <2> QED
    BY <2>1, <2>2, FallsKeeps
<1>5. CASE gone
  <2> DEFINE r == X!Failed(swept[e])
  <2>1. r \in ExportRows /\ r.status = "failed" /\ r.source = swept[e].source /\ r.file = swept[e].file
    BY <1>2, FailedIs
  <2>2. row' = [swept EXCEPT ![e] = r] /\ exportFiles' = exportFiles \cup {e}
    BY <1>3, <1>5
  <2> HIDE DEF r
  <2>3. swept[e] = row[e] /\ row[e].status = "succeeded" /\ row[e].source # 0 /\ Rests(e)
    BY <1>1, <1>2, <1>5, LiveIsUsed DEF RowInv
  <2>4. ExportTyped'
    BY <1>1, <1>2, <1>3, <2>1, <2>2 DEF ExportTyped, Sets
  <2>5. \A f \in Exports : Falls(f)
    BY <1>2, <1>3, <2>1, <2>2, <2>3, LiveIsUsed DEF Falls
  <2> QED
    BY <2>4, <2>5, FallsKeeps
<1> QED
  BY <1>4, <1>5

LEMMA ClipKeeps ==
    ASSUME ExportInv, X!EditClip \/ X!DeleteClip
    PROVE  ExportInv'
<1>1. ExportTyped /\ (\A e \in Exports : RowInv(e) /\ row[e] \in ExportRows)
  BY ExportTypedIs DEF ExportInv, ExportTyped
<1>2. CASE X!EditClip
  <2>1. ExportTyped' /\ (\A e \in Exports : Falls(e))
    BY <1>1, <1>2, StudioAssumption DEF X!EditClip, ExportTyped, Sets, Falls
  <2> QED
    BY <2>1, FallsKeeps
<1>3. CASE X!DeleteClip
  <2>1. \A e \in Exports : /\ X!Deleted(row[e]) \in ExportRows /\ X!Deleted(row[e]).status = "none"
                           /\ X!Deleted(row[e]).source = row[e].source /\ ~X!Deleted(row[e]).file
                           /\ row[e] = X!NoRow => X!Deleted(row[e]) = row[e]
    BY <1>1, DeletedIs
  <2>2. /\ row' = [e \in Exports |-> X!Deleted(row[e])] /\ clip' = 0
        /\ exportFiles' = exportFiles \cup {e \in Exports : row[e].file}
        /\ UNCHANGED <<job, worker, posting, stored, lost>>
    BY <1>3 DEF X!DeleteClip
  <2>3. ExportTyped'
    BY <1>1, <2>1, <2>2, ExportConstants DEF ExportTyped, Sets
  <2>4. ASSUME NEW e \in Exports PROVE Falls(e)
    <3>1. CASE row[e].source = 0
      BY <1>1, <2>1, <2>2, <3>1, NoRowIs DEF Falls, RowInv
    <3>2. CASE row[e].source # 0
      BY <1>1, <2>1, <2>2, <3>2 DEF Falls, RowInv
    <3> QED
      BY <3>1, <3>2
  <2> QED
    BY <2>3, <2>4, FallsKeeps
<1> QED
  BY <1>2, <1>3

-----------------------------------------------------------------------------
(* The start of an export.                                                  *)

LEMMA StartKeeps ==
    ASSUME ExportInv, NEW reachable \in BOOLEAN, X!Start(reachable)
    PROVE  ExportInv'
<1>1. ExportTyped /\ (\A e \in Exports : RowInv(e) /\ row[e] \in ExportRows) /\ X!OneLiveExport
  BY ExportTypedIs DEF ExportInv, ExportTyped
<1> DEFINE mine == {e \in Exports : row[e].source = clip}
           swept == X!Reaped(mine, reachable)
           existing == {e \in mine : swept[e].status \in X!Live}
           unusable == {e \in existing : swept[e].status = "succeeded" /\ (e \notin stored \/ row[e].expired)}
<1>2. /\ swept \in [Exports -> ExportRows]
      /\ \A f \in Exports :
            \/ swept[f] = row[f]
            \/ /\ row[f].status \in {"queued", "running"} /\ swept[f].status = "failed"
               /\ swept[f].source = row[f].source /\ swept[f].file = row[f].file
  <2> HIDE DEF mine, existing, unusable
  <2> QED
    BY <1>1, ReapedIs
<1>3. /\ clip # 0 /\ exportFiles' = exportFiles \cup unusable
      /\ UNCHANGED <<clip, job, worker, stored, lost>>
      /\ \/ existing \ unusable # {} /\ row' = swept /\ posting' = posting
         \/ /\ existing \ unusable = {}
            /\ \E new \in Exports :
                 /\ row[new] = X!NoRow /\ posting' = posting \cup {new}
                 /\ row' = [e \in Exports |->
                              IF e = new THEN [X!NoRow EXCEPT !.status = "queued", !.source = clip]
                              ELSE IF e \in unusable THEN X!Failed(swept[e]) ELSE swept[e]]
  BY DEF X!Start
<1>4. \A e \in unusable : /\ e \in Exports /\ swept[e] = row[e] /\ row[e].status = "succeeded"
                          /\ row[e].source = clip /\ Rests(e)
  BY <1>1, <1>2 DEF RowInv
<1>5. \A e \in Exports : row[e].source = clip /\ swept[e].status \in X!Live => e \in existing
  OBVIOUS
<1>6. \A e, f \in existing : e = f
  BY <1>1, <1>2 DEF X!OneLiveExport, X!Status
<1>7. unusable \subseteq existing
  OBVIOUS
<1> HIDE DEF swept, existing, unusable, mine
<1>8. CASE existing \ unusable # {}
  <2>1. unusable = {}
    BY <1>6, <1>7, <1>8
  <2>2. row' = swept /\ posting' = posting /\ exportFiles' = exportFiles
    BY <1>3, <1>8, <2>1
  <2>3. ExportTyped'
    BY <1>1, <1>2, <1>3, <2>2 DEF ExportTyped, Sets
  <2>4. \A e \in Exports : Falls(e)
    BY <1>2, <1>3, <2>2, LiveIsUsed DEF Falls
  <2> QED
    BY <2>3, <2>4, FallsKeeps
<1>9. CASE existing \ unusable = {}
  <2> DEFINE fresh == [X!NoRow EXCEPT !.status = "queued", !.source = clip]
  <2>1. PICK new \in Exports :
          /\ row[new] = X!NoRow /\ posting' = posting \cup {new}
          /\ row' = [e \in Exports |-> IF e = new THEN fresh
                                       ELSE IF e \in unusable THEN X!Failed(swept[e]) ELSE swept[e]]
    BY <1>3, <1>9
  <2>2. /\ fresh \in ExportRows /\ fresh.status = "queued" /\ fresh.source = clip /\ ~fresh.file
    BY <1>1, ExportConstants DEF X!NoRow, ExportRows, ExportTyped
  <2>3. Rests(new) /\ new \notin exportFiles /\ new \notin unusable
    BY <1>1, <1>4, <2>1, NoRowIs DEF RowInv
  <2>4. \A e \in unusable : /\ X!Failed(swept[e]) \in ExportRows /\ X!Failed(swept[e]).status = "failed"
                            /\ X!Failed(swept[e]).source = row[e].source
                            /\ X!Failed(swept[e]).file = row[e].file
    BY <1>2, <1>4, FailedIs
  <2> HIDE DEF fresh
  <2>5. ExportTyped'
    BY <1>1, <1>2, <1>3, <1>4, <2>1, <2>2, <2>4 DEF ExportTyped, Sets
  <2>6. ASSUME NEW e \in Exports \ {new} PROVE Falls(e)
    <3>1. CASE e \in unusable
      BY <1>3, <1>4, <2>1, <2>4, <3>1 DEF Falls
    <3>2. CASE e \notin unusable
      BY <1>2, <1>3, <2>1, <3>2, LiveIsUsed DEF Falls
    <3> QED
      BY <3>1, <3>2
  <2>7. RowInv(new)'
    BY <1>3, <2>1, <2>2, <2>3 DEF RowInv, Rests
  <2>8. \A e \in Exports : RowInv(e)'
    BY <1>1, <2>6, <2>7, FallsOne
  <2>9. ASSUME NEW e \in Exports \ {new}, row'[e].status \in X!Live
        PROVE  row[e].status \in X!Live /\ row'[e].source = row[e].source /\ row[e].source # clip
    <3>1. e \notin unusable /\ row'[e] = swept[e]
      BY <2>1, <2>4, <2>9
    <3>2. row[e].source # clip
      BY <1>5, <1>9, <2>9, <3>1
    <3> QED
      BY <1>2, <2>9, <3>1, <3>2
  <2>10. row'[new].source = clip
    BY <2>1, <2>2
  <2>11. (X!OneLiveExport)'
    <3> SUFFICES ASSUME NEW e \in Exports, NEW f \in Exports, row'[e].status \in X!Live,
                        row'[f].status \in X!Live, row'[e].source = row'[f].source
                 PROVE  e = f
      BY DEF X!OneLiveExport, X!Status
    <3>1. CASE e = new \/ f = new
      BY <2>9, <2>10, <3>1
    <3>2. CASE e # new /\ f # new
      BY <1>1, <2>9, <3>2 DEF X!OneLiveExport, X!Status
    <3> QED
      BY <3>1, <3>2
  <2> QED
    BY <2>5, <2>8, <2>11, ExportTypedIsAfter DEF ExportInv
<1> QED
  BY <1>8, <1>9

-----------------------------------------------------------------------------
(* The theorems.                                                            *)

LEMMA ExportsNextKeep ==
    ASSUME ExportInv, X!Next
    PROVE  ExportInv'
<1>1. CASE \E reachable \in BOOLEAN : X!Start(reachable) \/ X!SweepExports(reachable)
  BY <1>1, StartKeeps, SweepKeeps
<1>2. CASE X!EditClip \/ X!DeleteClip
  BY <1>2, ClipKeeps
<1>3. ASSUME NEW e \in Exports,
             \/ X!GrowsOverdue(e) \/ X!Expires(e)
             \/ X!Enqueue(e) \/ X!EnqueueFails(e) \/ X!ApiDies(e)
             \/ \E reachable \in BOOLEAN : X!Present(e, reachable)
             \/ X!Deliver(e) \/ X!ReadClip(e) \/ X!Heartbeat(e) \/ X!Encode(e) \/ X!Upload(e)
             \/ X!Save(e) \/ X!SaveAnswerLost(e) \/ X!Abandon(e) \/ X!WorkerDies(e)
             \/ X!ExpireExport(e) \/ X!PurgeFailure(e) \/ X!DrainDeletion(e)
      PROVE  ExportInv'
  BY <1>3, QuietSteps, TimeSteps, EnqueueFailsKeeps, PresentKeeps, DeliverKeeps, ReadClipKeeps,
     HeartbeatKeeps, SaveKeeps, AbandonKeeps
<1> QED
  BY <1>1, <1>2, <1>3 DEF X!Next

LEMMA IdleHolds ==
    ASSUME X!Idle, clip \in 0..MaxEdits
    PROVE  ExportInv
<1>1. ExportTyped
  BY NoRowIs DEF X!Idle, ExportTyped, Sets
<1>2. \A e \in Exports : RowInv(e)
  BY NoRowIs DEF X!Idle, RowInv, Rests
<1>3. X!OneLiveExport
  BY NoRowIs DEF X!Idle, X!OneLiveExport, X!Status
<1> QED
  BY <1>1, <1>2, <1>3, ExportTypedIs DEF ExportInv

LEMMA ExportsStartHolds == Init => ExportInv
BY IdleHolds, ExportConstants DEF Init, X!Init, X!Gone

LEMMA ExportsStutterKeep ==
    ASSUME ExportInv, UNCHANGED exports
    PROVE  ExportInv'
BY DEF ExportInv, X!TypeOK, RowInv, Rests, X!OneLiveExport, X!Status, exports

\* Each row is used once, enqueued once and rests when it is finished, and only files no
\* live row names are deleted (clip_export_service.py, clip_export_repository.py).
THEOREM ExportsInductive == Spec => []ExportInv
<1>1. ExportInv /\ [Next]_<<part, exports, uploads, browserUploads, replicas, progress>> => ExportInv'
  BY ExportsNextKeep, ExportsStutterKeep DEF Next
<1> QED
  BY <1>1, ExportsStartHolds, PTL DEF Spec

\* One live row for a clip and a look, whatever starts, sweeps and workers do, and a
\* file behind every row that offers one, unless a worker lost the answer to its commit.
THEOREM ExportsCorrect == Spec => []ExportsHold
<1>1. ExportInv => ExportsHold
  BY DEF ExportInv, RowInv, ExportsHold, X!ReadyHasFile, X!Status
<1> QED
  BY <1>1, ExportsInductive, PTL

-----------------------------------------------------------------------------
(* Uploads: contents, keys, sources in use, and the sessions of a user.     *)

\* The request holds the user's lock.
Locking(u) == up[u].pc \in {"placing", "binding"}

\* A request has a content once it has published it.
ContentInv ==
    \A u \in Uploads : IF up[u].pc \in {"off", "idle"} THEN up[u].content = Nothing ELSE up[u].content \in Contents
\* Every file and session is of the content its path was published with.
BytesInv ==
    \A p \in Uploads : /\ file[p] \in {up[p].content, Nothing}
                       /\ session[p].digest \in {up[p].content, Nothing}
                       /\ session[p].live => session[p].digest # Nothing
\* A path a request reuses, or answers, is of that request's content.
AnswerInv ==
    \A u \in Uploads : \A p \in Uploads : p = up[u].reuse \/ p = up[u].answer =>
        up[p].pc = "done" /\ up[p].content = up[u].content
\* What names a path names one whose request has ended.
KnownInv ==
    /\ \A p \in Uploads : session[p].live \/ p \in tasks \/ p = creating => up[p].pc = "done"
    /\ \A k \in Keys : keys[k] # Nothing => up[keys[k]].pc = "done"
\* Between its claim and its binding a request holds the lock of the user, and nobody
\* else decides what its key stands for.
LockInv ==
    \A u \in Uploads : Locking(u) =>
        /\ owner = u /\ up[u].reuse # Nothing
        /\ up[u].learn => up[u].key # Nothing /\ keys[up[u].key] = Nothing
        /\ ~up[u].learn /\ up[u].key # Nothing /\ session[up[u].reuse].live => keys[up[u].key] = up[u].reuse
\* While its session lives, a key stands for the path it was answered with.
KeyInv ==
    \A u \in Uploads :
        up[u].answer # Nothing /\ up[u].key # Nothing /\ session[up[u].answer].live
        => keys[up[u].key] = up[u].answer
\* Equal bytes have one live session.
OneCopy ==
    \A p, q \in Uploads :
        session[p].live /\ session[q].live /\ session[p].digest = session[q].digest => p = q
\* A pass that deletes holds the guard of a path no task names.
GuardInv ==
    /\ drain # Nothing => guard[drain] = "drain" /\ drain \notin tasks
    /\ expiry.pc # "idle" => expiry.at # Nothing
    /\ expiry.pc \in {"guarded", "unlinked"} => guard[expiry.at] = "expiry" /\ expiry.at \notin tasks

\* The sessions of browser uploads.
OneSession(s) ==
    /\ api[s] \in {"off", "idle", "reserved"} => provider[s] = "none"
    /\ api[s] \in {"off", "idle"} => upload[s].state = "none" /\ ~upload[s].known /\ finishing[s] = {}
    /\ s \in sweeping => M!Open(s)
    /\ "completed" \in finishing[s] => provider[s] = "object"
    /\ upload[s].state = "completed" => provider[s] = "object"
SessionInv == \A s \in Sessions : OneSession(s)
UploadInv == U!TypeOK /\ ContentInv /\ BytesInv /\ AnswerInv /\ KnownInv /\ LockInv /\ KeyInv /\ OneCopy /\ GuardInv
BrowserInv == M!TypeOK /\ SessionInv /\ M!WithinLimit

Paths    == Uploads \cup {Nothing}
Texts    == Contents \cup {Nothing}
Requests == [pc : {"off", "idle", "published", "placing", "binding", "dropping", "done"},
             content : Texts, key : Keys \cup {Nothing}, reuse : Paths, learn : BOOLEAN, answer : Paths]
Rows     == [live : BOOLEAN, digest : Texts, ref : BOOLEAN, old : BOOLEAN]
Typed ==
    /\ up \in [Uploads -> Requests] /\ file \in [Uploads -> Texts]
    /\ session \in [Uploads -> Rows] /\ keys \in [Keys -> Paths]
    /\ owner \in Paths /\ creating \in Paths /\ drain \in Paths
    /\ guard \in [Uploads -> {Nothing, "drain", "expiry"}]
    /\ tasks \subseteq Uploads /\ toDelete \subseteq Uploads
    /\ expiry \in [pc : {"idle", "selected", "guarded", "unlinked"}, at : Paths]

LEMMA Fresh ==
    /\ Nothing \notin Uploads /\ Nothing \notin Contents /\ Nothing \notin Keys
    /\ Nothing # "drain" /\ Nothing # "expiry"
BY StudioAssumption

LEMMA TypedIs == U!TypeOK <=> Typed
BY DEF U!TypeOK, Typed, U!Paths, Requests, Rows, Paths, Texts

LEMMA TypedIsAfter == (U!TypeOK)' <=> Typed'
BY DEF U!TypeOK, Typed, U!Paths, Requests, Rows, Paths, Texts

LEMMA NoSessionIs ==
    U!NoSession \in Rows /\ ~U!NoSession.live /\ U!NoSession.digest = Nothing /\ ~U!NoSession.ref /\ ~U!NoSession.old
BY DEF U!NoSession, Rows, Texts

-----------------------------------------------------------------------------
(* Requests.                                                                *)

\* r is what request u becomes.
Becomes(u, r) == r \in Requests /\ up' = [up EXCEPT ![u] = r]

LEMMA BecomesDoes ==
    ASSUME Typed, NEW u \in Uploads, NEW r, Becomes(u, r)
    PROVE  up' \in [Uploads -> Requests] /\ up'[u] = r /\ \A v \in Uploads \ {u} : up'[v] = up[v]
BY DEF Becomes, Typed

LEMMA PublishKeeps ==
    ASSUME UploadInv, NEW u \in Uploads, U!Publish(u)
    PROVE  UploadInv'
<1>1. Typed /\ up[u] \in Requests /\ up[u].pc = "idle"
  BY TypedIs DEF UploadInv, Typed, U!Publish
<1>2. PICK c \in Contents, k \in Keys \cup {Nothing} :
         /\ up' = [up EXCEPT ![u].pc = "published", ![u].content = c, ![u].key = k]
         /\ file' = [file EXCEPT ![u] = c]
  BY DEF U!Publish
<1>3. UNCHANGED <<session, keys, owner, tasks, creating, expiry, drain, toDelete, guard>>
  BY DEF U!Publish, U!rest
<1> DEFINE r == [up[u] EXCEPT !.pc = "published", !.content = c, !.key = k]
<1>4. /\ r \in Requests /\ r.pc = "published" /\ r.content = c /\ r.reuse = up[u].reuse
      /\ r.answer = up[u].answer
  BY <1>1 DEF Requests, Texts
<1>5. Becomes(u, r)
  BY <1>1, <1>2, <1>4 DEF Becomes, Typed
<1> HIDE DEF r
<1>6. Typed'
  BY <1>1, <1>2, <1>3, <1>5, BecomesDoes DEF Typed, Texts
<1>7. up[u].content = Nothing /\ ~session[u].live /\ session[u].digest = Nothing
  BY <1>1 DEF UploadInv, ContentInv, BytesInv, KnownInv
<1>8. up[u].reuse = Nothing /\ up[u].answer = Nothing /\ \A v \in Uploads : up[v].reuse # u /\ up[v].answer # u
  <2>1. \A p \in Uploads : up[p].pc = "done" => up[p].content # Nothing
    BY Fresh DEF UploadInv, ContentInv
  <2> QED
    BY <1>1, <1>7, <2>1 DEF UploadInv, AnswerInv, Requests, Paths
<1>9. ContentInv' /\ AnswerInv'
  BY <1>1, <1>4, <1>5, <1>8, Fresh, BecomesDoes DEF UploadInv, ContentInv, AnswerInv
<1>10. BytesInv'
  BY <1>1, <1>2, <1>3, <1>4, <1>5, <1>7, BecomesDoes DEF UploadInv, BytesInv, Typed
<1>11. KnownInv'
  BY <1>1, <1>3, <1>4, <1>5, BecomesDoes DEF UploadInv, KnownInv, Typed, Paths
<1>12. LockInv' /\ KeyInv'
  BY <1>1, <1>3, <1>4, <1>5, <1>8, BecomesDoes DEF UploadInv, LockInv, Locking, KeyInv
<1>13. OneCopy' /\ GuardInv'
  BY <1>3 DEF UploadInv, OneCopy, GuardInv
<1> QED
  BY <1>6, <1>9, <1>10, <1>11, <1>12, <1>13, TypedIsAfter DEF UploadInv

\* A request goes on: it has ended if it had, and keeps its content and key.
Goes(u, r) ==
    /\ Becomes(u, r) /\ up[u].pc \notin {"off", "idle"} /\ r.pc \notin {"off", "idle"}
    /\ r.content = up[u].content /\ r.key = up[u].key
    /\ up[u].pc = "done" => r.pc = "done"
    /\ \A p \in Uploads : p = r.reuse \/ p = r.answer => up[p].pc = "done" /\ up[p].content = r.content

LEMMA GoesKeeps ==
    ASSUME UploadInv, NEW u \in Uploads, NEW r, Goes(u, r)
    PROVE  /\ ContentInv' /\ AnswerInv' /\ Typed
           /\ \A v \in Uploads : up[v].pc = "done" => up'[v].pc = "done"
           /\ \A v \in Uploads : up'[v].content = up[v].content /\ up'[v].key = up[v].key
           /\ up' \in [Uploads -> Requests] /\ up'[u] = r /\ \A v \in Uploads \ {u} : up'[v] = up[v]
<1>1. Typed
  BY TypedIs DEF UploadInv
<1>2. up' \in [Uploads -> Requests] /\ up'[u] = r /\ \A v \in Uploads \ {u} : up'[v] = up[v]
  BY <1>1, BecomesDoes DEF Goes
<1>3. \A v \in Uploads : up[v].pc = "done" => up'[v].pc = "done"
  BY <1>2 DEF Goes
<1>4. \A v \in Uploads : up'[v].content = up[v].content /\ up'[v].key = up[v].key
  BY <1>2 DEF Goes
<1>5. ContentInv'
  BY <1>2, <1>4 DEF Goes, UploadInv, ContentInv
<1>6. AnswerInv'
  BY <1>2, <1>3, <1>4 DEF Goes, UploadInv, AnswerInv
<1> QED
  BY <1>1, <1>2, <1>3, <1>4, <1>5, <1>6

LEMMA ReuseKeeps ==
    ASSUME UploadInv, NEW u \in Uploads, NEW p \in Uploads, NEW learn \in BOOLEAN,
           up[u].pc = "published", owner = Nothing,
           up[p].pc = "done", up[p].content = up[u].content,
           learn => up[u].key # Nothing /\ keys[up[u].key] = Nothing,
           ~learn /\ up[u].key # Nothing => keys[up[u].key] = p,
           U!Reuse(u, p, learn), UNCHANGED <<file, U!rest>>
    PROVE  UploadInv'
<1>1. Typed /\ up[u] \in Requests
  BY TypedIs DEF UploadInv, Typed
<1>2. PICK step \in {"binding", "placing"} :
        /\ up' = [up EXCEPT ![u].pc = step, ![u].reuse = p, ![u].learn = learn]
        /\ owner' = u
  BY DEF U!Reuse
<1>3. UNCHANGED <<file, session, keys, tasks, creating, expiry, drain, toDelete, guard>>
  BY DEF U!Reuse, U!rest
<1> DEFINE r == [up[u] EXCEPT !.pc = step, !.reuse = p, !.learn = learn]
<1>4. /\ r \in Requests /\ r.pc = step /\ r.content = up[u].content /\ r.key = up[u].key
      /\ r.reuse = p /\ r.learn = learn /\ r.answer = up[u].answer
  BY <1>1 DEF Requests, Paths
<1>5. up' = [up EXCEPT ![u] = r]
  BY <1>1, <1>2 DEF Typed
<1> HIDE DEF r
<1>6. \A q \in Uploads : q = up[u].answer => up[q].pc = "done" /\ up[q].content = up[u].content
  BY DEF UploadInv, AnswerInv
<1>7. Goes(u, r)
  BY <1>4, <1>5, <1>6 DEF Goes, Becomes
<1>8. Typed'
  BY <1>1, <1>2, <1>3, <1>7, GoesKeeps DEF Typed, Paths
<1>9. BytesInv' /\ OneCopy' /\ GuardInv'
  BY <1>3, <1>7, GoesKeeps DEF UploadInv, BytesInv, OneCopy, GuardInv
<1>10. KnownInv'
  BY <1>1, <1>3, <1>7, GoesKeeps DEF UploadInv, KnownInv, Typed, Paths
<1>11. LockInv'
  BY <1>1, <1>2, <1>3, <1>4, <1>7, GoesKeeps, Fresh DEF UploadInv, LockInv, Locking
<1>12. KeyInv'
  BY <1>1, <1>3, <1>4, <1>7, GoesKeeps DEF UploadInv, KeyInv
<1> QED
  BY <1>7, <1>8, <1>9, <1>10, <1>11, <1>12, GoesKeeps, TypedIsAfter DEF UploadInv

LEMMA RefuseKeeps ==
    ASSUME UploadInv, NEW u \in Uploads, up[u].pc = "published", owner = Nothing,
           U!Refuse(u), UNCHANGED <<file, U!rest>>
    PROVE  UploadInv'
<1>1. Typed /\ up[u] \in Requests
  BY TypedIs DEF UploadInv, Typed
<1>2. UNCHANGED <<file, session, keys, owner, tasks, creating, expiry, drain, toDelete, guard>>
  BY DEF U!Refuse, U!rest
<1> DEFINE r == [up[u] EXCEPT !.pc = "dropping"]
<1>3. /\ r \in Requests /\ r.pc = "dropping" /\ r.content = up[u].content /\ r.key = up[u].key
      /\ r.reuse = up[u].reuse /\ r.answer = up[u].answer
  BY <1>1 DEF Requests
<1>4. up' = [up EXCEPT ![u] = r]
  BY <1>1 DEF Typed, U!Refuse
<1> HIDE DEF r
<1>5. Goes(u, r)
  BY <1>3, <1>4 DEF Goes, Becomes, UploadInv, AnswerInv
<1>6. Typed'
  BY <1>1, <1>2, <1>5, GoesKeeps DEF Typed
<1>7. BytesInv' /\ OneCopy' /\ GuardInv'
  BY <1>2, <1>5, GoesKeeps DEF UploadInv, BytesInv, OneCopy, GuardInv
<1>8. KnownInv'
  BY <1>1, <1>2, <1>5, GoesKeeps DEF UploadInv, KnownInv, Typed, Paths
<1>9. LockInv' /\ KeyInv'
  BY <1>2, <1>3, <1>5, GoesKeeps DEF UploadInv, LockInv, Locking, KeyInv
<1> QED
  BY <1>5, <1>6, <1>7, <1>8, <1>9, GoesKeeps, TypedIsAfter DEF UploadInv

\* A new completed session for bytes no live session has.
Opens(u) ==
    /\ session' = [session EXCEPT ![u] = [U!NoSession EXCEPT !.live = TRUE, !.digest = up[u].content]]
    /\ keys' = [k \in Keys |-> IF k = up[u].key THEN u ELSE keys[k]]
    /\ up' = [up EXCEPT ![u].pc = "done", ![u].answer = u]
    /\ UNCHANGED owner

LEMMA OpensKeeps ==
    ASSUME UploadInv, NEW u \in Uploads, up[u].pc = "published", owner = Nothing,
           U!ByKey(u) = Nothing, U!SameBytes(u) = {}, Opens(u), UNCHANGED <<file, U!rest>>
    PROVE  UploadInv'
<1>1. Typed /\ up[u] \in Requests
  BY TypedIs DEF UploadInv, Typed
<1>2. UNCHANGED <<file, owner, tasks, creating, expiry, drain, toDelete, guard>>
  BY DEF Opens, U!rest
<1> DEFINE r == [up[u] EXCEPT !.pc = "done", !.answer = u]
           s == [U!NoSession EXCEPT !.live = TRUE, !.digest = up[u].content]
<1>3. /\ r \in Requests /\ r.pc = "done" /\ r.content = up[u].content /\ r.key = up[u].key
      /\ r.reuse = up[u].reuse /\ r.answer = u
  BY <1>1 DEF Requests, Paths
<1>4. up' = [up EXCEPT ![u] = r]
  BY <1>1 DEF Typed, Opens
<1>5. s \in Rows /\ s.live /\ s.digest = up[u].content
  BY <1>1 DEF Rows, Requests, U!NoSession
<1>6. /\ session' = [session EXCEPT ![u] = s]
      /\ keys' = [k \in Keys |-> IF k = up[u].key THEN u ELSE keys[k]]
  BY DEF Opens
<1>7. up[u].content \in Contents /\ up[u].content # Nothing
  BY Fresh DEF UploadInv, ContentInv
<1>8. \A v \in Uploads : up[v].reuse # u /\ up[v].answer # u
  BY DEF UploadInv, AnswerInv
<1>9. \A v \in Uploads : ~Locking(v)
  BY Fresh DEF UploadInv, LockInv
<1>10. up[u].key # Nothing => keys[up[u].key] = Nothing
  BY DEF U!ByKey
<1>11. \A p \in Uploads : session[p].live => session[p].digest # up[u].content
  BY DEF U!SameBytes
<1> HIDE DEF r, s
<1>12. /\ up' \in [Uploads -> Requests] /\ up'[u] = r /\ \A v \in Uploads \ {u} : up'[v] = up[v]
       /\ session' \in [Uploads -> Rows] /\ session'[u] = s
       /\ \A v \in Uploads \ {u} : session'[v] = session[v]
       /\ keys' \in [Keys -> Paths]
  BY <1>1, <1>3, <1>4, <1>5, <1>6 DEF Typed, Paths
<1>13. Typed'
  BY <1>1, <1>2, <1>12 DEF Typed
<1>14. ContentInv' /\ AnswerInv'
  BY <1>3, <1>7, <1>8, <1>12 DEF UploadInv, ContentInv, AnswerInv
<1>15. BytesInv' /\ OneCopy'
  BY <1>2, <1>3, <1>5, <1>7, <1>11, <1>12 DEF UploadInv, BytesInv, OneCopy
<1>16. KnownInv'
  BY <1>1, <1>2, <1>3, <1>6, <1>12 DEF UploadInv, KnownInv, Typed, Paths
<1>17. LockInv'
  BY <1>3, <1>9, <1>12 DEF LockInv, Locking
<1>18. KeyInv'
  <2> SUFFICES ASSUME NEW v \in Uploads, up'[v].answer # Nothing, up'[v].key # Nothing,
                      session'[up'[v].answer].live
               PROVE  keys'[up'[v].key] = up'[v].answer
    BY DEF KeyInv
  <2>1. up'[v].key \in Keys
    BY <1>12 DEF Requests
  <2>2. CASE v = u
    BY <1>3, <1>6, <1>12, <2>1, <2>2
  <2>3. CASE v # u
    <3>1. up[v] \in Requests /\ up'[v] = up[v] /\ up[v].answer \in Uploads \ {u}
      BY <1>1, <1>8, <1>12, <2>3 DEF Typed, Requests, Paths
    <3>2. keys[up[v].key] = up[v].answer
      BY <1>12, <3>1 DEF UploadInv, KeyInv
    <3>3. up[v].key # up[u].key
      BY <1>10, <3>1, <3>2
    <3> QED
      BY <1>6, <2>1, <3>1, <3>2, <3>3
  <2> QED
    BY <2>2, <2>3
<1>19. GuardInv'
  BY <1>2 DEF UploadInv, GuardInv
<1> QED
  BY <1>13, <1>14, <1>15, <1>16, <1>17, <1>18, <1>19, TypedIsAfter DEF UploadInv

LEMMA ClaimKeeps ==
    ASSUME UploadInv, NEW u \in Uploads, U!Claim(u)
    PROVE  UploadInv'
<1>1. Typed /\ up[u] \in Requests
  BY TypedIs DEF UploadInv, Typed
<1>2. up[u].pc = "published" /\ owner = Nothing /\ UNCHANGED <<file, U!rest>>
  BY DEF U!Claim
<1>3. up[u].content # Nothing
  BY <1>2, Fresh DEF UploadInv, ContentInv
<1>4. CASE U!Refuse(u)
  BY <1>2, <1>4, RefuseKeeps
<1>5. CASE /\ U!ByKey(u) # Nothing /\ session[U!ByKey(u)].digest = up[u].content
           /\ U!Reuse(u, U!ByKey(u), FALSE)
  <2> DEFINE p == U!ByKey(u)
  <2>1. p \in Uploads /\ up[u].key \in Keys /\ p = keys[up[u].key]
    BY <1>1, <1>5 DEF U!ByKey, Typed, Requests, Paths
  <2>2. U!Reuse(u, p, FALSE) /\ session[p].digest = up[u].content
    BY <1>5
  <2> HIDE DEF p
  <2>3. up[p].pc = "done" /\ up[p].content = up[u].content
    BY <1>3, <2>1, <2>2, Fresh DEF UploadInv, KnownInv, BytesInv
  <2> QED
    BY <1>2, <2>1, <2>2, <2>3, ReuseKeeps
<1>6. CASE U!ByKey(u) = Nothing /\ \E p \in U!SameBytes(u) : U!Reuse(u, p, up[u].key # Nothing)
  <2>1. PICK p \in Uploads : session[p].live /\ session[p].digest = up[u].content /\ U!Reuse(u, p, up[u].key # Nothing)
    BY <1>6 DEF U!SameBytes
  <2>2. up[p].pc = "done" /\ up[p].content = up[u].content
    BY <1>3, <2>1 DEF UploadInv, KnownInv, BytesInv
  <2>3. up[u].key # Nothing => keys[up[u].key] = Nothing
    BY <1>6 DEF U!ByKey
  <2> QED
    BY <1>2, <2>1, <2>2, <2>3, ReuseKeeps
<1>7. CASE U!ByKey(u) = Nothing /\ U!SameBytes(u) = {} /\ Opens(u)
  BY <1>2, <1>7, OpensKeeps
<1> QED
  BY <1>4, <1>5, <1>6, <1>7 DEF U!Claim, Opens

LEMMA PlaceMissingKeeps ==
    ASSUME UploadInv, NEW u \in Uploads, U!PlaceMissing(u)
    PROVE  UploadInv'
<1>1. Typed /\ up[u] \in Requests /\ up[u].pc = "placing"
  BY TypedIs DEF UploadInv, Typed, U!PlaceMissing
<1>2. UNCHANGED <<session, keys, owner, tasks, creating, expiry, drain, toDelete, guard>>
  BY DEF U!PlaceMissing, U!rest
<1> DEFINE p == up[u].reuse
           r == [up[u] EXCEPT !.pc = "binding"]
<1>3. /\ r \in Requests /\ r.pc = "binding" /\ r.content = up[u].content /\ r.key = up[u].key
      /\ r.reuse = p /\ r.learn = up[u].learn /\ r.answer = up[u].answer
  BY <1>1 DEF Requests
<1>4. up' = [up EXCEPT ![u] = r]
  BY <1>1 DEF Typed, U!PlaceMissing
<1>5. p \in Uploads /\ up[p].content = up[u].content
  BY <1>1 DEF UploadInv, LockInv, Locking, AnswerInv, Requests, Paths
<1>6. file' = file \/ file' = [file EXCEPT ![p] = file[u]]
  BY DEF U!PlaceMissing
<1> HIDE DEF r, p
<1>7. Goes(u, r)
  BY <1>1, <1>3, <1>4 DEF Goes, Becomes, UploadInv, AnswerInv, p
<1>8. Typed'
  BY <1>1, <1>2, <1>5, <1>6, <1>7, GoesKeeps DEF Typed, Texts
<1>9. BytesInv'
  BY <1>1, <1>2, <1>5, <1>6, <1>7, GoesKeeps DEF UploadInv, BytesInv, Typed
<1>10. OneCopy' /\ GuardInv'
  BY <1>2 DEF UploadInv, OneCopy, GuardInv
<1>11. KnownInv'
  BY <1>1, <1>2, <1>7, GoesKeeps DEF UploadInv, KnownInv, Typed, Paths
<1>12. LockInv' /\ KeyInv'
  BY <1>1, <1>2, <1>3, <1>7, GoesKeeps DEF UploadInv, LockInv, Locking, KeyInv, p
<1> QED
  BY <1>7, <1>8, <1>9, <1>10, <1>11, <1>12, GoesKeeps, TypedIsAfter DEF UploadInv

LEMMA BindKeeps ==
    ASSUME UploadInv, NEW u \in Uploads, U!Bind(u)
    PROVE  UploadInv'
<1>1. Typed /\ up[u] \in Requests /\ up[u].pc = "binding" /\ owner' = Nothing
  BY TypedIs DEF UploadInv, Typed, U!Bind
<1>2. UNCHANGED <<file, session, tasks, creating, expiry, drain, toDelete, guard>>
  BY DEF U!Bind, U!rest
<1> DEFINE p == up[u].reuse
<1>3. /\ p \in Uploads /\ owner = u /\ up[p].content = up[u].content /\ up[p].pc = "done"
      /\ up[u].learn => up[u].key # Nothing /\ keys[up[u].key] = Nothing
      /\ ~up[u].learn /\ up[u].key # Nothing /\ session[p].live => keys[up[u].key] = p
  BY <1>1 DEF UploadInv, LockInv, Locking, AnswerInv, Requests, Paths
<1>4. PICK a \in {p, Nothing} :
        /\ up' = [up EXCEPT ![u] = U!Dropping(up[u], a)]
        /\ \/ keys' = keys /\ (a = Nothing \/ ~up[u].learn)
           \/ keys' = [k \in Keys |-> IF k = up[u].key THEN p ELSE keys[k]] /\ a = p /\ up[u].learn
  <2>1. [k \in Keys |-> keys[k]] = keys
    BY <1>1 DEF Typed
  <2>2. CASE up[u].learn /\ ~session[p].live
    BY <1>1, <2>2 DEF U!Bind, Typed
  <2>3. CASE ~(up[u].learn /\ ~session[p].live)
    <3>1. /\ up' = [up EXCEPT ![u] = U!Dropping(up[u], p)]
          /\ keys' = [k \in Keys |-> IF up[u].learn /\ k = up[u].key THEN p ELSE keys[k]]
      BY <1>1, <2>3 DEF U!Bind, Typed
    <3>2. CASE up[u].learn
      <4>1. keys' = [k \in Keys |-> IF k = up[u].key THEN p ELSE keys[k]]
        BY <3>1, <3>2
      <4> QED
        BY <3>1, <3>2, <4>1
    <3>3. CASE ~up[u].learn
      <4>1. keys' = keys
        BY <2>1, <3>1, <3>3
      <4> QED
        BY <3>1, <3>3, <4>1
    <3> QED
      BY <3>2, <3>3
  <2> QED
    BY <2>2, <2>3
<1> DEFINE r == U!Dropping(up[u], a)
<1>5. /\ r \in Requests /\ r.pc = "dropping" /\ r.content = up[u].content /\ r.key = up[u].key
      /\ r.reuse = Nothing /\ r.answer = a /\ r.learn = FALSE
  BY <1>1, <1>3 DEF Requests, Paths, U!Dropping
<1> HIDE DEF r, p
<1>6. Goes(u, r)
  BY <1>1, <1>3, <1>4, <1>5, Fresh DEF Goes, Becomes, r
<1>7. keys' \in [Keys -> Paths]
  BY <1>1, <1>3, <1>4 DEF Typed, Paths
<1>8. Typed'
  BY <1>1, <1>2, <1>6, <1>7, GoesKeeps DEF Typed, Paths
<1>9. BytesInv' /\ OneCopy' /\ GuardInv'
  BY <1>2, <1>6, GoesKeeps DEF UploadInv, BytesInv, OneCopy, GuardInv
<1>10. KnownInv'
  <2>1. \A k \in Keys : keys'[k] # Nothing => up[keys'[k]].pc = "done" /\ keys'[k] \in Uploads
    BY <1>1, <1>3, <1>4 DEF UploadInv, KnownInv, Typed, Paths
  <2> QED
    BY <1>1, <1>2, <1>6, <2>1, GoesKeeps DEF UploadInv, KnownInv, Typed, Paths
<1>11. LockInv'
  BY <1>3, <1>5, <1>6, GoesKeeps DEF UploadInv, LockInv, Locking
<1>12. KeyInv'
  <2> SUFFICES ASSUME NEW v \in Uploads, up'[v].answer # Nothing, up'[v].key # Nothing,
                      session'[up'[v].answer].live
               PROVE  keys'[up'[v].key] = up'[v].answer
    BY DEF KeyInv
  <2>1. up'[v].key \in Keys
    BY <1>6, GoesKeeps DEF Requests
  <2>2. CASE v = u
    BY <1>2, <1>3, <1>4, <1>5, <1>6, <2>1, <2>2, GoesKeeps
  <2>3. CASE v # u
    <3>1. up'[v] = up[v] /\ keys[up[v].key] = up[v].answer /\ up[v].answer # Nothing
      BY <1>2, <1>6, <2>3, GoesKeeps DEF UploadInv, KeyInv
    <3> QED
      BY <1>3, <1>4, <2>1, <3>1
  <2> QED
    BY <2>2, <2>3
<1> QED
  BY <1>6, <1>8, <1>9, <1>10, <1>11, <1>12, GoesKeeps, TypedIsAfter DEF UploadInv

LEMMA UnlinkKeeps ==
    ASSUME UploadInv, NEW u \in Uploads, U!Unlink(u)
    PROVE  UploadInv'
<1>1. Typed /\ up[u] \in Requests /\ up[u].pc = "dropping" /\ file' = [file EXCEPT ![u] = Nothing]
  BY TypedIs DEF UploadInv, Typed, U!Unlink
<1>2. UNCHANGED <<session, keys, owner, tasks, creating, expiry, drain, toDelete, guard>>
  BY DEF U!Unlink, U!rest
<1> DEFINE r == [up[u] EXCEPT !.pc = "done"]
<1>3. /\ r \in Requests /\ r.pc = "done" /\ r.content = up[u].content /\ r.key = up[u].key
      /\ r.reuse = up[u].reuse /\ r.answer = up[u].answer
  BY <1>1 DEF Requests
<1>4. up' = [up EXCEPT ![u] = r]
  BY <1>1 DEF Typed, U!Unlink
<1> HIDE DEF r
<1>5. Goes(u, r)
  BY <1>1, <1>3, <1>4 DEF Goes, Becomes, UploadInv, AnswerInv
<1>6. Typed'
  BY <1>1, <1>2, <1>5, GoesKeeps DEF Typed, Texts
<1>7. BytesInv' /\ OneCopy' /\ GuardInv'
  BY <1>1, <1>2, <1>5, GoesKeeps DEF UploadInv, BytesInv, OneCopy, GuardInv, Typed
<1>8. KnownInv'
  BY <1>1, <1>2, <1>5, GoesKeeps DEF UploadInv, KnownInv, Typed, Paths
<1>9. LockInv' /\ KeyInv'
  BY <1>2, <1>3, <1>5, GoesKeeps DEF UploadInv, LockInv, Locking, KeyInv
<1> QED
  BY <1>5, <1>6, <1>7, <1>8, <1>9, GoesKeeps, TypedIsAfter DEF UploadInv

LEMMA ApiDiesKeeps ==
    ASSUME UploadInv, NEW u \in Uploads, U!ApiDies(u)
    PROVE  UploadInv'
<1>1. /\ Typed /\ up[u] \in Requests /\ up[u].pc \in {"published", "placing", "binding", "dropping"}
      /\ owner' = IF owner = u THEN Nothing ELSE owner
  BY TypedIs DEF UploadInv, Typed, U!ApiDies
<1>2. UNCHANGED <<file, session, keys, tasks, creating, expiry, drain, toDelete, guard>>
  BY DEF U!ApiDies, U!rest
<1> DEFINE r == [up[u] EXCEPT !.pc = "done", !.reuse = Nothing, !.learn = FALSE]
<1>3. /\ r \in Requests /\ r.pc = "done" /\ r.content = up[u].content /\ r.key = up[u].key
      /\ r.reuse = Nothing /\ r.answer = up[u].answer
  BY <1>1 DEF Requests, Paths
<1>4. up' = [up EXCEPT ![u] = r]
  BY <1>1 DEF Typed, U!ApiDies
<1> HIDE DEF r
<1>5. Goes(u, r)
  BY <1>1, <1>3, <1>4, Fresh DEF Goes, Becomes, UploadInv, AnswerInv
<1>6. Typed'
  BY <1>1, <1>2, <1>5, GoesKeeps DEF Typed, Paths
<1>7. BytesInv' /\ OneCopy' /\ GuardInv'
  BY <1>2, <1>5, GoesKeeps DEF UploadInv, BytesInv, OneCopy, GuardInv
<1>8. KnownInv'
  BY <1>1, <1>2, <1>5, GoesKeeps DEF UploadInv, KnownInv, Typed, Paths
<1>9. LockInv' /\ KeyInv'
  BY <1>1, <1>2, <1>3, <1>5, GoesKeeps DEF UploadInv, LockInv, Locking, KeyInv
<1> QED
  BY <1>5, <1>6, <1>7, <1>8, <1>9, GoesKeeps, TypedIsAfter DEF UploadInv

-----------------------------------------------------------------------------
(* Sessions, tasks and the passes that delete.                              *)

\* The parts that speak of no pass and no task.
Parts == ContentInv /\ BytesInv /\ AnswerInv /\ LockInv /\ KeyInv /\ OneCopy

LEMMA SessionSteps ==
    ASSUME UploadInv, NEW p \in Uploads, U!Persist(p) \/ U!GrowsOld(p)
    PROVE  UploadInv'
<1>1. Typed /\ session[p] \in Rows
  BY TypedIs DEF UploadInv, Typed
<1>2. UNCHANGED <<up, owner, file, keys, tasks, creating, expiry, drain, toDelete, guard>>
  BY DEF U!Persist, U!GrowsOld, U!requests, U!rest
<1>3. PICK s \in Rows : session' = [session EXCEPT ![p] = s] /\ s.live = session[p].live /\ s.digest = session[p].digest
  <2>1. CASE U!Persist(p)
    <3> DEFINE s == [session[p] EXCEPT !.ref = TRUE]
    <3>1. s \in Rows /\ s.live = session[p].live /\ s.digest = session[p].digest
      BY <1>1 DEF Rows
    <3>2. session' = [session EXCEPT ![p] = s]
      BY <1>1, <2>1 DEF U!Persist, Typed
    <3> QED
      BY <3>1, <3>2
  <2>2. CASE U!GrowsOld(p)
    <3> DEFINE s == [session[p] EXCEPT !.old = TRUE]
    <3>1. s \in Rows /\ s.live = session[p].live /\ s.digest = session[p].digest
      BY <1>1 DEF Rows
    <3>2. session' = [session EXCEPT ![p] = s]
      BY <1>1, <2>2 DEF U!GrowsOld, Typed
    <3> QED
      BY <3>1, <3>2
  <2> QED
    BY <2>1, <2>2
<1>4. /\ session' \in [Uploads -> Rows]
      /\ \A q \in Uploads : session'[q].live = session[q].live /\ session'[q].digest = session[q].digest
  BY <1>1, <1>3 DEF Typed
<1>5. Typed'
  BY <1>1, <1>2, <1>4 DEF Typed
<1>6. ContentInv' /\ AnswerInv' /\ GuardInv'
  BY <1>2 DEF UploadInv, ContentInv, AnswerInv, GuardInv
<1>7. BytesInv' /\ KnownInv' /\ OneCopy'
  BY <1>2, <1>4 DEF UploadInv, BytesInv, KnownInv, OneCopy
<1>8. LockInv' /\ KeyInv'
  BY <1>1, <1>2, <1>4 DEF UploadInv, LockInv, Locking, KeyInv, Typed, Requests, Paths
<1> QED
  BY <1>5, <1>6, <1>7, <1>8, TypedIsAfter DEF UploadInv

LEMMA TaskSteps ==
    ASSUME UploadInv, (\E p \in Uploads : U!Validate(p) \/ U!DeleteTask(p)) \/ U!CreateTask
    PROVE  UploadInv'
<1>1. Typed
  BY TypedIs DEF UploadInv
<1>2. UNCHANGED <<up, owner, file, session, keys, expiry, drain, guard>>
  BY DEF U!Validate, U!DeleteTask, U!CreateTask, U!requests
<1>3. Parts'
  BY <1>2 DEF UploadInv, Parts, ContentInv, BytesInv, AnswerInv, LockInv, Locking, KeyInv, OneCopy
<1>4. ASSUME NEW p \in Uploads, U!Validate(p) PROVE UploadInv'
  <2>1. up[p].pc = "done" /\ creating' = p /\ UNCHANGED <<tasks, toDelete>>
    BY <1>4 DEF U!Validate, UploadInv, AnswerInv
  <2>2. Typed' /\ KnownInv' /\ GuardInv'
    BY <1>1, <1>2, <2>1 DEF UploadInv, Typed, Paths, KnownInv, GuardInv
  <2> QED
    BY <1>3, <2>2, TypedIsAfter DEF UploadInv, Parts
<1>5. ASSUME NEW p \in Uploads, U!DeleteTask(p) PROVE UploadInv'
  <2>1. Typed' /\ KnownInv' /\ GuardInv'
    BY <1>1, <1>2, <1>5 DEF U!DeleteTask, UploadInv, Typed, KnownInv, GuardInv
  <2> QED
    BY <1>3, <2>1, TypedIsAfter DEF UploadInv, Parts
<1>6. CASE U!CreateTask
  <2>1. creating \in Uploads /\ creating' = Nothing /\ toDelete' = toDelete
    BY <1>1, <1>6 DEF U!CreateTask, Typed, Paths
  <2>2. tasks' = tasks \/ (guard[creating] = Nothing /\ tasks' = tasks \cup {creating})
    BY <1>6 DEF U!CreateTask
  <2>3. Typed' /\ KnownInv'
    BY <1>1, <1>2, <2>1, <2>2, Fresh DEF UploadInv, Typed, Paths, KnownInv
  <2>4. GuardInv'
    BY <1>2, <2>1, <2>2, Fresh DEF UploadInv, GuardInv
  <2> QED
    BY <1>3, <2>3, <2>4, TypedIsAfter DEF UploadInv, Parts
<1> QED
  BY <1>4, <1>5, <1>6

\* A pass takes a file away.
Removes(p) == file' = file \/ file' = [file EXCEPT ![p] = Nothing]

LEMMA RemovesKeeps ==
    ASSUME UploadInv, Typed, NEW p \in Uploads, Removes(p), UNCHANGED <<up, owner, session, keys>>
    PROVE  Parts' /\ file' \in [Uploads -> Texts]
<1>1. file' \in [Uploads -> Texts] /\ \A q \in Uploads : file'[q] \in {file[q], Nothing}
  BY DEF Removes, Typed, Texts
<1>2. BytesInv'
  BY <1>1 DEF UploadInv, BytesInv
<1> QED
  BY <1>1, <1>2 DEF UploadInv, Parts, ContentInv, AnswerInv, LockInv, Locking, KeyInv, OneCopy

LEMMA DrainSteps ==
    ASSUME UploadInv, (\E p \in Uploads : U!DrainTake(p) \/ U!SweepOrphan(p)) \/ U!DrainDelete \/ U!DrainFails
    PROVE  UploadInv'
<1>1. Typed
  BY TypedIs DEF UploadInv
<1>2. UNCHANGED <<up, owner, session, keys, tasks, creating, expiry>>
  BY DEF U!DrainTake, U!SweepOrphan, U!DrainDelete, U!DrainFails, U!requests
<1>3. KnownInv'
  BY <1>2 DEF UploadInv, KnownInv
<1>4. ASSUME NEW p \in Uploads, U!SweepOrphan(p) PROVE UploadInv'
  <2>1. UNCHANGED <<file, drain, guard>> /\ toDelete' = toDelete \cup {p}
    BY <1>4 DEF U!SweepOrphan
  <2>2. Parts'
    BY <1>1, <1>2, <2>1, RemovesKeeps DEF Removes
  <2>3. Typed' /\ GuardInv'
    BY <1>1, <1>2, <2>1 DEF UploadInv, Typed, GuardInv
  <2> QED
    BY <1>3, <2>2, <2>3, TypedIsAfter DEF UploadInv, Parts
<1>5. ASSUME NEW p \in Uploads, U!DrainTake(p) PROVE UploadInv'
  <2>1. /\ file' = file /\ guard[p] = Nothing
        /\ \/ toDelete' = toDelete \ {p} /\ UNCHANGED <<drain, guard>>
           \/ p \notin tasks /\ drain' = p /\ guard' = [guard EXCEPT ![p] = "drain"] /\ toDelete' = toDelete
    BY <1>5 DEF U!DrainTake, U!Referenced
  <2>2. Parts'
    BY <1>1, <1>2, <2>1, RemovesKeeps DEF Removes
  <2>3. Typed'
    BY <1>1, <1>2, <2>1 DEF Typed, Paths
  <2>4. GuardInv'
    BY <1>1, <1>2, <2>1, Fresh DEF UploadInv, GuardInv, Typed, Paths
  <2> QED
    BY <1>3, <2>2, <2>3, <2>4, TypedIsAfter DEF UploadInv, Parts
<1>6. CASE U!DrainDelete \/ U!DrainFails
  <2>1. /\ drain \in Uploads /\ drain' = Nothing /\ guard' = [guard EXCEPT ![drain] = Nothing]
        /\ Removes(drain) /\ toDelete' \in {toDelete, toDelete \ {drain}}
    BY <1>1, <1>6 DEF U!DrainDelete, U!DrainFails, Removes, Typed, Paths
  <2>2. Parts' /\ file' \in [Uploads -> Texts]
    BY <1>1, <1>2, <2>1, RemovesKeeps
  <2>3. Typed'
    BY <1>1, <1>2, <2>1, <2>2 DEF Typed, Paths
  <2>4. GuardInv'
    BY <1>1, <1>2, <2>1, Fresh DEF UploadInv, GuardInv, Typed, Paths
  <2> QED
    BY <1>3, <2>2, <2>3, <2>4, TypedIsAfter DEF UploadInv, Parts
<1> QED
  BY <1>4, <1>5, <1>6

LEMMA ExpirySteps ==
    ASSUME UploadInv, (\E p \in Uploads : U!ExpirySelect(p) \/ U!ExpiryGuard(p)) \/ U!ExpiryUnlink \/ U!ExpiryStops
    PROVE  UploadInv'
<1>1. Typed
  BY TypedIs DEF UploadInv
<1>2. UNCHANGED <<up, owner, session, keys, tasks, creating, drain, toDelete>>
  BY DEF U!ExpirySelect, U!ExpiryGuard, U!ExpiryUnlink, U!ExpiryStops, U!requests
<1>3. KnownInv'
  BY <1>2 DEF UploadInv, KnownInv
<1>4. U!Resting \in [pc : {"idle"}, at : {Nothing}] /\ U!Resting.pc = "idle" /\ U!Resting.at = Nothing
  BY DEF U!Resting
<1>5. ASSUME NEW p \in Uploads, U!ExpirySelect(p) PROVE UploadInv'
  <2>1. UNCHANGED <<file, guard>> /\ expiry' = [pc |-> "selected", at |-> p]
    BY <1>5 DEF U!ExpirySelect
  <2>2. Parts'
    BY <1>1, <1>2, <2>1, RemovesKeeps DEF Removes
  <2>3. Typed' /\ GuardInv'
    BY <1>1, <1>2, <2>1, Fresh DEF UploadInv, Typed, Paths, GuardInv
  <2> QED
    BY <1>3, <2>2, <2>3, TypedIsAfter DEF UploadInv, Parts
<1>6. ASSUME NEW p \in Uploads, U!ExpiryGuard(p) PROVE UploadInv'
  <2>1. file' = file /\ expiry = [pc |-> "selected", at |-> p] /\ guard[p] = Nothing
    BY <1>6 DEF U!ExpiryGuard
  <2>2. Parts'
    BY <1>1, <1>2, <2>1, RemovesKeeps DEF Removes
  <2>3. CASE expiry' = U!Resting /\ guard' = guard
    <3>1. Typed' /\ GuardInv'
      BY <1>1, <1>2, <1>4, <2>1, <2>3 DEF UploadInv, Typed, Paths, GuardInv
    <3> QED
      BY <1>3, <2>2, <3>1, TypedIsAfter DEF UploadInv, Parts
  <2>4. CASE p \notin tasks /\ expiry' = [expiry EXCEPT !.pc = "guarded"] /\ guard' = [guard EXCEPT ![p] = "expiry"]
    <3>1. expiry' = [pc |-> "guarded", at |-> p]
      BY <2>1, <2>4
    <3>2. Typed' /\ GuardInv'
      BY <1>1, <1>2, <2>1, <2>4, <3>1, Fresh DEF UploadInv, Typed, Paths, GuardInv
    <3> QED
      BY <1>3, <2>2, <3>2, TypedIsAfter DEF UploadInv, Parts
  <2> QED
    BY <1>6, <2>3, <2>4 DEF U!ExpiryGuard
<1>7. CASE U!ExpiryUnlink
  <2>1. expiry.pc = "guarded" /\ expiry.at \in Uploads /\ guard' = guard
    BY <1>1, <1>7 DEF U!ExpiryUnlink, UploadInv, GuardInv, Typed, Paths
  <2>2. Parts' /\ file' \in [Uploads -> Texts]
    BY <1>1, <1>2, <1>7, <2>1, RemovesKeeps DEF Removes, U!ExpiryUnlink
  <2>3. /\ expiry' \in [pc : {"idle", "selected", "guarded", "unlinked"}, at : Paths]
        /\ expiry'.pc = "unlinked" /\ expiry'.at = expiry.at
    BY <1>1, <1>7 DEF U!ExpiryUnlink, Typed
  <2>4. Typed' /\ GuardInv'
    BY <1>1, <1>2, <2>1, <2>2, <2>3 DEF UploadInv, Typed, GuardInv
  <2> QED
    BY <1>3, <2>2, <2>4, TypedIsAfter DEF UploadInv, Parts
<1>8. CASE U!ExpiryStops
  <2>1. /\ file' = file /\ expiry' = U!Resting
        /\ guard' = [p \in Uploads |-> IF guard[p] = "expiry" THEN Nothing ELSE guard[p]]
    BY <1>8 DEF U!ExpiryStops
  <2>2. Parts'
    BY <1>2, <2>1 DEF UploadInv, Parts, ContentInv, BytesInv, AnswerInv, LockInv, Locking, KeyInv, OneCopy
  <2>3. Typed' /\ GuardInv'
    BY <1>1, <1>2, <1>4, <2>1 DEF UploadInv, Typed, Paths, GuardInv
  <2> QED
    BY <1>3, <2>2, <2>3, TypedIsAfter DEF UploadInv, Parts
<1> QED
  BY <1>5, <1>6, <1>7, <1>8

LEMMA ExpiryForgetKeeps ==
    ASSUME UploadInv, U!ExpiryForget
    PROVE  UploadInv'
<1>1. Typed
  BY TypedIs DEF UploadInv
<1> DEFINE p == expiry.at
<1>2. p \in Uploads /\ expiry.pc = "unlinked" /\ guard[p] = "expiry"
  BY <1>1 DEF U!ExpiryForget, UploadInv, GuardInv, Typed, Paths
<1>3. /\ UNCHANGED <<up, owner, file, tasks, creating, drain, toDelete>>
      /\ session' = [session EXCEPT ![p] = U!NoSession]
      /\ keys' = [k \in Keys |-> IF keys[k] = p THEN Nothing ELSE keys[k]]
      /\ guard' = [guard EXCEPT ![p] = Nothing]
      /\ expiry' = U!Resting
  BY DEF U!ExpiryForget, U!requests
<1> HIDE DEF p
<1>4. U!Resting \in [pc : {"idle"}, at : {Nothing}] /\ U!Resting.pc = "idle" /\ U!Resting.at = Nothing
  BY DEF U!Resting
<1>5. /\ session' \in [Uploads -> Rows] /\ ~session'[p].live /\ session'[p].digest = Nothing
      /\ \A q \in Uploads \ {p} : session'[q] = session[q]
  BY <1>1, <1>2, <1>3, NoSessionIs DEF Typed
<1>6. Typed'
  BY <1>1, <1>3, <1>4, <1>5 DEF Typed, Paths
<1>7. ContentInv' /\ AnswerInv'
  BY <1>3 DEF UploadInv, ContentInv, AnswerInv
<1>8. BytesInv'
  BY <1>3, <1>5 DEF UploadInv, BytesInv
<1>9. KnownInv'
  BY <1>3, <1>5 DEF UploadInv, KnownInv
<1>10. OneCopy'
  BY <1>5 DEF UploadInv, OneCopy
<1>11. LockInv'
  <2> SUFFICES ASSUME NEW u \in Uploads, Locking(u)
               PROVE  /\ owner = u /\ up[u].reuse # Nothing
                      /\ up[u].learn => up[u].key # Nothing /\ keys'[up[u].key] = Nothing
                      /\ ~up[u].learn /\ up[u].key # Nothing /\ session'[up[u].reuse].live
                         => keys'[up[u].key] = up[u].reuse
    BY <1>3 DEF LockInv, Locking
  <2>1. up[u] \in Requests
    BY <1>1 DEF Typed
  <2> QED
    BY <1>3, <1>5, <2>1 DEF UploadInv, LockInv, Requests, Paths
<1>12. KeyInv'
  <2> SUFFICES ASSUME NEW u \in Uploads, up[u].answer # Nothing, up[u].key # Nothing, session'[up[u].answer].live
               PROVE  keys'[up[u].key] = up[u].answer
    BY <1>3 DEF KeyInv
  <2>1. up[u].answer \in Uploads \ {p} /\ up[u].key \in Keys
    BY <1>1, <1>5 DEF Typed, Requests, Paths
  <2> QED
    BY <1>3, <1>5, <2>1 DEF UploadInv, KeyInv
<1>13. GuardInv'
  BY <1>1, <1>2, <1>3, <1>4 DEF UploadInv, GuardInv, Typed, Paths
<1> QED
  BY <1>6, <1>7, <1>8, <1>9, <1>10, <1>11, <1>12, <1>13, TypedIsAfter DEF UploadInv

LEMMA UploadsKeep ==
    ASSUME UploadInv, U!Next
    PROVE  UploadInv'
BY PublishKeeps, ClaimKeeps, PlaceMissingKeeps, BindKeeps, UnlinkKeeps, ApiDiesKeeps, SessionSteps,
   TaskSteps, DrainSteps, ExpirySteps, ExpiryForgetKeeps DEF U!Next

-----------------------------------------------------------------------------
(* The file of a task's source.                                             *)

\* What a task names keeps its file, or its object in the bucket.
Kept(p) == U!Readable(p) => U!Readable(p)'

LEMMA FilesKept ==
    ASSUME Typed, NEW p \in Uploads, session' = session, file'[p] = file[p]
    PROVE  Kept(p)
BY DEF Kept, U!Readable

LEMMA SourcesKept ==
    ASSUME UploadInv, U!Next, NEW p \in tasks
    PROVE  Kept(p)
<1>1. Typed /\ p \in Uploads /\ up[p].pc = "done"
  BY TypedIs DEF UploadInv, Typed, KnownInv
<1>2. ASSUME NEW u \in Uploads, U!Publish(u) PROVE Kept(p)
  BY <1>1, <1>2, FilesKept DEF U!Publish, Typed
<1>3. ASSUME NEW u \in Uploads, U!Claim(u) PROVE Kept(p)
  <2>1. file' = file /\ u # p
    BY <1>1, <1>3 DEF U!Claim
  <2>2. session'[p] = session[p]
    BY <1>1, <1>3, <2>1 DEF U!Claim, U!Refuse, U!Reuse, Typed
  <2> QED
    BY <2>1, <2>2 DEF Kept, U!Readable
<1>4. ASSUME NEW u \in Uploads, U!PlaceMissing(u) PROVE Kept(p)
  <2>1. session' = session /\ (file[p] # Nothing => file'[p] = file[p])
    BY <1>1, <1>4 DEF U!PlaceMissing, Typed
  <2> QED
    BY <2>1 DEF Kept, U!Readable
<1>5. ASSUME NEW u \in Uploads, U!Unlink(u) PROVE Kept(p)
  BY <1>1, <1>5, FilesKept DEF U!Unlink, Typed
<1>6. ASSUME NEW u \in Uploads, U!Persist(u) \/ U!GrowsOld(u) PROVE Kept(p)
  <2>1. file' = file /\ (session[p].ref => session'[p].ref)
    BY <1>1, <1>6 DEF U!Persist, U!GrowsOld, Typed, Rows
  <2> QED
    BY <2>1 DEF Kept, U!Readable
<1>7. CASE U!DrainDelete
  BY <1>1, <1>7, FilesKept DEF U!DrainDelete, UploadInv, GuardInv, Typed
<1>8. CASE U!ExpiryUnlink
  BY <1>1, <1>8, FilesKept DEF U!ExpiryUnlink, UploadInv, GuardInv, Typed
<1>9. CASE U!ExpiryForget
  <2>1. expiry.at # p /\ file' = file
    BY <1>1, <1>9 DEF U!ExpiryForget, UploadInv, GuardInv
  <2>2. session'[p] = session[p]
    BY <1>1, <1>9, <2>1 DEF U!ExpiryForget, Typed
  <2> QED
    BY <2>1, <2>2 DEF Kept, U!Readable
<1>10. CASE UNCHANGED <<file, session>>
  BY <1>1, <1>10, FilesKept
<1>11. ASSUME NEW u \in Uploads,
              U!Bind(u) \/ U!ApiDies(u) \/ U!Validate(u) \/ U!DeleteTask(u) \/ U!DrainTake(u)
              \/ U!SweepOrphan(u) \/ U!ExpirySelect(u) \/ U!ExpiryGuard(u)
       PROVE  UNCHANGED <<file, session>>
  BY <1>11 DEF U!Bind, U!ApiDies, U!Validate, U!DeleteTask, U!DrainTake, U!SweepOrphan, U!ExpirySelect, U!ExpiryGuard
<1>12. CASE U!CreateTask \/ U!DrainFails \/ U!ExpiryStops
  BY <1>1, <1>12, FilesKept DEF U!CreateTask, U!DrainFails, U!ExpiryStops
<1> QED
  BY <1>2, <1>3, <1>4, <1>5, <1>6, <1>7, <1>8, <1>9, <1>10, <1>11, <1>12 DEF U!Next

-----------------------------------------------------------------------------
(* Sessions of browser uploads.                                             *)

States  == {"none", "reserved", "uploading", "completed", "aborted"}
Entries == [state : States, known : BOOLEAN, expired : BOOLEAN]
Tasks   == SUBSET {"complete", "check", "completed", "abort", "aborted"}
Bucket  == {"none", "open", "object", "gone"}
STyped ==
    /\ upload \in [Sessions -> Entries] /\ provider \in [Sessions -> Bucket]
    /\ parts \in [Sessions -> {"short", "whole", "oversized"}]
    /\ api \in [Sessions -> {"off", "idle", "reserved", "begun", "aborting", "done"}]
    /\ finishing \in [Sessions -> Tasks]
    /\ sweeping \subseteq Sessions /\ leaked \subseteq Sessions

LEMMA STypedIs == M!TypeOK <=> STyped
BY DEF M!TypeOK, STyped, Entries, States, Tasks, Bucket

LEMMA STypedIsAfter == (M!TypeOK)' <=> STyped'
BY DEF M!TypeOK, STyped, Entries, States, Tasks, Bucket

\* A completed row stays.
Stands == \A s \in Sessions : upload[s].state = "completed" => upload'[s].state = "completed"
\* No row but s opens.
Opened(s) == \A t \in Sessions \ {s} : (M!Open(t))' => M!Open(t)
NoneOpens == \A t \in Sessions : (M!Open(t))' => M!Open(t)

LEMMA SameCardinality == \A S : M!Cardinality(S) = Cardinality(S)
BY DEF M!Cardinality, Cardinality

LEMMA SessionsAreFinite ==
    /\ IsFiniteSet(M!ActiveSessions) /\ Cardinality(M!ActiveSessions) \in Nat
    /\ IsFiniteSet(M!ActiveSessions') /\ Cardinality(M!ActiveSessions') \in Nat
    /\ Concurrency \in Nat
<1>1. M!ActiveSessions \subseteq Sessions /\ M!ActiveSessions' \subseteq Sessions
  BY DEF M!ActiveSessions
<1> QED
  BY <1>1, StudioAssumption, FS_Subset, FS_CardinalityType

LEMMA NoneOpensKeeps ==
    ASSUME M!WithinLimit, NoneOpens
    PROVE  (M!WithinLimit)'
<1>1. M!ActiveSessions' \subseteq M!ActiveSessions
  BY DEF NoneOpens, M!ActiveSessions
<1>2. Cardinality(M!ActiveSessions') <= Cardinality(M!ActiveSessions)
  BY <1>1, SessionsAreFinite, FS_Subset
<1> QED
  BY <1>2, SessionsAreFinite, SameCardinality DEF M!WithinLimit

LEMMA ReserveKeepsLimit ==
    ASSUME NEW s \in Sessions, Opened(s), Cardinality(M!ActiveSessions) < Concurrency
    PROVE  (M!WithinLimit)'
<1>1. M!ActiveSessions' \subseteq M!ActiveSessions \cup {s}
  BY DEF Opened, M!ActiveSessions
<1>2. /\ IsFiniteSet(M!ActiveSessions \cup {s})
      /\ Cardinality(M!ActiveSessions \cup {s}) \in {Cardinality(M!ActiveSessions), Cardinality(M!ActiveSessions) + 1}
  BY SessionsAreFinite, FS_AddElement
<1>3. Cardinality(M!ActiveSessions') <= Cardinality(M!ActiveSessions \cup {s})
  BY <1>1, <1>2, FS_Subset
<1> QED
  BY <1>2, <1>3, SessionsAreFinite, SameCardinality DEF M!WithinLimit

\* A step of session s.
Of(s) ==
    \A t \in Sessions \ {s} :
        /\ upload'[t] = upload[t] /\ provider'[t] = provider[t] /\ api'[t] = api[t]
        /\ finishing'[t] = finishing[t] /\ (t \in sweeping' => t \in sweeping)

LEMMA OfKeeps ==
    ASSUME BrowserInv, STyped', NEW s \in Sessions, Of(s), OneSession(s)', (M!Open(s))' => M!Open(s),
           upload[s].state = "completed" => upload'[s].state = "completed"
    PROVE  BrowserInv' /\ Stands
<1>1. SessionInv'
  <2> SUFFICES ASSUME NEW t \in Sessions \ {s} PROVE OneSession(t)'
    BY DEF SessionInv
  <2>1. OneSession(t)
    BY DEF BrowserInv, SessionInv
  <2> QED
    BY <2>1 DEF Of, OneSession, M!Open
<1>2. NoneOpens
  BY DEF NoneOpens, Of, M!Open
<1>3. (M!WithinLimit)'
  BY <1>2, NoneOpensKeeps DEF BrowserInv
<1>4. Stands
  BY DEF Stands, Of
<1> QED
  BY <1>1, <1>3, <1>4, STypedIsAfter DEF BrowserInv

\* r is what row s becomes.
Turns(s, r) == r \in Entries /\ upload' = [upload EXCEPT ![s] = r]

LEMMA TurnsDoes ==
    ASSUME STyped, NEW s \in Sessions, NEW r, Turns(s, r)
    PROVE  upload' \in [Sessions -> Entries] /\ upload'[s] = r /\ \A t \in Sessions \ {s} : upload'[t] = upload[t]
BY DEF Turns, STyped

LEMMA FinishedIs ==
    ASSUME STyped, NEW s \in Sessions, NEW state \in {"completed", "aborted"}
    PROVE  /\ M!Finished(s, state) \in Entries
           /\ M!Finished(s, state).state = IF upload[s].state = "completed" THEN "completed" ELSE state
<1>1. upload[s] \in Entries
  BY DEF STyped
<1> QED
  BY <1>1 DEF M!Finished, M!SetState, Entries, States

LEMMA AbortsIs ==
    ASSUME STyped, NEW s \in Sessions, M!ProviderAborts(s)
    PROVE  /\ provider' \in [Sessions -> Bucket]
           /\ \A t \in Sessions \ {s} : provider'[t] = provider[t]
           /\ provider'[s] = provider[s] \/ (provider[s] = "open" /\ provider'[s] = "gone")
BY DEF STyped, M!ProviderAborts, Bucket

LEMMA ReserveKeeps ==
    ASSUME BrowserInv, NEW s \in Sessions, M!Reserve(s)
    PROVE  BrowserInv' /\ Stands
<1>1. STyped /\ upload[s] \in Entries /\ OneSession(s)
  BY STypedIs DEF BrowserInv, STyped, SessionInv
<1> DEFINE r == [upload[s] EXCEPT !.state = "reserved"]
<1>2. r \in Entries /\ r.state = "reserved"
  BY <1>1 DEF Entries, States
<1>3. Turns(s, r)
  BY <1>1, <1>2 DEF M!Reserve, Turns, STyped
<1> HIDE DEF r
<1>4. STyped' /\ Of(s)
  BY <1>1, <1>3, TurnsDoes DEF M!Reserve, STyped, Of
<1>5. OneSession(s)'
  BY <1>1, <1>2, <1>3, TurnsDoes DEF M!Reserve, STyped, OneSession, M!Open
<1>6. SessionInv'
  <2> SUFFICES ASSUME NEW t \in Sessions \ {s} PROVE OneSession(t)'
    BY <1>5 DEF SessionInv
  <2>1. OneSession(t)
    BY DEF BrowserInv, SessionInv
  <2> QED
    BY <1>4, <2>1 DEF Of, OneSession, M!Open
<1>7. Opened(s)
  BY <1>4 DEF Opened, Of, M!Open
<1>8. (M!WithinLimit)'
  BY <1>7, ReserveKeepsLimit, SameCardinality DEF M!Reserve
<1>9. Stands
  BY <1>1, <1>4 DEF Stands, Of, M!Reserve, OneSession
<1> QED
  BY <1>4, <1>6, <1>8, <1>9, STypedIsAfter DEF BrowserInv

LEMMA BeginKeeps ==
    ASSUME BrowserInv, NEW s \in Sessions, M!Begin(s)
    PROVE  BrowserInv' /\ Stands
<1>1. STyped /\ upload[s] \in Entries /\ OneSession(s) /\ api[s] = "reserved"
  BY STypedIs DEF BrowserInv, STyped, SessionInv, M!Begin
<1>2. CASE provider' = [provider EXCEPT ![s] = "open"] /\ api' = [api EXCEPT ![s] = "begun"] /\ upload' = upload
  <2>1. STyped' /\ Of(s) /\ OneSession(s)' /\ ((M!Open(s))' => M!Open(s))
    BY <1>1, <1>2 DEF M!Begin, STyped, Of, OneSession, M!Open, Bucket
  <2> QED
    BY <1>2, <2>1, OfKeeps
<1>3. CASE /\ provider' = provider \/ provider' = [provider EXCEPT ![s] = "open"]
           /\ api' = [api EXCEPT ![s] = "done"] /\ M!Update(s, M!Finished(s, "aborted"))
  <2> DEFINE r == M!Finished(s, "aborted")
  <2>1. Turns(s, r) /\ r.state = IF upload[s].state = "completed" THEN "completed" ELSE "aborted"
    BY <1>1, <1>3, FinishedIs DEF Turns, M!Update
  <2> HIDE DEF r
  <2>2. STyped' /\ Of(s)
    BY <1>1, <1>3, <2>1, TurnsDoes DEF M!Begin, STyped, Of, Bucket
  <2>3. OneSession(s)' /\ ((M!Open(s))' => M!Open(s)) /\ (upload[s].state = "completed" => upload'[s].state = "completed")
    BY <1>1, <1>3, <2>1, TurnsDoes DEF M!Begin, M!Update, STyped, OneSession, M!Open
  <2> QED
    BY <2>2, <2>3, OfKeeps
<1> QED
  BY <1>2, <1>3 DEF M!Begin

\* bind_upload, on a row that is reserved or not.
Bound(s) == IF upload[s].state = "reserved" THEN [upload[s] EXCEPT !.state = "uploading", !.known = TRUE] ELSE upload[s]

LEMMA BoundIs ==
    ASSUME STyped, NEW s \in Sessions, M!Update(s, Bound(s))
    PROVE  /\ Turns(s, Bound(s)) /\ s \notin sweeping
           /\ Bound(s).state = IF upload[s].state = "reserved" THEN "uploading" ELSE upload[s].state
<1>1. upload[s] \in Entries
  BY DEF STyped
<1>2. /\ Bound(s) \in Entries
      /\ Bound(s).state = IF upload[s].state = "reserved" THEN "uploading" ELSE upload[s].state
  BY <1>1 DEF Bound, Entries, States
<1> QED
  BY <1>2 DEF M!Update, Turns

LEMMA BindSessionKeeps ==
    ASSUME BrowserInv, NEW s \in Sessions, M!Bind(s) \/ M!BeginFails(s)
    PROVE  BrowserInv' /\ Stands
<1>1. /\ STyped /\ upload[s] \in Entries /\ OneSession(s) /\ api[s] = "begun"
      /\ api' = [api EXCEPT ![s] = "done"] /\ UNCHANGED <<parts, finishing, sweeping>>
      /\ leaked' \in {leaked, leaked \cup {s}}
  BY STypedIs DEF BrowserInv, STyped, SessionInv, M!Bind, M!BeginFails
<1>2. CASE provider' = provider /\ M!Update(s, Bound(s))
  <2> DEFINE r == Bound(s)
  <2>1. Turns(s, r) /\ s \notin sweeping /\ r.state = IF upload[s].state = "reserved" THEN "uploading" ELSE upload[s].state
    BY <1>1, <1>2, BoundIs
  <2> HIDE DEF r
  <2>2. STyped' /\ Of(s)
    BY <1>1, <1>2, <2>1, TurnsDoes DEF STyped, Of
  <2>3. OneSession(s)' /\ ((M!Open(s))' => M!Open(s)) /\ (upload[s].state = "completed" => upload'[s].state = "completed")
    BY <1>1, <1>2, <2>1, TurnsDoes DEF STyped, OneSession, M!Open
  <2> QED
    BY <2>2, <2>3, OfKeeps
<1>3. CASE M!ProviderAborts(s) /\ M!Update(s, M!Finished(s, "aborted"))
  <2> DEFINE r == M!Finished(s, "aborted")
  <2>1. Turns(s, r) /\ s \notin sweeping /\ r.state = IF upload[s].state = "completed" THEN "completed" ELSE "aborted"
    BY <1>1, <1>3, FinishedIs DEF Turns, M!Update
  <2> HIDE DEF r
  <2>2. STyped' /\ Of(s)
    BY <1>1, <1>3, <2>1, TurnsDoes, AbortsIs DEF STyped, Of
  <2>3. OneSession(s)' /\ ((M!Open(s))' => M!Open(s)) /\ (upload[s].state = "completed" => upload'[s].state = "completed")
    BY <1>1, <1>3, <2>1, TurnsDoes, AbortsIs DEF STyped, OneSession, M!Open
  <2> QED
    BY <2>2, <2>3, OfKeeps
<1> QED
  BY <1>2, <1>3 DEF M!Bind, M!BeginFails, Bound

\* Requests that write no row.
LEMMA RequestSteps ==
    ASSUME BrowserInv, NEW s \in Sessions,
           \/ M!ApiDies(s) \/ M!PutParts(s) \/ M!StartComplete(s) \/ M!CheckParts(s) \/ M!Complete(s)
           \/ M!StartAbort(s) \/ M!Abort(s) \/ M!RequestStops(s) \/ M!SweepLock(s) \/ M!SweepFails(s)
    PROVE  BrowserInv' /\ Stands
<1>1. STyped /\ OneSession(s)
  BY STypedIs DEF BrowserInv, SessionInv
<1>2. UNCHANGED upload /\ ((M!Open(s))' => M!Open(s))
  BY DEF M!ApiDies, M!PutParts, M!StartComplete, M!CheckParts, M!Complete, M!StartAbort, M!Abort,
         M!RequestStops, M!SweepLock, M!SweepFails, M!Open
<1>3. CASE M!ApiDies(s) \/ M!PutParts(s)
  <2>1. STyped' /\ Of(s) /\ OneSession(s)'
    BY <1>1, <1>2, <1>3 DEF M!ApiDies, M!PutParts, STyped, Of, OneSession, M!Open
  <2> QED
    BY <1>2, <2>1, OfKeeps
<1>4. CASE M!StartComplete(s) \/ M!StartAbort(s)
  <2>1. STyped' /\ Of(s) /\ OneSession(s)'
    BY <1>1, <1>2, <1>4 DEF M!StartComplete, M!StartAbort, M!Enter, STyped, Of, OneSession, M!Open, Tasks
  <2> QED
    BY <1>2, <2>1, OfKeeps
<1>5. CASE M!CheckParts(s)
  <2>1. provider' = provider \/ M!ProviderAborts(s)
    BY <1>5 DEF M!CheckParts
  <2>2. /\ finishing' \in [Sessions -> Tasks] /\ (\A t \in Sessions \ {s} : finishing'[t] = finishing[t])
        /\ finishing[s] # {}
        /\ "completed" \in finishing'[s] => "completed" \in finishing[s]
    BY <1>1, <1>5 DEF M!CheckParts, M!Move, STyped, Tasks
  <2>3. STyped' /\ Of(s) /\ OneSession(s)'
    BY <1>1, <1>2, <1>5, <2>1, <2>2, AbortsIs DEF M!CheckParts, STyped, Of, OneSession, M!Open
  <2> QED
    BY <1>2, <2>3, OfKeeps
<1>6. CASE M!Complete(s)
  <2>1. /\ provider' \in [Sessions -> Bucket] /\ (\A t \in Sessions \ {s} : provider'[t] = provider[t])
        /\ provider[s] = "object" => provider'[s] = "object"
        /\ provider[s] = "none" => provider'[s] = "none"
    BY <1>1, <1>6 DEF M!Complete, STyped, Bucket
  <2>2. /\ finishing' \in [Sessions -> Tasks] /\ (\A t \in Sessions \ {s} : finishing'[t] = finishing[t])
        /\ finishing[s] # {}
        /\ "completed" \in finishing'[s] => "completed" \in finishing[s] \/ provider'[s] = "object"
    BY <1>1, <1>6 DEF M!Complete, M!Move, STyped, Tasks
  <2>3. STyped' /\ Of(s) /\ OneSession(s)'
    BY <1>1, <1>2, <1>6, <2>1, <2>2 DEF M!Complete, STyped, Of, OneSession, M!Open
  <2> QED
    BY <1>2, <2>3, OfKeeps
<1>7. CASE M!Abort(s)
  <2>1. /\ finishing' \in [Sessions -> Tasks] /\ (\A t \in Sessions \ {s} : finishing'[t] = finishing[t])
        /\ finishing[s] # {}
        /\ "completed" \in finishing'[s] => "completed" \in finishing[s]
    BY <1>1, <1>7 DEF M!Abort, M!Move, STyped, Tasks
  <2>2. STyped' /\ Of(s) /\ OneSession(s)'
    BY <1>1, <1>2, <1>7, <2>1, AbortsIs DEF M!Abort, STyped, Of, OneSession, M!Open
  <2> QED
    BY <1>2, <2>2, OfKeeps
<1>8. CASE M!RequestStops(s) \/ M!SweepLock(s) \/ M!SweepFails(s)
  <2>1. STyped' /\ Of(s) /\ OneSession(s)'
    BY <1>1, <1>2, <1>8 DEF M!RequestStops, M!SweepLock, M!SweepFails, STyped, Of, OneSession, M!Open, Tasks
  <2> QED
    BY <1>2, <2>1, OfKeeps
<1> QED
  BY <1>3, <1>4, <1>5, <1>6, <1>7, <1>8

LEMMA FinishKeeps ==
    ASSUME BrowserInv, NEW s \in Sessions, M!FinishComplete(s) \/ M!FinishAbort(s)
    PROVE  BrowserInv' /\ Stands
<1>1. STyped /\ OneSession(s) /\ UNCHANGED <<provider, parts, api, sweeping, leaked>>
  BY STypedIs DEF BrowserInv, SessionInv, M!FinishComplete, M!FinishAbort
<1>2. PICK state \in {"completed", "aborted"} :
         /\ M!Move(s, state, {}) /\ M!Update(s, M!Finished(s, state))
  BY DEF M!FinishComplete, M!FinishAbort
<1> DEFINE r == M!Finished(s, state)
<1>3. Turns(s, r) /\ s \notin sweeping /\ r.state = IF upload[s].state = "completed" THEN "completed" ELSE state
  BY <1>1, <1>2, FinishedIs DEF Turns, M!Update
<1>4. /\ finishing' \in [Sessions -> Tasks] /\ (\A t \in Sessions \ {s} : finishing'[t] = finishing[t])
      /\ finishing'[s] \subseteq finishing[s] /\ state \in finishing[s]
  BY <1>1, <1>2 DEF M!Move, STyped, Tasks
<1>5. api[s] \notin {"off", "idle"}
  BY <1>1, <1>4 DEF OneSession
<1> HIDE DEF r
<1>6. STyped' /\ Of(s)
  BY <1>1, <1>3, <1>4, TurnsDoes DEF STyped, Of
<1>7. OneSession(s)' /\ ((M!Open(s))' => M!Open(s)) /\ (upload[s].state = "completed" => upload'[s].state = "completed")
  BY <1>1, <1>3, <1>4, <1>5, TurnsDoes DEF STyped, OneSession, M!Open
<1> QED
  BY <1>6, <1>7, OfKeeps

LEMMA PassSteps ==
    ASSUME BrowserInv, NEW s \in Sessions, M!Expires(s) \/ M!SweepAbort(s)
    PROVE  BrowserInv' /\ Stands
<1>1. STyped /\ upload[s] \in Entries /\ OneSession(s)
  BY STypedIs DEF BrowserInv, STyped, SessionInv
<1>2. CASE M!Expires(s)
  <2> DEFINE r == [upload[s] EXCEPT !.expired = TRUE]
  <2>1. r \in Entries /\ r.state = upload[s].state /\ r.known = upload[s].known
    BY <1>1 DEF Entries
  <2>2. Turns(s, r)
    BY <1>1, <1>2, <2>1 DEF M!Expires, Turns, STyped
  <2> HIDE DEF r
  <2>3. STyped' /\ Of(s)
    BY <1>1, <1>2, <2>2, TurnsDoes DEF M!Expires, STyped, Of
  <2>4. OneSession(s)' /\ ((M!Open(s))' => M!Open(s)) /\ (upload[s].state = "completed" => upload'[s].state = "completed")
    BY <1>1, <1>2, <2>1, <2>2, TurnsDoes DEF M!Expires, STyped, OneSession, M!Open
  <2> QED
    BY <2>3, <2>4, OfKeeps
<1>3. CASE M!SweepAbort(s)
  <2> DEFINE r == [upload[s] EXCEPT !.state = "aborted"]
  <2>1. r \in Entries /\ r.state = "aborted" /\ r.known = upload[s].known
    BY <1>1 DEF Entries, States
  <2>2. Turns(s, r) /\ M!Open(s)
    BY <1>1, <1>3, <2>1 DEF M!SweepAbort, Turns, STyped, OneSession
  <2>3. provider' = provider \/ M!ProviderAborts(s)
    BY <1>3 DEF M!SweepAbort
  <2> HIDE DEF r
  <2>4. STyped' /\ Of(s)
    BY <1>1, <1>3, <2>2, <2>3, TurnsDoes, AbortsIs DEF M!SweepAbort, STyped, Of
  <2>5. OneSession(s)' /\ ((M!Open(s))' => M!Open(s)) /\ (upload[s].state = "completed" => upload'[s].state = "completed")
    BY <1>1, <1>3, <2>1, <2>2, <2>3, TurnsDoes, AbortsIs DEF M!SweepAbort, STyped, OneSession, M!Open
  <2> QED
    BY <2>4, <2>5, OfKeeps
<1> QED
  BY <1>2, <1>3

LEMMA SessionsKeep ==
    ASSUME BrowserInv, M!Next
    PROVE  BrowserInv' /\ Stands
BY ReserveKeeps, BeginKeeps, BindSessionKeeps, RequestSteps, FinishKeeps, PassSteps DEF M!Next

-----------------------------------------------------------------------------
(* The theorems.                                                            *)

LEMMA StartHolds ==
    ASSUME NEW step \in {"off", "idle"}, U!StartIn(step)
    PROVE  UploadInv
<1> DEFINE r == [U!NoRequest EXCEPT !.pc = step]
<1>1. /\ r \in Requests /\ r.pc = step /\ r.content = Nothing /\ r.key = Nothing
      /\ r.reuse = Nothing /\ r.answer = Nothing
  BY DEF U!NoRequest, Requests, Texts, Paths
<1>2. U!Resting \in [pc : {"idle"}, at : {Nothing}] /\ U!Resting.pc = "idle"
  BY DEF U!Resting
<1>3. up = [u \in Uploads |-> r]
  BY DEF U!StartIn
<1> HIDE DEF r
<1>4. Typed
  BY <1>1, <1>2, <1>3, NoSessionIs DEF U!StartIn, Typed, Texts, Paths
<1>5. ContentInv /\ BytesInv /\ AnswerInv /\ OneCopy
  BY <1>1, <1>3, NoSessionIs, Fresh DEF U!StartIn, ContentInv, BytesInv, AnswerInv, OneCopy
<1>6. KnownInv /\ LockInv /\ KeyInv /\ GuardInv
  BY <1>1, <1>2, <1>3, NoSessionIs, Fresh DEF U!StartIn, KnownInv, LockInv, Locking, KeyInv, GuardInv
<1> QED
  BY <1>4, <1>5, <1>6, TypedIs DEF UploadInv

LEMMA SessionsStartHolds ==
    ASSUME NEW step \in {"off", "idle"}, M!StartIn(step)
    PROVE  BrowserInv
<1>1. STyped
  BY DEF M!StartIn, STyped, Entries, States, Tasks, Bucket
<1>2. SessionInv
  BY DEF M!StartIn, SessionInv, OneSession, M!Open
<1>3. M!ActiveSessions = {}
  BY DEF M!StartIn, M!ActiveSessions, M!Open
<1>4. M!WithinLimit
  BY <1>3, SameCardinality, FS_EmptySet, StudioAssumption DEF M!WithinLimit
<1> QED
  BY <1>1, <1>2, <1>4, STypedIs DEF BrowserInv

LEMMA UploadsStartHold == Init => UploadInv /\ BrowserInv
BY StartHolds, SessionsStartHolds DEF Init, U!Init, U!Idle, M!Init, M!Idle

LEMMA StutterKeeps ==
    ASSUME UploadInv, UNCHANGED uploads
    PROVE  UploadInv'
<1>1. UNCHANGED <<up, file, session, keys, owner, guard, tasks, creating, expiry, drain, toDelete>>
  BY DEF uploads
<1>2. (U!TypeOK)' /\ KnownInv' /\ GuardInv'
  BY <1>1 DEF UploadInv, U!TypeOK, KnownInv, GuardInv
<1>3. ContentInv' /\ BytesInv' /\ AnswerInv' /\ LockInv' /\ KeyInv' /\ OneCopy'
  BY <1>1 DEF UploadInv, ContentInv, BytesInv, AnswerInv, LockInv, Locking, KeyInv, OneCopy
<1> QED
  BY <1>2, <1>3 DEF UploadInv

LEMMA SessionsStutterKeeps ==
    ASSUME BrowserInv, UNCHANGED browserUploads
    PROVE  BrowserInv' /\ Stands
BY DEF BrowserInv, M!TypeOK, SessionInv, OneSession, M!Open, M!WithinLimit, M!ActiveSessions, Stands, browserUploads

LEMMA StepKeeps ==
    ASSUME UploadInv, BrowserInv, [Next]_<<part, exports, uploads, browserUploads, replicas, progress>>
    PROVE  UploadInv' /\ BrowserInv' /\ Stands
BY UploadsKeep, SessionsKeep, StutterKeeps, SessionsStutterKeeps DEF Next

\* What a path holds is fixed when it is published, the holder of the lock decides what a
\* key stands for, and a session completes once (upload_ingest.py, upload_repository.py).
THEOREM UploadsInductive == Spec => [](UploadInv /\ BrowserInv)
BY UploadsStartHold, StepKeeps, PTL DEF Spec

LEMMA Idempotent == UploadInv /\ BrowserInv => UploadsAreIdempotent
<1> SUFFICES ASSUME UploadInv, BrowserInv PROVE UploadsAreIdempotent
  OBVIOUS
<1>1. Typed
  BY TypedIs DEF UploadInv
<1>2. ASSUME NEW u \in Uploads, up[u].answer # Nothing
      PROVE  /\ up[u].answer \in Uploads /\ up[up[u].answer].content = up[u].content
             /\ file[up[u].answer] \in {up[u].content, Nothing}
             /\ session[up[u].answer].digest \in {up[u].content, Nothing}
  <2>1. up[u].answer \in Uploads
    BY <1>1, <1>2 DEF Typed, Requests, Paths
  <2>2. up[up[u].answer].content = up[u].content
    BY <2>1 DEF UploadInv, AnswerInv
  <2> QED
    BY <2>1, <2>2 DEF UploadInv, BytesInv
<1>3. ASSUME NEW u \in Uploads, NEW v \in Uploads, up[u].key = up[v].key, up[u].key # Nothing,
             up[u].answer # Nothing, up[v].answer # Nothing,
             session[up[u].answer].live, session[up[v].answer].live
      PROVE  up[u].content = up[v].content
  <2>1. up[u].answer = up[v].answer
    BY <1>3 DEF UploadInv, KeyInv
  <2> QED
    BY <1>2, <1>3, <2>1
<1>4. U!UploadsAreIdempotent
  BY <1>2, <1>3 DEF U!UploadsAreIdempotent, UploadInv, OneCopy
<1> QED
  BY <1>4 DEF UploadsAreIdempotent, BrowserInv

\* A repeated upload is answered with the path of its bytes, a key stands for one
\* content, equal bytes have one live session, and the user's limit on open browser
\* uploads holds however their requests race.
THEOREM UploadsAreIdempotentCorrect == Spec => []UploadsAreIdempotent
BY UploadsInductive, Idempotent, PTL

\* No expiry, no deletion and no interrupted request takes the file of a task's source.
THEOREM SourceKeptCorrect == Spec => SourceKept
<1>1. UploadInv /\ [Next]_<<part, exports, uploads, browserUploads, replicas, progress>>
      => [\A p \in tasks \cap tasks' : U!Readable(p) => U!Readable(p)']_(U!uvars)
  <2> SUFFICES ASSUME UploadInv, [Next]_<<part, exports, uploads, browserUploads, replicas, progress>>
               PROVE  (\A p \in tasks \cap tasks' : U!Readable(p) => U!Readable(p)') \/ UNCHANGED U!uvars
    OBVIOUS
  <2>1. CASE U!Next
    BY <2>1, SourcesKept DEF Kept
  <2>2. CASE UNCHANGED uploads
    BY <2>2 DEF uploads, U!uvars
  <2> QED
    BY <2>1, <2>2 DEF Next
<1> QED
  BY <1>1, UploadsInductive, PTL DEF Spec, SourceKept, U!SourceKept

\* Completions, aborts and the expiry of one session in any order: a completed row
\* stays completed, and a row says so only when the object is in the bucket.
THEOREM CompletionStandsCorrect == Spec => CompletionStands
<1>1. UploadInv /\ BrowserInv /\ [Next]_<<part, exports, uploads, browserUploads, replicas, progress>>
      => [\A s \in Sessions : /\ upload[s].state = "completed" => upload'[s].state = "completed"
                              /\ upload'[s].state = "completed" => provider'[s] = "object"]_(M!mvars)
  <2> SUFFICES ASSUME UploadInv, BrowserInv, [Next]_<<part, exports, uploads, browserUploads, replicas, progress>>,
                      NEW s \in Sessions
               PROVE  /\ upload[s].state = "completed" => upload'[s].state = "completed"
                      /\ upload'[s].state = "completed" => provider'[s] = "object"
    OBVIOUS
  <2> QED
    BY StepKeeps DEF Stands, BrowserInv, SessionInv, OneSession
<1> QED
  BY <1>1, UploadsInductive, PTL DEF Spec, CompletionStands, M!CompletionStands

-----------------------------------------------------------------------------
(* The page of a task: what it was told of the clips is there.              *)

Clips == SUBSET (1..MaxClips)
PageStatuses == {"processing", "completed", "error", "cancelled", "deleted"}
Events == {[kind |-> "end"]} \cup [kind : {"clip"}, clip : 1..MaxClips]
Fetches == [at : {"idle", "asked", "task"}, status : PageStatuses, current : BOOLEAN]
PageTyped ==
    /\ task \in [status : PageStatuses, clips : Clips]
    /\ working \in {"render", "clip", "end"}
    /\ stream \in [at : {"closed", "read", "open", "done"}, queue : Seq(Events)]
    /\ page \in [status : PageStatuses, clips : Clips, source : BOOLEAN]
    /\ fetches \in [P!Slots -> Fetches]
\* A clip that was published or shown was committed, and "completed" is never taken back.
PageInv ==
    /\ PageTyped
    /\ \A i \in 1..Len(stream.queue) : stream.queue[i].kind = "clip" => stream.queue[i].clip \in task.clips
    /\ page.clips \subseteq task.clips
    /\ page.status = "completed" => task.status = "completed" /\ page.clips = task.clips
    /\ \A f \in P!Slots : fetches[f].at = "task" /\ fetches[f].status = "completed" => task.status = "completed"

Queued(q, cs) == q \in Seq(Events) /\ \A i \in 1..Len(q) : q[i].kind = "clip" => q[i].clip \in cs
Known(fs, s) == fs \in [P!Slots -> Fetches] /\ \A f \in P!Slots : fs[f].at = "task" /\ fs[f].status = "completed" => s = "completed"

LEMMA PageInvIs ==
    PageInv <=> /\ task \in [status : PageStatuses, clips : Clips] /\ working \in {"render", "clip", "end"}
                /\ stream \in [at : {"closed", "read", "open", "done"}, queue : Seq(Events)]
                /\ page \in [status : PageStatuses, clips : Clips, source : BOOLEAN]
                /\ Queued(stream.queue, task.clips) /\ Known(fetches, task.status) /\ page.clips \subseteq task.clips
                /\ (page.status = "completed" => task.status = "completed" /\ page.clips = task.clips)
BY DEF PageInv, PageTyped, Queued, Known

LEMMA PageInvIsAfter ==
    PageInv' <=> /\ task' \in [status : PageStatuses, clips : Clips] /\ working' \in {"render", "clip", "end"}
                 /\ stream' \in [at : {"closed", "read", "open", "done"}, queue : Seq(Events)]
                 /\ page' \in [status : PageStatuses, clips : Clips, source : BOOLEAN]
                 /\ Queued(stream'.queue, task'.clips) /\ Known(fetches', task'.status) /\ page'.clips \subseteq task'.clips
                 /\ (page'.status = "completed" => task'.status = "completed" /\ page'.clips = task'.clips)
BY DEF PageInv, PageTyped, Queued, Known

\* The task gains clips while it is processing, or takes another status; the page and its requests wait.
LEMMA RowSteps ==
    ASSUME PageInv, P!CommitClip \/ P!Finish \/ P!Cancel \/ P!Retry
    PROVE  PageInv' /\ page.clips \subseteq page'.clips
<1>1. /\ working' \in {"render", "clip", "end"} /\ UNCHANGED <<stream, page, fetches>> /\ task.status # "completed"
      /\ task' \in [status : PageStatuses, clips : Clips] /\ task.clips \subseteq task'.clips
  BY DEF PageInv, PageTyped, Clips, PageStatuses, P!CommitClip, P!Finish, P!Cancel, P!Retry
<1>2. Queued(stream'.queue, task'.clips) /\ Known(fetches', task'.status)
  BY <1>1, PageInvIs DEF Queued, Known
<1> QED
  BY <1>1, <1>2, PageInvIs, PageInvIsAfter

LEMMA QueuedMore ==
    ASSUME NEW q, NEW cs \in Clips, Queued(q, cs), NEW event \in Events, event.kind = "clip" => event.clip \in cs
    PROVE  Queued(Append(q, event), cs)
BY DEF Queued

LEMMA QueuedLess ==
    ASSUME NEW q, NEW cs \in Clips, Queued(q, cs), q # <<>>
    PROVE  Queued(Tail(q), cs) /\ (Head(q).kind = "clip" => Head(q).clip \in cs)
BY DEF Queued

LEMMA QueuedNone ==
    ASSUME NEW cs
    PROVE  Queued(<<>>, cs) /\ Queued(<<[kind |-> "end"]>>, cs)
BY DEF Queued, Events

\* The stream takes what is published, or is opened and closed.
LEMMA StreamSteps ==
    ASSUME PageInv, P!PublishClip \/ P!PublishEnd \/ P!Connect \/ P!Subscribe
    PROVE  PageInv' /\ page.clips \subseteq page'.clips
<1>1. UNCHANGED <<task, page, fetches>> /\ working' \in {working, "render"}
  BY DEF P!PublishClip, P!PublishEnd, P!Connect, P!Subscribe
<1>2. /\ stream \in [at : {"closed", "read", "open", "done"}, queue : Seq(Events)] /\ Queued(stream.queue, task.clips)
      /\ task.clips \in Clips /\ stream.queue \in Seq(Events)
  BY PageInvIs
<1>3. ASSUME NEW event \in Events, event.kind = "clip" => event.clip \in task.clips, P!Publish(event)
      PROVE  stream' \in [at : {"closed", "read", "open", "done"}, queue : Seq(Events)] /\ Queued(stream'.queue, task.clips)
  <2>1. Queued(Append(stream.queue, event), task.clips)
    BY <1>2, <1>3, QueuedMore
  <2> QED
    BY <1>2, <1>3, <2>1 DEF P!Publish, Queued
<1>4. stream' \in [at : {"closed", "read", "open", "done"}, queue : Seq(Events)] /\ Queued(stream'.queue, task.clips)
  <2>1. CASE P!PublishClip
    <3>1. PICK c \in task.clips : P!Publish([kind |-> "clip", clip |-> c])
      BY <2>1 DEF P!PublishClip
    <3>2. [kind |-> "clip", clip |-> c] \in Events
      BY <1>2 DEF Events, Clips
    <3> QED
      BY <1>3, <3>1, <3>2
  <2>2. CASE P!PublishEnd
    BY <1>3, <2>2 DEF P!PublishEnd, Events
  <2>3. CASE P!Connect
    BY <2>3, QueuedNone DEF P!Connect, Queued
  <2>4. CASE P!Subscribe
    BY <1>2, <2>4 DEF P!Subscribe
  <2> QED
    BY <2>1, <2>2, <2>3, <2>4
<1> QED
  BY <1>1, <1>4, PageInvIs, PageInvIsAfter

LEMMA IdleIs == P!Idle \in Fetches /\ P!Idle.at = "idle" /\ P!Slots # {}
BY DEF P!Idle, Fetches, PageStatuses, P!Slots

LEMMA ReconcileKeeps ==
    ASSUME NEW s \in PageStatuses, Known(fetches, s), P!Reconcile
    PROVE  Known(fetches', s)
<1>1. CASE fetches' = fetches
  BY <1>1
<1>2. CASE fetches' # fetches
  <2>1. PICK f \in P!Slots : fetches' = [fetches EXCEPT ![f] = [P!Idle EXCEPT !.at = "asked", !.current = TRUE]]
    BY <1>2 DEF P!Reconcile
  <2>2. [P!Idle EXCEPT !.at = "asked", !.current = TRUE] \in Fetches /\ [P!Idle EXCEPT !.at = "asked", !.current = TRUE].at = "asked"
    BY IdleIs DEF Fetches
  <2> QED
    BY <2>1, <2>2 DEF Known
<1> QED
  BY <1>1, <1>2

LEMMA PageSteps ==
    ASSUME PageInv, P!ShowClip \/ P!CloseStream \/ P!Disconnect \/ P!Poll \/ P!WorkerDies
    PROVE  PageInv' /\ page.clips \subseteq page'.clips
<1>1. /\ task \in [status : PageStatuses, clips : Clips] /\ task.status \in PageStatuses /\ task.clips \in Clips
      /\ stream \in [at : {"closed", "read", "open", "done"}, queue : Seq(Events)]
      /\ page \in [status : PageStatuses, clips : Clips, source : BOOLEAN]
      /\ Queued(stream.queue, task.clips) /\ Known(fetches, task.status) /\ page.clips \subseteq task.clips
      /\ (page.status = "completed" => task.status = "completed" /\ page.clips = task.clips)
      /\ working \in {"render", "clip", "end"}
  BY PageInvIs
<1>2. task' = task /\ working' \in {working, "render"}
  BY DEF P!ShowClip, P!CloseStream, P!Disconnect, P!Poll, P!WorkerDies
<1>3. Known(fetches', task.status)
  BY <1>1, ReconcileKeeps DEF P!ShowClip, P!CloseStream, P!Disconnect, P!Poll, P!WorkerDies
<1>4. stream' \in [at : {"closed", "read", "open", "done"}, queue : Seq(Events)] /\ Queued(stream'.queue, task.clips)
  <2>1. CASE P!ShowClip
    <3>1. stream' = [stream EXCEPT !.queue = Tail(stream.queue)] /\ stream.queue # <<>>
      BY <2>1 DEF P!ShowClip
    <3>2. Queued(Tail(stream.queue), task.clips)
      BY <1>1, <3>1, QueuedLess
    <3> QED
      BY <1>1, <3>1, <3>2 DEF Queued
  <2>2. CASE stream' = P!Closed
    BY <2>2, QueuedNone DEF P!Closed, Queued
  <2>3. CASE stream' = stream
    BY <1>1, <2>3
  <2> QED
    BY <2>1, <2>2, <2>3 DEF P!CloseStream, P!Disconnect, P!Poll, P!WorkerDies
<1>5. /\ page' \in [status : PageStatuses, clips : Clips, source : BOOLEAN] /\ page'.clips \subseteq task.clips
      /\ page.clips \subseteq page'.clips /\ (page'.status = "completed" => task.status = "completed" /\ page'.clips = task.clips)
  <2>1. CASE P!ShowClip
    <3>1. /\ page' = [page EXCEPT !.clips = page.clips \cup {Head(stream.queue).clip}] /\ stream.queue # <<>>
          /\ Head(stream.queue).kind = "clip" /\ page.status # "completed"
      BY <2>1 DEF P!ShowClip, P!Active, P!Ended
    <3>2. Head(stream.queue).clip \in task.clips
      BY <1>1, <3>1, QueuedLess
    <3>3. page.clips \cup {Head(stream.queue).clip} \in Clips /\ page.clips \cup {Head(stream.queue).clip} \subseteq task.clips
      BY <1>1, <3>2 DEF Clips
    <3> QED
      BY <1>1, <3>1, <3>3
  <2>2. CASE page' = [page EXCEPT !.source = FALSE]
    BY <1>1, <2>2
  <2>3. CASE page' = page
    BY <1>1, <2>3
  <2> QED
    BY <2>1, <2>2, <2>3 DEF P!CloseStream, P!Disconnect, P!Poll, P!WorkerDies
<1> QED
  BY <1>1, <1>2, <1>3, <1>4, <1>5, PageInvIsAfter

\* An answer says what the task was when it was asked; "completed" still holds when it comes.
LEMMA FetchSteps ==
    ASSUME PageInv, NEW f \in P!Slots, P!FetchTask(f) \/ P!FetchClips(f) \/ P!FetchFails(f)
    PROVE  PageInv' /\ page.clips \subseteq page'.clips
<1>1. /\ task \in [status : PageStatuses, clips : Clips] /\ task.status \in PageStatuses /\ task.clips \in Clips
      /\ stream \in [at : {"closed", "read", "open", "done"}, queue : Seq(Events)]
      /\ page \in [status : PageStatuses, clips : Clips, source : BOOLEAN]
      /\ Queued(stream.queue, task.clips) /\ Known(fetches, task.status) /\ page.clips \subseteq task.clips
      /\ (page.status = "completed" => task.status = "completed" /\ page.clips = task.clips)
      /\ working \in {"render", "clip", "end"}
      /\ fetches \in [P!Slots -> Fetches] /\ fetches[f] \in Fetches
  BY PageInvIs DEF Known
<1>2. UNCHANGED <<task, working>>
  BY DEF P!FetchTask, P!FetchClips, P!FetchFails
<1>3. CASE P!FetchTask(f)
  <2> DEFINE r == [fetches[f] EXCEPT !.at = "task", !.status = task.status]
  <2>1. r \in Fetches /\ r.status = task.status
    BY <1>1 DEF Fetches
  <2>2. fetches' = [fetches EXCEPT ![f] = r] /\ UNCHANGED <<stream, page>>
    BY <1>1, <1>3 DEF P!FetchTask
  <2> HIDE DEF r
  <2>3. Known(fetches', task.status)
    BY <1>1, <2>1, <2>2 DEF Known
  <2> QED
    BY <1>1, <1>2, <2>2, <2>3, PageInvIsAfter
<1>4. CASE P!FetchFails(f)
  <2>1. fetches' = [fetches EXCEPT ![f] = P!Idle] /\ UNCHANGED <<stream, page>>
    BY <1>4 DEF P!FetchFails
  <2>2. Known(fetches', task.status)
    BY <1>1, <2>1, IdleIs DEF Known
  <2> QED
    BY <1>1, <1>2, <2>1, <2>2, PageInvIsAfter
<1>5. CASE P!FetchClips(f)
  <2> DEFINE s == fetches[f].status
             cs == IF s = "completed" THEN task.clips ELSE page.clips \cup task.clips
  <2>1. /\ page' = [status |-> s, source |-> page.source \/ ~P!Active, clips |-> cs]
        /\ stream' \in {stream, P!Closed}
        /\ fetches' = [g \in P!Slots |-> IF g = f THEN P!Idle
                          ELSE [fetches[g] EXCEPT !.current = @ /\ P!Active /\ s \notin P!Ended]]
        /\ s \in PageStatuses /\ (s = "completed" => task.status = "completed")
    BY <1>1, <1>5 DEF P!FetchClips, Known, Fetches
  <2>2. cs = task.clips
    BY <1>1
  <2> HIDE DEF s, cs
  <2>3. P!Active \in BOOLEAN /\ (s \notin P!Ended) \in BOOLEAN
    BY DEF P!Active
  <2>4. Known(fetches', task.status)
    <3>1. \A g \in P!Slots : fetches'[g] \in Fetches /\ fetches'[g].at \in {"idle", fetches[g].at}
                             /\ (fetches'[g].at # "idle" => fetches'[g].status = fetches[g].status)
      <4> SUFFICES ASSUME NEW g \in P!Slots
                   PROVE  fetches'[g] \in Fetches /\ fetches'[g].at \in {"idle", fetches[g].at}
                          /\ (fetches'[g].at # "idle" => fetches'[g].status = fetches[g].status)
        OBVIOUS
      <4> DEFINE held == fetches[g].current /\ P!Active /\ s \notin P!Ended
      <4>1. fetches[g] \in Fetches /\ held \in BOOLEAN
        BY <1>1
      <4>2. fetches'[g] = IF g = f THEN P!Idle ELSE [fetches[g] EXCEPT !.current = held]
        BY <2>1, <4>1 DEF Fetches
      <4> HIDE DEF held
      <4> QED
        BY <4>1, <4>2, IdleIs DEF Fetches
    <3>2. fetches' \in [P!Slots -> Fetches]
      BY <2>1, <3>1
    <3> QED
      BY <1>1, <3>1, <3>2 DEF Known
  <2>5. stream' \in [at : {"closed", "read", "open", "done"}, queue : Seq(Events)] /\ Queued(stream'.queue, task.clips)
    <3>1. CASE stream' = stream
      BY <1>1, <3>1
    <3>2. CASE stream' = [at |-> "closed", queue |-> <<>>]
      BY <3>2, QueuedNone DEF Queued
    <3> QED
      BY <2>1, <3>1, <3>2 DEF P!Closed
  <2>6. (page.source \/ ~P!Active) \in BOOLEAN
    BY <1>1, <2>3
  <2> QED
    BY <1>1, <1>2, <2>1, <2>2, <2>4, <2>5, <2>6, PageInvIsAfter
<1> QED
  BY <1>3, <1>4, <1>5

LEMMA PageStartHolds == Init => PageInv
<1> SUFFICES ASSUME Init
             PROVE  PageInv
  OBVIOUS
<1>1. P!StartIn("processing") \/ P!StartIn("deleted")
  BY DEF Init, P!Init, P!Gone
<1>2. PICK s \in {"processing", "deleted"} : P!StartIn(s)
  BY <1>1
<1>3. {} \in Clips /\ s \in PageStatuses
  BY DEF Clips, PageStatuses
<1> QED
  BY <1>2, <1>3, IdleIs, QueuedNone, PageInvIs DEF P!StartIn, P!Closed, Queued, Known

LEMMA PageStepKeeps ==
    ASSUME PageInv, [Next]_<<part, exports, uploads, browserUploads, replicas, progress>>
    PROVE  PageInv' /\ page.clips \subseteq page'.clips
<1>1. CASE P!Next
  BY <1>1, RowSteps, StreamSteps, PageSteps, FetchSteps DEF P!Next
<1>2. CASE UNCHANGED progress
  <2>1. UNCHANGED <<task, working, stream, page, fetches, trouble>>
    BY <1>2 DEF progress
  <2> QED
    BY <2>1, PageInvIs, PageInvIsAfter
<1> QED
  BY <1>1, <1>2 DEF Next

\* What the page was told of a clip was committed, and an answer that says "completed" is
\* true whenever it comes (use-task-progress.ts, routes/tasks.py).
THEOREM PageInductive == Spec => []PageInv
BY PageStartHolds, PageStepKeeps, PTL DEF Spec

\* A page that shows the task as completed shows all its clips, and no clip it showed goes
\* away, whatever order events and answers arrive in, for any number of clips and retries.
THEOREM PageShowsClipsCorrect == Spec => PageShowsClips
<1>1. PageInv => (page.status = "completed" => page.clips = task.clips)
  BY DEF PageInv
<1>2. PageInv /\ [Next]_<<part, exports, uploads, browserUploads, replicas, progress>> 
        => [page.clips \subseteq page.clips']_P!pvars
  BY PageStepKeeps
<1> QED
  BY <1>1, <1>2, PageInductive, PTL DEF Spec, PageShowsClips, P!PageShowsClips

-----------------------------------------------------------------------------
(* The object behind the two stores keeps to its types: each thread knows   *)
(* its operation and its revision by the time it writes.                    *)

ObjectTyped ==
    /\ browser \in BOOLEAN /\ assembly \in [state : {"none", "open", "done", "gone"}, at : R!Stores]
    /\ stores \in [R!Stores -> 0..MaxRevisions] /\ answering \in [R!Stores -> BOOLEAN]
    /\ manifest \in R!Manifests /\ payloads \subseteq 1..MaxRevisions /\ lock \in R!Procs \cup {Nobody}
    /\ crashes \in 0..MaxCrashes /\ written \in 0..MaxRevisions
    /\ latest \in [rev : 0..MaxRevisions, told : BOOLEAN] /\ unmirrored \in BOOLEAN
Knows(step, c) ==
    /\ step = "locking" => c.op # "none"
    /\ step \in {"upload", "sync", "mirror"} => c.op = step
    /\ step = "save" => c.op \in {"upload", "sync", "mirror"}
    /\ step = "upload" => c.rev # 0
ThreadsTyped ==
    /\ pc \in [R!Procs -> R!Steps] /\ call \in [R!Procs -> R!Calls]
    /\ \A p \in R!Procs : Knows(pc[p], call[p])
ObjectInv == ObjectTyped /\ ThreadsTyped

LEMMA RevisionsAre ==
    /\ MaxRevisions \in Nat /\ MaxCrashes \in Nat /\ 0 \in 0..MaxRevisions /\ 1 \in 0..MaxRevisions
    /\ Primary \in R!Stores /\ Fallback \in R!Stores
BY StudioAssumption DEF R!Stores

\* A thread goes on to a step with what it knows there; the others stay where they are.
LEMMA GoesOn ==
    ASSUME ThreadsTyped, NEW p \in R!Procs, NEW step \in R!Steps, NEW c \in R!Calls, Knows(step, c),
           pc' = [pc EXCEPT ![p] = step], call' = [call EXCEPT ![p] = c]
    PROVE  ThreadsTyped'
<1>1. pc' \in [R!Procs -> R!Steps] /\ call' \in [R!Procs -> R!Calls]
  BY DEF ThreadsTyped
<1>2. \A q \in R!Procs : Knows(pc'[q], call'[q])
  BY DEF ThreadsTyped
<1> QED
  BY <1>1, <1>2 DEF ThreadsTyped

LEMMA Returns ==
    ASSUME ObjectInv, NEW p \in R!Procs, R!Return(p)
    PROVE  ThreadsTyped' /\ lock' \in R!Procs \cup {Nobody}
<1>1. R!Idle \in R!Calls /\ "idle" \in R!Steps /\ Knows("idle", R!Idle)
  BY RevisionsAre DEF R!Idle, R!Calls, R!Steps, Knows
<1>2. pc' = [pc EXCEPT ![p] = "idle"] /\ call' = [call EXCEPT ![p] = R!Idle]
  BY DEF R!Return, R!Goto
<1>3. lock' \in R!Procs \cup {Nobody}
  BY DEF R!Return, ObjectInv, ObjectTyped
<1> QED
  BY <1>1, <1>2, <1>3, GoesOn DEF ObjectInv

LEMMA ThreadIs ==
    ASSUME ObjectInv, NEW p \in R!Procs
    PROVE  pc[p] \in R!Steps /\ call[p] \in R!Calls /\ Knows(pc[p], call[p])
BY DEF ObjectInv, ThreadsTyped

LEMMA CopyTypes ==
    ASSUME ObjectInv, NEW p \in R!Procs, NEW rev \in 1..MaxRevisions, R!CopyPayload(p, rev),
           call[p].op \in {"upload", "sync", "mirror"}
    PROVE  ObjectInv'
<1> DEFINE c == [call[p] EXCEPT !.rev = rev]
<1>1. c \in R!Calls /\ c.op = call[p].op
  BY ThreadIs, RevisionsAre DEF R!Calls
<1>2. call' = [call EXCEPT ![p] = c] /\ pc' = [pc EXCEPT ![p] = "save"]
  BY DEF R!CopyPayload, R!Goto
<1> HIDE DEF c
<1>3. Knows("save", c) /\ "save" \in R!Steps
  BY <1>1 DEF Knows, R!Steps
<1>4. ThreadsTyped'
  BY <1>1, <1>2, <1>3, GoesOn DEF ObjectInv
<1>5. ObjectTyped'
  BY DEF ObjectInv, ObjectTyped, R!CopyPayload
<1> QED
  BY <1>4, <1>5 DEF ObjectInv

LEMMA ReplaceTypes ==
    ASSUME ObjectInv, NEW p \in R!Procs, NEW m \in R!Manifests, R!Replace(p, m), latest' \in [rev : 0..MaxRevisions, told : BOOLEAN]
    PROVE  ObjectInv'
<1> DEFINE c == [call[p] EXCEPT !.todo = m.pending]
<1>1. c \in R!Calls
  BY ThreadIs DEF R!Calls, R!Manifests
<1>2. call' = [call EXCEPT ![p] = c] /\ pc' = [pc EXCEPT ![p] = "apply"]
  BY DEF R!Replace, R!Goto
<1> HIDE DEF c
<1>3. Knows("apply", c) /\ "apply" \in R!Steps
  BY DEF Knows, R!Steps
<1>4. ThreadsTyped'
  BY <1>1, <1>2, <1>3, GoesOn DEF ObjectInv
<1>5. ObjectTyped'
  BY DEF ObjectInv, ObjectTyped, R!Replace
<1> QED
  BY <1>4, <1>5 DEF ObjectInv

LEMMA StartTypes ==
    ASSUME ObjectInv, NEW p \in R!Procs, NEW kind \in {"upload", "delete", "complete", "mirror", "sync"}, R!Start(p, kind)
    PROVE  ObjectInv'
<1> DEFINE c == [call[p] EXCEPT !.op = kind]
<1>1. c \in R!Calls /\ c.op = kind
  BY ThreadIs DEF R!Calls
<1>2. call' = [call EXCEPT ![p] = c] /\ pc' = [pc EXCEPT ![p] = "locking"]
  BY DEF R!Start, R!Goto
<1> HIDE DEF c
<1>3. Knows("locking", c) /\ "locking" \in R!Steps
  BY <1>1 DEF Knows, R!Steps
<1>4. ThreadsTyped'
  BY <1>1, <1>2, <1>3, GoesOn DEF ObjectInv
<1>5. ObjectTyped'
  BY DEF ObjectInv, ObjectTyped, R!Start, R!disk
<1> QED
  BY <1>4, <1>5 DEF ObjectInv

LEMMA AcquireTypes == ASSUME ObjectInv, NEW p \in R!Procs, R!Acquire(p) PROVE ObjectInv'
<1> DEFINE rev == IF call[p].op = "upload" THEN written + 1 ELSE 0
           c == [call[p] EXCEPT !.rev = rev]
<1>1. /\ call[p] \in R!Calls /\ call[p].op # "none" /\ written \in 0..MaxRevisions
      /\ (call[p].op = "upload" => written < MaxRevisions)
  BY ThreadIs DEF R!Acquire, Knows, ObjectInv, ObjectTyped
<1>2. rev \in 0..MaxRevisions /\ (call[p].op = "upload" => rev # 0)
  BY <1>1, RevisionsAre
<1>3. call' = [call EXCEPT ![p] = c] /\ pc' = [pc EXCEPT ![p] = call[p].op]
  BY DEF R!Acquire, R!Goto
<1>4. (IF call[p].op = "upload" THEN written + 1 ELSE written) \in 0..MaxRevisions
  BY <1>1, RevisionsAre
<1> HIDE DEF rev
<1>5. c \in R!Calls /\ c.op = call[p].op /\ c.rev = rev
  BY <1>1, <1>2 DEF R!Calls
<1> HIDE DEF c
<1>6. Knows(call[p].op, c) /\ call[p].op \in R!Steps
  BY <1>1, <1>2, <1>5 DEF Knows, R!Steps, R!Calls
<1>7. ThreadsTyped'
  BY <1>3, <1>5, <1>6, GoesOn DEF ObjectInv
<1>8. ObjectTyped'
  BY <1>4 DEF ObjectInv, ObjectTyped, R!Acquire, R!disk
<1> QED
  BY <1>7, <1>8 DEF ObjectInv

LEMMA ReturningTypes ==
    ASSUME ObjectInv, NEW p \in R!Procs, R!SkipLocked(p) \/ R!GiveUp(p) \/ R!Crash(p)
    PROVE  ObjectInv'
<1>1. ThreadsTyped' /\ lock' \in R!Procs \cup {Nobody}
  BY Returns DEF R!SkipLocked, R!GiveUp, R!Crash
<1>2. crashes' \in 0..MaxCrashes
  BY RevisionsAre DEF R!SkipLocked, R!GiveUp, R!Crash, ObjectInv, ObjectTyped
<1>3. ObjectTyped'
  BY <1>1, <1>2 DEF ObjectInv, ObjectTyped, R!SkipLocked, R!GiveUp, R!Crash, R!disk
<1> QED
  BY <1>1, <1>3 DEF ObjectInv

LEMMA StagingTypes ==
    ASSUME ObjectInv, NEW p \in R!Procs, R!Stage(p) \/ R!MirrorExisting(p) \/ R!SyncPending(p)
    PROVE  ObjectInv'
<1>1. /\ call[p] \in R!Calls /\ Knows(pc[p], call[p]) /\ stores \in [R!Stores -> 0..MaxRevisions] /\ manifest \in R!Manifests
  BY ThreadIs DEF ObjectInv, ObjectTyped
<1>2. ASSUME R!Return(p), UNCHANGED <<browser, assembly, stores, answering, R!disk, crashes, written, latest, unmirrored>>
      PROVE  ObjectInv'
  BY <1>2, Returns DEF ObjectInv, ObjectTyped, R!disk
<1>3. CASE R!Stage(p)
  <2>1. call[p].op = "upload" /\ call[p].rev \in 1..MaxRevisions
    BY <1>1, <1>3, RevisionsAre DEF R!Stage, Knows, R!Calls
  <2> QED
    BY <1>3, <2>1, CopyTypes DEF R!Stage
<1>4. CASE R!MirrorExisting(p)
  <2>1. call[p].op = "mirror" /\ stores[Primary] \in 0..MaxRevisions
    BY <1>1, <1>4, RevisionsAre DEF R!MirrorExisting, Knows
  <2>2. CASE R!CopyPayload(p, stores[Primary]) /\ stores[Primary] # 0
    BY <2>1, <2>2, RevisionsAre, CopyTypes
  <2> QED
    BY <1>2, <1>4, <2>2 DEF R!MirrorExisting
<1>5. CASE R!SyncPending(p)
  <2>1. call[p].op = "sync" /\ manifest.source \in R!Stores /\ manifest.pending \in SUBSET R!Stores
    BY <1>1, <1>5 DEF R!SyncPending, Knows, R!Manifests
  <2>2. CASE R!CopyPayload(p, stores[manifest.source]) /\ stores[manifest.source] # 0
    <3>1. stores[manifest.source] \in 1..MaxRevisions
      BY <1>1, <2>1, <2>2, RevisionsAre
    <3> QED
      BY <2>1, <2>2, <3>1, CopyTypes
  <2>3. CASE /\ R!Goto(p, "apply") /\ call' = [call EXCEPT ![p].todo = manifest.pending]
             /\ UNCHANGED <<browser, assembly, stores, answering, R!disk, lock, crashes, written, latest, unmirrored>>
    <3> DEFINE c == [call[p] EXCEPT !.todo = manifest.pending]
    <3>1. c \in R!Calls
      BY <1>1, <2>1 DEF R!Calls
    <3>2. call' = [call EXCEPT ![p] = c] /\ pc' = [pc EXCEPT ![p] = "apply"]
      BY <2>3 DEF R!Goto
    <3> HIDE DEF c
    <3>3. Knows("apply", c) /\ "apply" \in R!Steps
      BY DEF Knows, R!Steps
    <3>4. ThreadsTyped'
      BY <3>1, <3>2, <3>3, GoesOn DEF ObjectInv
    <3> QED
      BY <2>3, <3>4 DEF ObjectInv, ObjectTyped, R!disk
  <2> QED
    BY <1>2, <1>5, <2>2, <2>3 DEF R!SyncPending
<1> QED
  BY <1>3, <1>4, <1>5

LEMMA SavingTypes ==
    ASSUME ObjectInv, NEW p \in R!Procs, R!SaveManifest(p) \/ R!SaveTombstone(p)
    PROVE  ObjectInv'
<1>1. call[p] \in R!Calls /\ Knows(pc[p], call[p]) /\ manifest \in R!Manifests /\ latest \in [rev : 0..MaxRevisions, told : BOOLEAN]
  BY ThreadIs DEF ObjectInv, ObjectTyped
<1>2. CASE R!SaveManifest(p)
  <2> DEFINE pending == CASE call[p].op = "upload" -> R!Stores
                          [] call[p].op = "sync"   -> manifest.pending
                          [] call[p].op = "mirror" -> {Fallback}
             m == [op |-> "upload", rev |-> call[p].rev, pending |-> pending, source |-> Primary]
  <2>1. R!Replace(p, m) /\ latest' = IF call[p].op = "upload" THEN [rev |-> call[p].rev, told |-> FALSE] ELSE latest
    BY <1>2 DEF R!SaveManifest
  <2>2. call[p].op \in {"upload", "sync", "mirror"} /\ call[p].rev \in 0..MaxRevisions
    BY <1>1, <1>2 DEF R!SaveManifest, Knows, R!Calls
  <2>3. pending \in SUBSET R!Stores
    BY <1>1, <2>2, RevisionsAre DEF R!Manifests
  <2> HIDE DEF pending
  <2>4. m \in R!Manifests
    BY <2>2, <2>3, RevisionsAre DEF R!Manifests
  <2>5. latest' \in [rev : 0..MaxRevisions, told : BOOLEAN]
    BY <1>1, <2>1, <2>2
  <2> HIDE DEF m
  <2> QED
    BY <2>1, <2>4, <2>5, ReplaceTypes
<1>3. CASE R!SaveTombstone(p)
  <2> DEFINE m == [op |-> "delete", rev |-> 0, pending |-> R!Stores, source |-> Primary]
  <2>1. R!Replace(p, m) /\ latest' = [rev |-> 0, told |-> FALSE]
    BY <1>3 DEF R!SaveTombstone
  <2>2. m \in R!Manifests /\ latest' \in [rev : 0..MaxRevisions, told : BOOLEAN]
    BY <2>1, RevisionsAre DEF R!Manifests
  <2> HIDE DEF m
  <2> QED
    BY <2>1, <2>2, ReplaceTypes
<1> QED
  BY <1>2, <1>3

LEMMA DeliverTypes == ASSUME ObjectInv, NEW p \in R!Procs, NEW s \in R!Stores, R!Deliver(p, s) PROVE ObjectInv'
<1>1. /\ call[p] \in R!Calls /\ manifest \in R!Manifests /\ stores \in [R!Stores -> 0..MaxRevisions] /\ pc[p] = "apply"
      /\ UNCHANGED <<browser, assembly, answering, payloads, lock, pc, crashes, written, latest, unmirrored>>
  BY ThreadIs DEF ObjectInv, ObjectTyped, R!Deliver
<1>2. manifest.rev \in 0..MaxRevisions /\ [manifest EXCEPT !.pending = @ \ {s}] \in R!Manifests
  BY <1>1 DEF R!Manifests
<1>3. manifest' \in R!Manifests /\ stores' \in [R!Stores -> 0..MaxRevisions]
  BY <1>1, <1>2 DEF R!Deliver
<1>4. \E c \in R!Calls : call' = [call EXCEPT ![p] = c]
  <2> DEFINE c1 == [call[p] EXCEPT !.todo = @ \ {s}, !.stored = TRUE]
             c2 == [call[p] EXCEPT !.todo = @ \ {s}]
  <2>1. c1 \in R!Calls /\ c2 \in R!Calls
    BY <1>1 DEF R!Calls
  <2>2. call' = [call EXCEPT ![p] = c1] \/ call' = [call EXCEPT ![p] = c2]
    BY DEF R!Deliver, ObjectInv, ThreadsTyped
  <2> HIDE DEF c1, c2
  <2> QED
    BY <2>1, <2>2
<1>5. pc' = [pc EXCEPT ![p] = "apply"] /\ "apply" \in R!Steps /\ \A c : Knows("apply", c)
  BY <1>1 DEF ObjectInv, ThreadsTyped, R!Steps, Knows
<1>6. ThreadsTyped'
  BY <1>4, <1>5, GoesOn DEF ObjectInv
<1> QED
  BY <1>1, <1>3, <1>6 DEF ObjectInv, ObjectTyped

LEMMA EndingTypes ==
    ASSUME ObjectInv, NEW p \in R!Procs, R!Finish(p) \/ R!CompleteAgain(p) \/ R!RecordCopy(p)
    PROVE  ObjectInv'
<1>1. ThreadsTyped' /\ lock' \in R!Procs \cup {Nobody}
  BY Returns DEF R!Finish, R!CompleteAgain, R!RecordCopy
<1>2. latest' \in [rev : 0..MaxRevisions, told : BOOLEAN]
  <2>1. latest \in [rev : 0..MaxRevisions, told : BOOLEAN]
    BY DEF ObjectInv, ObjectTyped
  <2>2. \E told \in BOOLEAN : latest' = [latest EXCEPT !.told = told]
    BY <2>1 DEF R!Finish, R!CompleteAgain, R!RecordCopy
  <2> QED
    BY <2>1, <2>2
<1>3. manifest' \in R!Manifests /\ payloads' \subseteq 1..MaxRevisions
  <2>1. R!NoManifest \in R!Manifests
    BY RevisionsAre DEF R!NoManifest, R!Manifests
  <2>2. assembly.at \in R!Stores
    BY DEF ObjectInv, ObjectTyped
  <2>3. [op |-> "copy", rev |-> 1, pending |-> R!Stores \ {assembly.at}, source |-> assembly.at] \in R!Manifests
    BY <2>2, RevisionsAre DEF R!Manifests
  <2> QED
    BY <2>1, <2>3 DEF R!Finish, R!CompleteAgain, R!RecordCopy, R!disk, ObjectInv, ObjectTyped
<1>4. ObjectTyped'
  BY <1>1, <1>2, <1>3 DEF ObjectInv, ObjectTyped, R!Finish, R!CompleteAgain, R!RecordCopy
<1> QED
  BY <1>1, <1>4 DEF ObjectInv

LEMMA BrowserTypes ==
    ASSUME ObjectInv,
           \/ \E p \in R!Procs : R!CompleteMultipart(p)
           \/ R!CreateMultipart \/ R!AbortMultipart \/ \E s \in R!Stores : R!ProviderChanges(s)
    PROVE  ObjectInv'
<1>1. /\ assembly \in [state : {"none", "open", "done", "gone"}, at : R!Stores] /\ answering \in [R!Stores -> BOOLEAN]
      /\ stores \in [R!Stores -> 0..MaxRevisions] /\ \A p \in R!Procs : call[p] \in R!Calls
  BY ThreadIs DEF ObjectInv, ObjectTyped
<1>2. ASSUME NEW p \in R!Procs, R!CompleteMultipart(p) PROVE ObjectInv'
  <2>1. ThreadsTyped' /\ lock' \in R!Procs \cup {Nobody}
    <3>1. CASE R!Return(p)
      BY <3>1, Returns
    <3>2. CASE R!Goto(p, "record") /\ UNCHANGED <<lock, call>>
      <4>1. pc' = [pc EXCEPT ![p] = "record"] /\ call' = [call EXCEPT ![p] = call[p]]
        BY <3>2 DEF R!Goto, ObjectInv, ThreadsTyped
      <4>2. "record" \in R!Steps /\ Knows("record", call[p])
        BY DEF R!Steps, Knows
      <4> QED
        BY <1>1, <3>2, <4>1, <4>2, GoesOn DEF ObjectInv, ObjectTyped
    <3> QED
      BY <1>2, <3>1, <3>2 DEF R!CompleteMultipart
  <2>2. assembly' \in [state : {"none", "open", "done", "gone"}, at : R!Stores] /\ stores' \in [R!Stores -> 0..MaxRevisions]
    BY <1>1, <1>2, RevisionsAre DEF R!CompleteMultipart
  <2>3. latest' \in [rev : 0..MaxRevisions, told : BOOLEAN] /\ written' \in 0..MaxRevisions /\ unmirrored' \in BOOLEAN
    BY <1>2, RevisionsAre DEF R!CompleteMultipart
  <2> QED
    BY <1>2, <2>1, <2>2, <2>3 DEF ObjectInv, ObjectTyped, R!CompleteMultipart, R!disk
<1>3. ASSUME UNCHANGED <<pc, call>> PROVE ThreadsTyped'
  BY <1>3 DEF ObjectInv, ThreadsTyped
<1>4. CASE R!CreateMultipart \/ R!AbortMultipart
  <2>1. assembly' \in [state : {"none", "open", "done", "gone"}, at : R!Stores]
    BY <1>1, <1>4 DEF R!CreateMultipart, R!AbortMultipart
  <2> QED
    BY <1>3, <1>4, <2>1 DEF ObjectInv, ObjectTyped, R!CreateMultipart, R!AbortMultipart, R!disk
<1>5. ASSUME NEW s \in R!Stores, R!ProviderChanges(s) PROVE ObjectInv'
  <2>1. answering' \in [R!Stores -> BOOLEAN]
    BY <1>1, <1>5 DEF R!ProviderChanges
  <2> QED
    BY <1>3, <1>5, <2>1 DEF ObjectInv, ObjectTyped, R!ProviderChanges, R!disk
<1> QED
  BY <1>2, <1>4, <1>5

LEMMA ObjectStepKeeps == ASSUME ObjectInv, R!Next PROVE ObjectInv'
<1>1. Clients \subseteq R!Procs /\ Mirrors \subseteq R!Procs /\ Crons \subseteq R!Procs
  BY DEF R!Procs
<1> QED
  BY <1>1, StartTypes, AcquireTypes, ReturningTypes, StagingTypes, SavingTypes, DeliverTypes, EndingTypes, BrowserTypes
  DEF R!Next, R!Proceed

LEMMA ObjectStays == ASSUME ObjectInv, UNCHANGED replicas PROVE ObjectInv'
BY DEF replicas, ObjectInv, ObjectTyped, ThreadsTyped

LEMMA ObjectStartHolds == Init => ObjectInv
<1> SUFFICES ASSUME R!Init \/ R!Gone PROVE ObjectInv
  BY DEF Init
<1>1. /\ R!NoManifest \in R!Manifests /\ R!Idle \in R!Calls /\ {"idle", "gone"} \subseteq R!Steps
      /\ \A step \in {"idle", "gone"} : Knows(step, R!Idle)
  BY RevisionsAre DEF R!NoManifest, R!Manifests, R!Idle, R!Calls, R!Steps, Knows
<1>2. ThreadsTyped
  BY <1>1 DEF R!Init, R!Gone, ThreadsTyped
<1>3. ObjectTyped
  <2>1. /\ browser \in BOOLEAN /\ assembly = [state |-> "none", at |-> Primary] /\ written \in {0, 1}
        /\ \A s \in R!Stores : stores[s] \in {0, 1}
        /\ stores \in [R!Stores -> 0..MaxRevisions] /\ answering \in [R!Stores -> BOOLEAN]
    BY RevisionsAre DEF R!Init, R!Gone
  <2>2. payloads = {} /\ manifest = R!NoManifest /\ lock = Nobody
    BY DEF R!Init, R!Gone
  <2>3. crashes \in 0..MaxCrashes
    BY RevisionsAre DEF R!Init, R!Gone
  <2>4. \E told \in BOOLEAN : latest = [rev |-> written, told |-> told]
    <3>1. CASE R!Init
      <4>1. (written = 1) \in BOOLEAN /\ latest = [rev |-> written, told |-> written = 1]
        BY <3>1 DEF R!Init
      <4> QED
        BY <4>1
    <3>2. CASE R!Gone
      <4>1. latest = [rev |-> written, told |-> FALSE]
        BY <3>2 DEF R!Gone
      <4> QED
        BY <4>1
    <3> QED
      BY <3>1, <3>2
  <2>5. latest \in [rev : 0..MaxRevisions, told : BOOLEAN]
    <3>1. written \in 0..MaxRevisions
      BY <2>1, RevisionsAre
    <3> QED
      BY <2>4, <3>1
  <2>6. unmirrored \in BOOLEAN
    BY DEF R!Init, R!Gone
  <2> QED
    BY <1>1, <2>1, <2>2, <2>3, <2>5, <2>6, RevisionsAre DEF ObjectTyped
<1> QED
  BY <1>2, <1>3 DEF ObjectInv

\* Rows, files, sessions, the object and the page keep to their domains, and no thread of the
\* stores writes before it has a revision (media_replication.py), in every reachable state.
THEOREM TypesOKCorrect == Spec => []TypesOK
<1>1. ObjectInv /\ [Next]_<<part, exports, uploads, browserUploads, replicas, progress>> => ObjectInv'
  BY ObjectStepKeeps, ObjectStays DEF Next
<1>2. ObjectInv => R!TypeOK
  BY DEF ObjectInv, ObjectTyped, ThreadsTyped, R!TypeOK
<1>3. PageInv => P!TypeOK
  BY DEF PageInv, PageTyped, PageStatuses, Clips, P!TypeOK, P!Ended
<1>4. ExportInv /\ UploadInv /\ BrowserInv /\ PageInv /\ ObjectInv => TypesOK
  BY <1>2, <1>3 DEF ExportInv, UploadInv, BrowserInv, TypesOK
<1> QED
  BY <1>1, <1>4, ObjectStartHolds, ExportsInductive, UploadsInductive, PageInductive, PTL DEF Spec
=============================================================================
