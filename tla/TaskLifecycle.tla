---------------------------- MODULE TaskLifecycle ----------------------------
(***************************************************************************)
(* The life of one video task: the API requests that create, cancel,       *)
(* resume, read, edit and delete it (backend/src/api/routes/tasks.py), the *)
(* ARQ jobs that deliver it to worker processes (backend/src/workers), and *)
(* the run itself (TaskService.process_task).  Every database transaction  *)
(* and every Redis call is one step, so that the handlers interleave where *)
(* the program awaits.                                                     *)
(*                                                                         *)
(* Shared state and where it lives:                                        *)
(*   PostgreSQL   status, aged, jobId, charge, clips, ckpt, stamped        *)
(*   Redis        cancelFlag, jobState, jobTries                           *)
(*   advisory lock "task run guard"   owner                                *)
(* The remaining variables are the locals of the worker coroutines (w...)  *)
(* and request handlers (r...), and three history variables (made, mailed, *)
(* lostRetry) that no action reads.                                        *)
(***************************************************************************)
EXTENDS Naturals, FiniteSets

CONSTANTS
    Workers,    \* worker slots: max_jobs coroutines of every worker process
    Requests,   \* concurrently served API requests on this task
    Plan,       \* number of segments the analysis selects for the task
    MaxJobs,    \* bound: jobs enqueued over the task's life (create + resumes)
    MaxTries,   \* WorkerSettings.max_tries
    Nobody      \* the run guard is free

ASSUME ConstantsAssumption ==
    /\ Plan \in Nat \ {0}
    /\ MaxJobs \in Nat \ {0}
    /\ MaxTries \in Nat \ {0}
    /\ Workers \cap Requests = {}
    /\ Nobody \notin Workers \cup Requests

Positions == 1..Plan
Jobs      == 1..MaxJobs
NoJob     == 0

Active   == {"queued", "processing"}
Failed   == {"error", "cancelled"}
Terminal == Failed \cup {"completed"}
Statuses == Active \cup Terminal \cup {"new", "deleted"}

VARIABLES
    status,     \* tasks.status; "new" before the INSERT, "deleted" after the DELETE
    aged,       \* now - tasks.updated_at exceeds the timeout of this status
    jobId,      \* source_metadata.processing_job_id
    charge,     \* the task's minute_usage_events row: none, active or refunded
    clips,      \* generated_clips rows, by the plan position they came from
    ckpt,       \* task_processing_checkpoints.payload.completed_positions
    stamped,    \* tasks.completion_notification_sent_at is set
    cancelFlag, \* the Redis key task_cancel:<id>
    jobState,   \* ARQ's record of each job: none, queued, running or gone
    jobTries,   \* ARQ's delivery counter of each job
    owner,      \* who holds pg_try_advisory_lock(task)
    wpc, wjob, wdone, wpos, wbad, whas, wfail,
    rpc, rold, rjob,
    made,       \* history: clips ever created for each position
    mailed,     \* history: completion emails sent
    lostRetry   \* history: an API process died inside a retry it had charged

rowVars  == <<status, aged, charge>>
dataVars == <<jobId, clips, ckpt, stamped>>
jobVars  == <<jobState, jobTries>>
wVars    == <<wpc, wjob, wdone, wpos, wbad, whas, wfail>>
rVars    == <<rpc, rold, rjob>>
history  == <<made, mailed, lostRetry>>
vars == <<rowVars, dataVars, cancelFlag, jobVars, owner, wVars, rVars, history>>

WorkerPCs == {"idle", "guard", "check", "begin", "charge", "recharge", "load",
              "start", "pipeline", "open", "render", "save", "publish",
              "mail", "stamp", "fail", "release", "finish"}
\* Between acquiring and releasing the run guard.
WorkerHolds == WorkerPCs \ {"idle", "guard", "finish"}
\* After the run has moved the task to processing.
Running == {"pipeline", "open", "render", "save", "publish"}

RequestPCs == {"idle", "createMeta", "createEnqueue", "createUndo",
               "cancelFlag", "cancelRow",
               "resumeRead", "resumeCharge", "resumeFlag", "resumeRow",
               "resumeMeta", "resumeEnqueue", "resumeUndo", "resumeRelease",
               "sweepMeta", "sweepExists", "sweepQueued", "sweepProcessing"}
RequestHolds == {"resumeRead", "resumeCharge", "resumeFlag", "resumeRow",
                 "resumeMeta", "resumeEnqueue", "resumeUndo", "resumeRelease"}

-----------------------------------------------------------------------------
(* Initial states: a task not created yet, or one queued before the minute *)
(* ledger and tracked job IDs existed (the legacy task the worker's        *)
(* allowance step recovers).                                               *)

InitCommon ==
    /\ aged = FALSE /\ jobId = NoJob /\ charge = "none"
    /\ clips = {} /\ ckpt = {} /\ stamped = FALSE
    /\ cancelFlag = FALSE
    /\ jobTries = [j \in Jobs |-> 0]
    /\ owner = Nobody
    /\ wpc = [w \in Workers |-> "idle"] /\ wjob = [w \in Workers |-> NoJob]
    /\ wdone = [w \in Workers |-> {}]   /\ wpos = [w \in Workers |-> 1]
    /\ wbad = [w \in Workers |-> FALSE] /\ whas = [w \in Workers |-> FALSE]
    /\ wfail = [w \in Workers |-> "error"]
    /\ rpc = [r \in Requests |-> "idle"] /\ rold = [r \in Requests |-> "error"]
    /\ rjob = [r \in Requests |-> NoJob]
    /\ made = [p \in Positions |-> 0] /\ mailed = 0 /\ lostRetry = FALSE

InitNew ==
    status = "new" /\ jobState = [j \in Jobs |-> "none"]

InitLegacy ==
    status = "queued" /\ jobState = [j \in Jobs |-> IF j = 1 THEN "queued" ELSE "none"]

Init == InitCommon /\ (InitNew \/ InitLegacy)

-----------------------------------------------------------------------------
(* The one writer of tasks.status and the refund it carries.               *)

\* Variant: a cancellation is not refunded.
RefundErrorsOnly(newStatus) ==
    charge' = IF newStatus = "error" /\ charge = "active" /\ clips = {}
              THEN "refunded" ELSE charge

\* refund_failed_minute_usage: only a failed task without saved clips.
RefundFailed(newStatus) ==
    charge' = IF newStatus \in Failed /\ charge = "active" /\ clips = {}
              THEN "refunded" ELSE charge

\* Variant: an UPDATE that changed no row still refunds.
UpdateStatusStaleRefund(newStatus, expected) ==
    IF status \in expected
    THEN status' = newStatus /\ aged' = FALSE /\ RefundFailed(newStatus)
    ELSE /\ UNCHANGED <<status, aged>>
         /\ charge' = IF newStatus \in Failed /\ charge = "active" /\ clips = {}
                      THEN "refunded" ELSE charge

\* Variant: expected_statuses is ignored.
UpdateStatusAlways(newStatus, expected) ==
    IF status \notin {"new", "deleted"} /\ expected # {}
    THEN status' = newStatus /\ aged' = FALSE /\ RefundFailed(newStatus)
    ELSE UNCHANGED rowVars

\* update_task_status(status, expected_statuses): one committed UPDATE.
UpdateStatus(newStatus, expected) ==
    IF status \in expected
    THEN status' = newStatus /\ aged' = FALSE /\ RefundFailed(newStatus)
    ELSE UNCHANGED rowVars

Exists == status \notin {"new", "deleted"}

\* task_edit_transaction(processing=False) admits the edit.
Editable == Exists /\ status \notin Active

JobLive(j) == j # NoJob /\ jobState[j] \in {"queued", "running"}

\* A random job ID no job or reservation has used yet.
IsFresh(j) == jobState[j] = "none" /\ j # jobId /\ \A r \in Requests : rjob[r] # j

\* Updated once per clip that is inserted.
ClipMade(p) == made' = [made EXCEPT ![p] = @ + 1]

-----------------------------------------------------------------------------
(* API request handlers.  A request slot is reused after the answer.       *)

RGoto(r, pc) == rpc' = [rpc EXCEPT ![r] = pc]
\* The handler answers and forgets its locals.
Answer(r) == RGoto(r, "idle") /\ rjob' = [rjob EXCEPT ![r] = NoJob]
                              /\ rold' = [rold EXCEPT ![r] = "error"]

\* POST /tasks: task and charge become visible in one commit.
CreateTask(r) ==
    /\ rpc[r] = "idle" /\ status = "new"
    /\ status' = "queued" /\ charge' = "active" /\ aged' = FALSE
    /\ RGoto(r, "createMeta")
    /\ UNCHANGED <<dataVars, cancelFlag, jobVars, owner, wVars, rold, rjob, history>>

\* The reservation names its job before the job is enqueued.
ReserveJob(r) ==
    \E j \in Jobs :
        /\ IsFresh(j)
        /\ rjob' = [rjob EXCEPT ![r] = j]
        /\ jobId' = IF Exists THEN j ELSE jobId
        /\ \/ rpc[r] = "createMeta" /\ RGoto(r, "createEnqueue")
           \/ rpc[r] = "resumeMeta" /\ RGoto(r, "resumeEnqueue")
        /\ UNCHANGED <<rowVars, clips, ckpt, stamped, cancelFlag, jobVars, owner,
                       wVars, rold, history>>

\* JobQueue.enqueue_processing_job(_job_id = the reserved ID).
Enqueue(r) ==
    /\ rpc[r] \in {"createEnqueue", "resumeEnqueue"}
    /\ jobState' = [jobState EXCEPT ![rjob[r]] = "queued"]
    /\ \/ rpc[r] = "createEnqueue" /\ Answer(r)
       \/ rpc[r] = "resumeEnqueue" /\ RGoto(r, "resumeRelease") /\ UNCHANGED <<rold, rjob>>
    /\ UNCHANGED <<rowVars, dataVars, cancelFlag, jobTries, owner, wVars, history>>

\* Redis or the database raises; the job may have been stored all the same.
QueueingFails(r) ==
    /\ \/ rpc[r] \in {"createMeta", "createEnqueue"} /\ RGoto(r, "createUndo")
       \/ rpc[r] \in {"resumeFlag", "resumeRow", "resumeMeta", "resumeEnqueue"}
          /\ RGoto(r, "resumeUndo")
    /\ \/ UNCHANGED jobState
       \/ /\ rpc[r] \in {"createEnqueue", "resumeEnqueue"}
          /\ jobState' = [jobState EXCEPT ![rjob[r]] = "queued"]
    /\ UNCHANGED <<rowVars, dataVars, cancelFlag, jobTries, owner, wVars, rold, rjob, history>>

\* create: queued -> error.  resume: back to the status it was resumed from.
UndoQueueing(r) ==
    /\ \/ /\ rpc[r] = "createUndo"
          /\ UpdateStatus("error", {"queued"}) /\ Answer(r)
       \/ /\ rpc[r] = "resumeUndo"
          /\ UpdateStatus(rold[r], {"queued", rold[r]})
          /\ RGoto(r, "resumeRelease") /\ UNCHANGED <<rold, rjob>>
    /\ UNCHANGED <<dataVars, cancelFlag, jobVars, owner, wVars, history>>

\* POST /tasks/{id}/cancel: a terminal task is answered at once.
CancelRead(r) ==
    /\ rpc[r] = "idle" /\ status \in Active
    /\ RGoto(r, "cancelFlag")
    /\ UNCHANGED <<rowVars, dataVars, cancelFlag, jobVars, owner, wVars, rold, rjob, history>>

CancelSetFlag(r) ==
    /\ rpc[r] = "cancelFlag"
    /\ cancelFlag' = TRUE
    /\ RGoto(r, "cancelRow")
    /\ UNCHANGED <<rowVars, dataVars, jobVars, owner, wVars, rold, rjob, history>>

CancelUpdate(r) ==
    /\ rpc[r] = "cancelRow"
    /\ UpdateStatus("cancelled", Active)
    /\ Answer(r)
    /\ UNCHANGED <<dataVars, cancelFlag, jobVars, owner, wVars, history>>

\* The key's one-hour TTL.
CancelFlagExpires ==
    /\ cancelFlag /\ cancelFlag' = FALSE
    /\ UNCHANGED <<rowVars, dataVars, jobVars, owner, wVars, rVars, history>>

\* POST /tasks/{id}/resume: a held guard is answered with 409.
ResumeLock(r) ==
    /\ rpc[r] = "idle" /\ Exists /\ owner = Nobody
    /\ \E j \in Jobs : IsFresh(j)     \* bound: MaxJobs
    /\ owner' = r /\ RGoto(r, "resumeRead")
    /\ UNCHANGED <<rowVars, dataVars, cancelFlag, jobVars, wVars, rold, rjob, history>>

\* Variant: every terminal task can be resumed.
ResumeReadTerminal(r) ==
    /\ rpc[r] = "resumeRead"
    /\ IF status \in Terminal
       THEN RGoto(r, "resumeCharge") /\ UNCHANGED rold
       ELSE RGoto(r, "resumeRelease") /\ UNCHANGED rold
    /\ UNCHANGED <<rowVars, dataVars, cancelFlag, jobVars, owner, wVars, rjob, history>>

\* The row is read again under the guard.
ResumeRead(r) ==
    /\ rpc[r] = "resumeRead"
    /\ IF status \in Failed
       THEN RGoto(r, "resumeCharge") /\ rold' = [rold EXCEPT ![r] = status]
       ELSE RGoto(r, "resumeRelease") /\ UNCHANGED rold
    /\ UNCHANGED <<rowVars, dataVars, cancelFlag, jobVars, owner, wVars, rjob, history>>

\* assert_can_resume_task(require_active_plan=True): an active charge is
\* reused, a refunded or missing one is charged again in its own commit.
ResumeCharge(r) ==
    /\ rpc[r] = "resumeCharge"
    /\ \/ /\ charge = "active" /\ RGoto(r, "resumeFlag") /\ UNCHANGED charge
       \/ /\ charge # "active" /\ Exists
          /\ charge' = "active" /\ RGoto(r, "resumeFlag")
       \/ \* no plan, no room left, or the task is gone
          UNCHANGED charge /\ RGoto(r, "resumeRelease")
    /\ UNCHANGED <<status, aged, dataVars, cancelFlag, jobVars, owner, wVars, rold, rjob, history>>

ResumeClearFlag(r) ==
    /\ rpc[r] = "resumeFlag"
    /\ cancelFlag' = FALSE
    /\ RGoto(r, "resumeRow")
    /\ UNCHANGED <<rowVars, dataVars, jobVars, owner, wVars, rold, rjob, history>>

\* No expected_statuses here: only the guard protects this UPDATE.
ResumeRequeue(r) ==
    /\ rpc[r] = "resumeRow"
    /\ UpdateStatus("queued", Statuses \ {"new", "deleted"})
    /\ RGoto(r, "resumeMeta")
    /\ UNCHANGED <<dataVars, cancelFlag, jobVars, owner, wVars, rold, rjob, history>>

ResumeRelease(r) ==
    /\ rpc[r] = "resumeRelease"
    /\ owner' = Nobody /\ Answer(r)
    /\ UNCHANGED <<rowVars, dataVars, cancelFlag, jobVars, wVars, history>>

\* Variant: only queued tasks are swept.
ReadQueuedOnly(r) ==
    /\ rpc[r] = "idle" /\ aged
    /\ status = "queued" /\ RGoto(r, "sweepMeta")
    /\ UNCHANGED <<rowVars, dataVars, cancelFlag, jobVars, owner, wVars, rold, rjob, history>>

\* GET /tasks/{id}: get_task_with_clips reads the row; a row that looks stale
\* starts one of the two sweeps.
ReadTask(r) ==
    /\ rpc[r] = "idle" /\ aged
    /\ \/ status = "queued" /\ RGoto(r, "sweepMeta")
       \/ status = "processing" /\ RGoto(r, "sweepProcessing")
    /\ UNCHANGED <<rowVars, dataVars, cancelFlag, jobVars, owner, wVars, rold, rjob, history>>

SweepLoadJobId(r) ==
    /\ rpc[r] = "sweepMeta"
    /\ rjob' = [rjob EXCEPT ![r] = jobId]
    /\ RGoto(r, "sweepExists")
    /\ UNCHANGED <<rowVars, dataVars, cancelFlag, jobVars, owner, wVars, rold, history>>

\* EXISTS arq:job / arq:in-progress.  Without a tracked ID the row must be
\* older than ARQ's retention, so that no job of the task is left.
SweepCheckJob(r) ==
    /\ rpc[r] = "sweepExists"
    /\ IF \/ JobLive(rjob[r])
          \/ rjob[r] = NoJob /\ \E j \in Jobs : JobLive(j)
       THEN Answer(r)
       ELSE RGoto(r, "sweepQueued") /\ UNCHANGED <<rold, rjob>>
    /\ UNCHANGED <<rowVars, dataVars, cancelFlag, jobVars, owner, wVars, history>>

SweepUpdate(r) ==
    /\ \/ rpc[r] = "sweepQueued" /\ UpdateStatus("error", {"queued"})
       \/ rpc[r] = "sweepProcessing" /\ UpdateStatus("error", {"processing"})
    /\ Answer(r)
    /\ UNCHANGED <<dataVars, cancelFlag, jobVars, owner, wVars, history>>

\* Editor and gallery: delete one clip of a task that is not being processed.
DeleteClip ==
    /\ Editable
    /\ \E p \in clips : clips' = clips \ {p}
    /\ UNCHANGED <<rowVars, jobId, ckpt, stamped, cancelFlag, jobVars, owner, wVars, rVars, history>>

\* DELETE /tasks/{id}: clips, checkpoint and row go; the ledger stays.
DeleteTask ==
    /\ Editable
    /\ status' = "deleted" /\ clips' = {} /\ ckpt' = {} /\ jobId' = NoJob
    /\ UNCHANGED <<aged, charge, stamped, cancelFlag, jobVars, owner, wVars, rVars, history>>

\* The API process dies in a handler; its lock connection closes with it.
RequestCrash(r) ==
    /\ rpc[r] # "idle"
    /\ Answer(r)
    /\ owner' = IF owner = r THEN Nobody ELSE owner
    /\ lostRetry' = (lostRetry \/ rpc[r] \in {"resumeFlag", "resumeRow", "resumeUndo"})
    /\ UNCHANGED <<rowVars, dataVars, cancelFlag, jobVars, wVars, made, mailed>>

-----------------------------------------------------------------------------
(* ARQ (external): at-least-once delivery, MaxTries deliveries per job, an  *)
(* exception ends the job, a Retry or a dead worker redelivers it.          *)

WGoto(w, pc) == wpc' = [wpc EXCEPT ![w] = pc]
WLocals == <<wjob, wdone, wpos, wbad, whas, wfail>>

\* The coroutine is gone: its locals are reset.
WorkerIdle(w) ==
    /\ WGoto(w, "idle") /\ wjob' = [wjob EXCEPT ![w] = NoJob]
    /\ wdone' = [wdone EXCEPT ![w] = {}] /\ wpos' = [wpos EXCEPT ![w] = 1]
    /\ wbad' = [wbad EXCEPT ![w] = FALSE] /\ whas' = [whas EXCEPT ![w] = FALSE]
    /\ wfail' = [wfail EXCEPT ![w] = "error"]

\* Variant: redelivery without a limit.
DeliverUnlimited(w, j) ==
    /\ wpc[w] = "idle" /\ jobState[j] = "queued" /\ jobTries[j] <= MaxTries
    /\ jobTries' = [jobTries EXCEPT ![j] = @ + 1]
    /\ jobState' = [jobState EXCEPT ![j] = "running"]
    /\ WGoto(w, "guard") /\ wjob' = [wjob EXCEPT ![w] = j]
    /\ UNCHANGED <<wdone, wpos, wbad, whas, wfail>>
    /\ UNCHANGED <<rowVars, dataVars, cancelFlag, owner, rVars, history>>

Deliver(w, j) ==
    /\ wpc[w] = "idle" /\ jobState[j] = "queued"
    /\ IF jobTries[j] < MaxTries
       THEN /\ jobTries' = [jobTries EXCEPT ![j] = @ + 1]
            /\ jobState' = [jobState EXCEPT ![j] = "running"]
            /\ WGoto(w, "guard") /\ wjob' = [wjob EXCEPT ![w] = j]
            /\ UNCHANGED <<wdone, wpos, wbad, whas, wfail>>
       ELSE /\ jobState' = [jobState EXCEPT ![j] = "gone"]
            /\ UNCHANGED <<jobTries, wVars>>
    /\ UNCHANGED <<rowVars, dataVars, cancelFlag, owner, rVars, history>>

\* Variant: the lock survives its connection.
WorkerStopsLocked(w) ==
    /\ wpc[w] # "idle"
    /\ \E after \in {"queued", "gone"} : jobState' = [jobState EXCEPT ![wjob[w]] = after]
    /\ WorkerIdle(w)
    /\ UNCHANGED <<rowVars, dataVars, cancelFlag, jobTries, owner, rVars, history>>

\* The process dies or is shut down (the job is redelivered), or job_timeout
\* cancels the coroutine (the job is over).  No handler of process_task runs
\* for a CancelledError; the lock connection closes.
WorkerStops(w) ==
    /\ wpc[w] # "idle"
    /\ \E after \in {"queued", "gone"} : jobState' = [jobState EXCEPT ![wjob[w]] = after]
    /\ owner' = IF owner = w THEN Nobody ELSE owner
    /\ WorkerIdle(w)
    /\ UNCHANGED <<rowVars, dataVars, cancelFlag, jobTries, rVars, history>>

\* The function returned or raised: ARQ removes the job.
JobEnds(w) ==
    /\ wpc[w] = "finish"
    /\ jobState' = [jobState EXCEPT ![wjob[w]] = "gone"]
    /\ WorkerIdle(w)
    /\ UNCHANGED <<rowVars, dataVars, cancelFlag, jobTries, owner, rVars, history>>

-----------------------------------------------------------------------------
(* The run: exclusive_task_run around TaskService.process_task.             *)

\* Variant: the result of pg_try_advisory_lock is ignored.
AcquireGuardAlways(w) ==
    /\ wpc[w] = "guard"
    /\ owner' = w /\ WGoto(w, "check")
    /\ UNCHANGED <<jobState, WLocals>>
    /\ UNCHANGED <<rowVars, dataVars, cancelFlag, jobTries, rVars, history>>

\* pg_try_advisory_lock; TaskRunBusy becomes Retry(defer=2).
AcquireGuard(w) ==
    /\ wpc[w] = "guard"
    /\ IF owner = Nobody
       THEN owner' = w /\ WGoto(w, "check") /\ UNCHANGED <<jobState, WLocals>>
       ELSE /\ jobState' = [jobState EXCEPT ![wjob[w]] = "queued"]
            /\ WorkerIdle(w) /\ UNCHANGED owner
    /\ UNCHANGED <<rowVars, dataVars, cancelFlag, jobTries, rVars, history>>

\* A missing task raises, a terminal one is skipped.
CheckStatus(w) ==
    /\ wpc[w] = "check"
    /\ WGoto(w, IF Exists /\ status \notin Terminal THEN "begin" ELSE "release")
    /\ UNCHANGED <<rowVars, dataVars, cancelFlag, jobVars, owner, WLocals, rVars, history>>

\* An exception leaves the body: rollback, then the failure is recorded.
Raise(w, failure) == WGoto(w, "fail") /\ wfail' = [wfail EXCEPT ![w] = failure]
CancelRaises(w)   == cancelFlag /\ Raise(w, "cancelled")

Begin(w) ==
    /\ wpc[w] = "begin"
    /\ \/ CancelRaises(w)
       \/ ~cancelFlag /\ WGoto(w, "charge") /\ UNCHANGED wfail
       \/ Raise(w, "error")    \* Redis does not answer
    /\ UNCHANGED <<rowVars, dataVars, cancelFlag, jobVars, owner,
                   wjob, wdone, wpos, wbad, whas, rVars, history>>

\* assert_can_resume_task(require_active_plan=False): the charge is read.
ReadCharge(w) ==
    /\ wpc[w] = "charge"
    /\ \/ WGoto(w, IF charge = "active" THEN "load" ELSE "recharge") /\ UNCHANGED wfail
       \/ Raise(w, "error")    \* the database does not answer
    /\ UNCHANGED <<rowVars, dataVars, cancelFlag, jobVars, owner,
                   wjob, wdone, wpos, wbad, whas, rVars, history>>

\* ... and written only if the task is still active.
WorkerRecharge(w) ==
    /\ wpc[w] = "recharge"
    /\ \/ status \in Active /\ charge' = "active" /\ WGoto(w, "load") /\ UNCHANGED wfail
       \/ status \notin Active /\ UNCHANGED charge /\ Raise(w, "cancelled")
       \/ UNCHANGED charge /\ Raise(w, "error")    \* no plan or no room left
    /\ UNCHANGED <<status, aged, dataVars, cancelFlag, jobVars, owner,
                   wjob, wdone, wpos, wbad, whas, rVars, history>>

\* Variant: every attempt starts from the first position.
LoadNothing(w) ==
    /\ wpc[w] = "load"
    /\ wdone' = [wdone EXCEPT ![w] = {}]
    /\ WGoto(w, "start")
    /\ UNCHANGED <<rowVars, dataVars, cancelFlag, jobVars, owner,
                   wjob, wpos, wbad, whas, wfail, rVars, history>>

\* The plan's limits, the cache, the performance context and the checkpoint
\* are read; any of the reads may raise.
LoadCheckpoint(w) ==
    /\ wpc[w] = "load"
    /\ \/ wdone' = [wdone EXCEPT ![w] = ckpt] /\ WGoto(w, "start") /\ UNCHANGED wfail
       \/ Raise(w, "error") /\ UNCHANGED wdone
    /\ UNCHANGED <<rowVars, dataVars, cancelFlag, jobVars, owner,
                   wjob, wpos, wbad, whas, rVars, history>>

StartProcessing(w) ==
    /\ wpc[w] = "start"
    /\ UpdateStatus("processing", Active)
    /\ IF status \in Active THEN WGoto(w, "pipeline") /\ UNCHANGED wfail
                            ELSE Raise(w, "cancelled")
    /\ UNCHANGED <<dataVars, cancelFlag, jobVars, owner,
                   wjob, wdone, wpos, wbad, whas, rVars, history>>

\* process_video_complete: download, transcript, analysis; its progress
\* callback notices a cancellation, anything in it may raise.
RunPipeline(w) ==
    /\ wpc[w] = "pipeline"
    /\ \/ status = "processing" /\ ~cancelFlag /\ WGoto(w, "open") /\ UNCHANGED wfail
       \/ (status # "processing" \/ cancelFlag) /\ Raise(w, "cancelled")
       \/ Raise(w, "error")
    /\ UNCHANGED <<rowVars, dataVars, cancelFlag, jobVars, owner,
                   wjob, wdone, wpos, wbad, whas, rVars, history>>

\* A processing transaction: the positions read before the pipeline are
\* written back and the existing clips are remembered.
OpenPlan(w) ==
    /\ wpc[w] = "open"
    /\ IF status = "processing" /\ ~cancelFlag
       THEN /\ ckpt' = wdone[w]
            /\ whas' = [whas EXCEPT ![w] = (clips # {})]
            /\ WGoto(w, "render") /\ UNCHANGED wfail
       ELSE Raise(w, "cancelled") /\ UNCHANGED <<ckpt, whas>>
    /\ UNCHANGED <<rowVars, jobId, clips, stamped, cancelFlag, jobVars, owner,
                   wjob, wdone, wpos, wbad, rVars, history>>

NextPosition(w) == wpos' = [wpos EXCEPT ![w] = @ + 1]

SkipPosition(w) ==
    /\ wpc[w] = "render" /\ wpos[w] \in wdone[w] /\ ~cancelFlag
    /\ NextPosition(w)
    /\ UNCHANGED <<rowVars, dataVars, cancelFlag, jobVars, owner,
                   wpc, wjob, wdone, wbad, whas, wfail, rVars, history>>

\* update_progress and create_single_clip for one segment.
RenderClip(w) ==
    /\ wpc[w] = "render" /\ wpos[w] \in Positions
    /\ \/ /\ cancelFlag \/ (status # "processing" /\ wpos[w] \notin wdone[w])
          /\ Raise(w, "cancelled") /\ UNCHANGED <<wpos, wbad>>
       \/ /\ ~cancelFlag /\ wpos[w] \notin wdone[w] /\ status = "processing"
          /\ \/ WGoto(w, "save") /\ UNCHANGED <<wpos, wbad, wfail>>
             \/ /\ NextPosition(w) /\ wbad' = [wbad EXCEPT ![w] = TRUE]
                /\ UNCHANGED <<wpc, wfail>>
             \/ Raise(w, "error") /\ UNCHANGED <<wpos, wbad>>
    /\ UNCHANGED <<rowVars, dataVars, cancelFlag, jobVars, owner,
                   wjob, wdone, whas, rVars, history>>

\* The processing transaction that commits clip and position together.
SaveClip(w) ==
    /\ wpc[w] = "save"
    /\ \/ /\ status = "processing" /\ ~cancelFlag
          /\ clips' = clips \cup {wpos[w]} /\ ClipMade(wpos[w])
          /\ ckpt' = wdone[w] \cup {wpos[w]}
          /\ wdone' = [wdone EXCEPT ![w] = @ \cup {wpos[w]}]
          /\ whas' = [whas EXCEPT ![w] = TRUE]
          /\ NextPosition(w) /\ WGoto(w, "render") /\ UNCHANGED wfail
       \/ /\ status # "processing" \/ cancelFlag
          /\ Raise(w, "cancelled") /\ UNCHANGED <<clips, ckpt, made, wdone, whas, wpos>>
       \/ Raise(w, "error") /\ UNCHANGED <<clips, ckpt, made, wdone, whas, wpos>>
    /\ UNCHANGED <<rowVars, jobId, stamped, cancelFlag, jobVars, owner,
                   wjob, wbad, rVars, mailed, lostRetry>>

\* Behind the last segment: failures and cancellation come before success.
EndRender(w) ==
    /\ wpc[w] = "render" /\ wpos[w] = Plan + 1
    /\ \/ (~whas[w] \/ wbad[w]) /\ Raise(w, "error")
       \/ whas[w] /\ ~wbad[w] /\ cancelFlag /\ Raise(w, "cancelled")
       \/ whas[w] /\ ~wbad[w] /\ ~cancelFlag /\ WGoto(w, "publish") /\ UNCHANGED wfail
    /\ UNCHANGED <<rowVars, dataVars, cancelFlag, jobVars, owner,
                   wjob, wdone, wpos, wbad, whas, rVars, history>>

Complete(w) ==
    /\ wpc[w] = "publish"
    /\ UpdateStatus("completed", {"processing"})
    /\ IF status = "processing" THEN WGoto(w, "mail") /\ UNCHANGED wfail
                                ELSE Raise(w, "cancelled")
    /\ UNCHANGED <<dataVars, cancelFlag, jobVars, owner,
                   wjob, wdone, wpos, wbad, whas, rVars, history>>

\* _send_completion_notification_if_needed: a failed email is only logged.
SendMail(w) ==
    /\ wpc[w] = "mail"
    /\ \/ ~stamped /\ mailed' = mailed + 1 /\ WGoto(w, "stamp")
       \/ UNCHANGED mailed /\ WGoto(w, "release")
    /\ UNCHANGED <<rowVars, dataVars, cancelFlag, jobVars, owner, WLocals, rVars,
                   made, lostRetry>>

StampMail(w) ==
    /\ wpc[w] = "stamp"
    /\ stamped' = (stamped \/ Exists)
    /\ WGoto(w, "release")
    /\ UNCHANGED <<rowVars, jobId, clips, ckpt, cancelFlag, jobVars, owner, WLocals,
                   rVars, history>>

\* The except clause: both outcomes are conditional on an active task.
RecordFailure(w) ==
    /\ wpc[w] = "fail"
    /\ UpdateStatus(wfail[w], Active)
    /\ WGoto(w, "release")
    /\ UNCHANGED <<dataVars, cancelFlag, jobVars, owner, WLocals, rVars, history>>

ReleaseGuard(w) ==
    /\ wpc[w] = "release"
    /\ owner' = Nobody /\ WGoto(w, "finish")
    /\ UNCHANGED <<rowVars, dataVars, cancelFlag, jobVars, WLocals, rVars, history>>

\* Time passes: 3 minutes in queued, 4 hours in processing.  job_timeout is
\* 3 hours, so a run that is past its start never lives to see the latter.
RowAges ==
    /\ ~aged /\ aged' = TRUE
    /\ \/ status = "queued"
       \/ status = "processing" /\ \A w \in Workers : wpc[w] \notin Running
    /\ UNCHANGED <<status, charge, dataVars, cancelFlag, jobVars, owner, wVars, rVars, history>>

-----------------------------------------------------------------------------

RequestStep(r) ==
    \/ ReserveJob(r) \/ Enqueue(r) \/ QueueingFails(r) \/ UndoQueueing(r)
    \/ CancelSetFlag(r) \/ CancelUpdate(r)
    \/ ResumeRead(r) \/ ResumeCharge(r) \/ ResumeClearFlag(r) \/ ResumeRequeue(r)
    \/ ResumeRelease(r)
    \/ SweepLoadJobId(r) \/ SweepCheckJob(r) \/ SweepUpdate(r)

RequestBegins(r) == CreateTask(r) \/ CancelRead(r) \/ ResumeLock(r) \/ ReadTask(r)

RunStep(w) ==
    \/ AcquireGuard(w) \/ CheckStatus(w) \/ Begin(w) \/ ReadCharge(w)
    \/ WorkerRecharge(w) \/ LoadCheckpoint(w) \/ StartProcessing(w)
    \/ RunPipeline(w) \/ OpenPlan(w) \/ SkipPosition(w) \/ RenderClip(w)
    \/ SaveClip(w) \/ EndRender(w) \/ Complete(w) \/ SendMail(w) \/ StampMail(w)
    \/ RecordFailure(w) \/ ReleaseGuard(w) \/ JobEnds(w)

Next ==
    \/ \E r \in Requests : RequestBegins(r) \/ RequestStep(r) \/ RequestCrash(r)
    \/ \E w \in Workers : RunStep(w) \/ WorkerStops(w) \/ \E j \in Jobs : Deliver(w, j)
    \/ CancelFlagExpires \/ DeleteClip \/ DeleteTask \/ RowAges

Spec == Init /\ [][Next]_vars

\* Handlers and coroutines keep running, ARQ keeps delivering, time passes,
\* and some client keeps reading the task until an API process survives the
\* read: there is no background sweep.
Fairness ==
    /\ \A r \in Requests : WF_vars(RequestStep(r))
    /\ \A w \in Workers : WF_vars(RunStep(w)) /\ WF_vars(\E j \in Jobs : Deliver(w, j))
    /\ WF_vars(RowAges)
    /\ SF_vars(\E r \in Requests : ReadTask(r))
    /\ SF_vars(\E r \in Requests : SweepLoadJobId(r))
    /\ SF_vars(\E r \in Requests : SweepCheckJob(r))
    /\ SF_vars(\E r \in Requests : SweepUpdate(r))

FairSpec == Spec /\ Fairness

-----------------------------------------------------------------------------
(* Properties *)

RowTypes ==
    /\ status \in Statuses /\ aged \in BOOLEAN
    /\ jobId \in Jobs \cup {NoJob} /\ charge \in {"none", "active", "refunded"}
    /\ clips \in SUBSET Positions /\ ckpt \in SUBSET Positions
    /\ stamped \in BOOLEAN /\ cancelFlag \in BOOLEAN
    /\ made \in [Positions -> Nat] /\ mailed \in Nat /\ lostRetry \in BOOLEAN

JobTypes ==
    /\ jobState \in [Jobs -> {"none", "queued", "running", "gone"}]
    /\ jobTries \in [Jobs -> 0..MaxTries]
    /\ owner \in Workers \cup Requests \cup {Nobody}

WorkerTypes ==
    /\ wpc \in [Workers -> WorkerPCs] /\ wjob \in [Workers -> Jobs \cup {NoJob}]
    /\ wdone \in [Workers -> SUBSET Positions]
    /\ wpos \in [Workers -> 1..(Plan + 1)]
    /\ wbad \in [Workers -> BOOLEAN] /\ whas \in [Workers -> BOOLEAN]
    /\ wfail \in [Workers -> Failed]

RequestTypes ==
    /\ rpc \in [Requests -> RequestPCs] /\ rold \in [Requests -> Failed]
    /\ rjob \in [Requests -> Jobs \cup {NoJob}]

TypeOK == RowTypes /\ JobTypes /\ WorkerTypes /\ RequestTypes

\* Only one party at a time runs a task or decides to run it again: duplicate
\* deliveries, redeliveries after a crash and simultaneous resumes included
\* (task_run_guard; docs/testing-local.md:122-123).
OneOwner ==
    /\ \A v, w \in Workers : wpc[v] \in WorkerHolds /\ wpc[w] \in WorkerHolds => v = w
    /\ \A r, q \in Requests : rpc[r] \in RequestHolds /\ rpc[q] \in RequestHolds => r = q
    /\ \A w \in Workers, r \in Requests :
          ~(wpc[w] \in WorkerHolds /\ rpc[r] \in RequestHolds)

\* Minutes are never released while their task is worked on or has delivered:
\* the refund of a failure, the recharge of a retry and the status they depend
\* on are kept consistent over every race of worker, sweep, cancel and resume.
PaidWork ==
    /\ status \in {"processing", "completed"} => charge = "active"
    /\ status = "queued" => charge # "refunded"

\* A plan position yields one clip over all attempts, and the checkpoint knows
\* exactly the positions that did: clip and position commit together.
OneClipPerPosition ==
    /\ \A p \in Positions : made[p] <= 1
    /\ status # "deleted" => ckpt = {p \in Positions : made[p] > 0}

\* The owner gets at most one completion email, however often the job runs.
OneMail == mailed <= 1

FailedWithoutOutput == status \in Failed /\ \A p \in Positions : made[p] = 0

\* docs/configuration.md:194-195: "Jobs that fail without producing clips
\* release their minutes."
FailureReleasesMinutes ==
    FailedWithoutOutput /\ (\A r \in Requests : rpc[r] \notin RequestHolds)
        => charge # "active"

\* The same as far as the code keeps it: a failed task without output is
\* charged only while a resume is being queued, or after an API process died
\* between the resume's charge and its requeueing UPDATE.
FailureReleasesMinutesOrRetry ==
    FailedWithoutOutput /\ charge = "active" =>
        \/ lostRetry
        \/ \E r \in Requests : rpc[r] \in {"resumeFlag", "resumeRow", "resumeUndo"}

\* A completed task is never put back to work or failed, not even by a late
\* sweep, a late cancellation, a stale resume or a duplicate job.
CompletedIsFinal ==
    [][status = "completed" => status' \in {"completed", "deleted"}]_vars

\* Only a resume that holds the run guard and has an active charge takes a
\* failed task back to work: no progress write of an old run revives it.
RetryIsOwnedAndPaid ==
    [][(status \in Failed /\ status' \in Active) =>
          owner \in Requests /\ rpc[owner] = "resumeRow" /\ charge = "active"]_vars

\* Queued and processing are never for ever: a lost, dropped or exhausted job,
\* a dead worker and a dead API process all end in a terminal state as long as
\* somebody reads the task.
Settles == (status \in Active) ~> (status \notin Active)

\* Nobody keeps a task's run guard for ever.
GuardIsReleased == (owner # Nobody) ~> (owner = Nobody)

Phase ==
    CASE status = "new" -> "none"
      [] status \in Active -> "working"
      [] status = "completed" -> "done"
      [] status \in Failed -> "failed"
      [] status = "deleted" -> "gone"

Contract == INSTANCE TaskContract WITH
    phase  <- Phase,
    paid   <- (charge = "active"),
    output <- {p \in Positions : made[p] > 0}

\* The handlers, jobs and runs together keep the promise made to the owner.
KeepsContract == Contract!Spec
=============================================================================
