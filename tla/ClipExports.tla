------------------------------ MODULE ClipExports ------------------------------
(* Queued preset exports of one clip (clip_export_service.py): the idempotent  *)
(* start, the single-try job with its heartbeat, the sweeps of what a lost     *)
(* worker leaves, and the deletion of the stored files.                        *)
EXTENDS Naturals, FiniteSets

CONSTANTS Exports,      \* the rows a behaviour may insert
          MaxEdits

VARIABLES clip,         \* version of the clip's file; 0 when the clip is deleted
          row,          \* clip_exports by id
          job,          \* its ARQ job: absent, waiting, active
          worker,       \* where the job's handler is
          posting,      \* rows a start has committed and not yet enqueued
          stored,       \* export files that exist
          toDelete,     \* export files in media_deletions
          lost          \* exports whose worker died, was stopped or lost an answer while it
                        \* uploaded or held the file (a history variable)

evars == <<clip, row, job, worker, posting, stored, toDelete, lost>>

NoRow == [status |-> "none", source |-> 0, file |-> FALSE, overdue |-> 0, expired |-> FALSE]
Active == {"queued", "running"}
Live == Active \cup {"succeeded"}
Stages == {"idle", "started", "encoding", "encoded", "uploaded"}

TypeOK ==
    /\ clip \in 0..MaxEdits
    /\ row \in [Exports -> [status: {"none", "failed"} \cup Live, source: 0..MaxEdits, file: BOOLEAN,
                            overdue: 0..2, expired: BOOLEAN]]
    /\ job \in [Exports -> {"absent", "waiting", "active"}]
    /\ worker \in [Exports -> Stages]
    /\ posting \subseteq Exports /\ stored \subseteq Exports /\ toDelete \subseteq Exports /\ lost \subseteq Exports

Idle == /\ row = [e \in Exports |-> NoRow]
        /\ job = [e \in Exports |-> "absent"]
        /\ worker = [e \in Exports |-> "idle"]
        /\ posting = {} /\ stored = {} /\ toDelete = {} /\ lost = {}
Init == clip = 1 /\ Idle
\* No clip to export.
Gone == clip = 0 /\ Idle

Status(e) == row[e].status

(***************************************************************************)
(* The sweep that every start, poll and cleanup pass runs first.           *)
(* overdue: 1 for a running row no heartbeat touched for three minutes or  *)
(* a queued row past its first minute, 2 for a row queued for an hour.     *)
(***************************************************************************)
Failed(r) == [r EXCEPT !.status = "failed", !.overdue = 0]
\* A deleted row; its id is never used again.
Deleted(r) == [NoRow EXCEPT !.source = r.source]

\* Variant: a queued row is failed only when Redis says that its job is gone.
OverdueAsked(e, reachable) ==
    \/ Status(e) = "running" /\ row[e].overdue > 0
    \/ Status(e) = "queued" /\ row[e].overdue > 0 /\ reachable /\ job[e] = "absent"
\* Rows the sweep may fail: Redis is asked about the jobs of queued rows, and
\* after an hour a queued row fails whatever it says. reachable says whether
\* Redis answers.
Overdue(e, reachable) ==
    \/ Status(e) = "running" /\ row[e].overdue > 0
    \/ Status(e) = "queued" /\ row[e].overdue = 2
    \/ Status(e) = "queued" /\ row[e].overdue = 1 /\ reachable /\ job[e] = "absent"
Reaped(within, reachable) ==
    [e \in Exports |-> IF e \in within /\ Overdue(e, reachable) THEN Failed(row[e]) ELSE row[e]]

\* Variant: a succeeded row is measured as a running one.
GrowsOverdueAlways(e) ==
    /\ row[e].overdue < (IF Status(e) = "queued" THEN 2 ELSE IF Status(e) \in {"running", "succeeded"} THEN 1 ELSE 3)
    /\ row' = [row EXCEPT ![e].overdue = @ + 1]
    /\ UNCHANGED <<clip, job, worker, posting, stored, toDelete, lost>>
\* Time: a heartbeat is late, a row waits, a file reaches its seven days.
GrowsOverdue(e) ==
    /\ row[e].overdue < (IF Status(e) = "queued" THEN 2 ELSE IF Status(e) = "running" THEN 1 ELSE 0)
    /\ row' = [row EXCEPT ![e].overdue = @ + 1]
    /\ UNCHANGED <<clip, job, worker, posting, stored, toDelete, lost>>
Expires(e) ==
    /\ Status(e) = "succeeded" /\ ~row[e].expired
    /\ row' = [row EXCEPT ![e].expired = TRUE]
    /\ UNCHANGED <<clip, job, worker, posting, stored, toDelete, lost>>

(***************************************************************************)
(* The API.                                                                *)
(***************************************************************************)
\* Variant: the lookup reads only what has finished.
StartAgain(reachable) ==
    /\ clip # 0
    /\ \E new \in Exports :
         /\ row[new] = NoRow
         /\ posting' = posting \cup {new}
         /\ row' = [row EXCEPT ![new] = [NoRow EXCEPT !.status = "queued", !.source = clip]]
    /\ UNCHANGED <<clip, job, worker, stored, toDelete, lost>>

\* start_export, up to its commit: under the advisory lock of the clip and its
\* file, what is live is returned, and what is gone or expired makes room.
Start(reachable) ==
    LET mine == {e \in Exports : row[e].source = clip}
        swept == Reaped(mine, reachable)
        existing == {e \in mine : swept[e].status \in Live}
        unusable == {e \in existing : swept[e].status = "succeeded" /\ (e \notin stored \/ row[e].expired)}
    IN /\ clip # 0
       /\ toDelete' = toDelete \cup unusable
       /\ \/ /\ existing \ unusable # {}
             /\ row' = swept
             /\ UNCHANGED posting
          \/ /\ existing \ unusable = {}
             /\ \E new \in Exports :
                  /\ row[new] = NoRow
                  /\ posting' = posting \cup {new}
                  /\ row' = [e \in Exports |->
                               IF e = new THEN [NoRow EXCEPT !.status = "queued", !.source = clip]
                               ELSE IF e \in unusable THEN Failed(swept[e]) ELSE swept[e]]
       /\ UNCHANGED <<clip, job, worker, stored, lost>>

Enqueue(e) ==
    /\ e \in posting /\ posting' = posting \ {e}
    /\ job' = [job EXCEPT ![e] = "waiting"]
    /\ UNCHANGED <<clip, row, worker, stored, toDelete, lost>>

\* The queue raises, possibly after it stored the job.
EnqueueFails(e) ==
    /\ e \in posting /\ posting' = posting \ {e}
    /\ \E state \in {"absent", "waiting"} : job' = [job EXCEPT ![e] = state]
    /\ row' = [row EXCEPT ![e] = IF @.status \in Active THEN Failed(@) ELSE @]
    /\ UNCHANGED <<clip, worker, stored, toDelete, lost>>

ApiDies(e) ==
    /\ e \in posting /\ posting' = posting \ {e}
    /\ UNCHANGED <<clip, row, job, worker, stored, toDelete, lost>>

\* present_export, behind every poll and download.
Present(e, reachable) ==
    LET swept == Reaped({e}, reachable)
        gone == swept[e].status = "succeeded" /\ e \notin stored
    IN /\ clip # 0
       /\ swept # row \/ gone
       /\ row' = IF gone THEN [swept EXCEPT ![e] = Failed(@)] ELSE swept
       /\ toDelete' = IF gone THEN toDelete \cup {e} ELSE toDelete
       /\ UNCHANGED <<clip, job, worker, posting, stored, lost>>

\* The clip's file is replaced, or the clip is deleted with its rows; the export
\* files the rows name are queued for deletion with the clip.
EditClip ==
    /\ clip \in 1..(MaxEdits - 1) /\ clip' = clip + 1
    /\ UNCHANGED <<row, job, worker, posting, stored, toDelete, lost>>
DeleteClip ==
    /\ clip # 0 /\ clip' = 0
    /\ toDelete' = toDelete \cup {e \in Exports : row[e].file}
    /\ row' = [e \in Exports |-> Deleted(row[e])]
    /\ UNCHANGED <<job, worker, posting, stored, lost>>

(***************************************************************************)
(* The worker: export_clip_preset. Its job has one try.                    *)
(***************************************************************************)
EndJob(e) == job' = [job EXCEPT ![e] = "absent"] /\ worker' = [worker EXCEPT ![e] = "idle"]
RecordFailure(e) == row' = [row EXCEPT ![e] = IF @.status \in Active THEN Failed(@) ELSE @]

Deliver(e) ==
    /\ job[e] = "waiting"
    /\ IF Status(e) \in Active
       THEN /\ row' = [row EXCEPT ![e].status = "running", ![e].overdue = 0]
            /\ job' = [job EXCEPT ![e] = "active"]
            /\ worker' = [worker EXCEPT ![e] = "started"]
       ELSE EndJob(e) /\ UNCHANGED row
    /\ UNCHANGED <<clip, posting, stored, toDelete, lost>>

ReadClip(e) ==
    /\ worker[e] = "started"
    /\ IF clip = row[e].source /\ clip # 0
       THEN worker' = [worker EXCEPT ![e] = "encoding"] /\ UNCHANGED <<row, job>>
       ELSE RecordFailure(e) /\ EndJob(e)
    /\ UNCHANGED <<clip, posting, stored, toDelete, lost>>

\* The heartbeat touches a running row and stops the encoder of any other.
Heartbeat(e) ==
    /\ worker[e] = "encoding"
    /\ IF Status(e) = "running"
       THEN row[e].overdue > 0 /\ row' = [row EXCEPT ![e].overdue = 0] /\ UNCHANGED <<job, worker>>
       ELSE EndJob(e) /\ UNCHANGED row
    /\ UNCHANGED <<clip, posting, stored, toDelete, lost>>

Encode(e) ==
    /\ worker[e] = "encoding"
    /\ worker' = [worker EXCEPT ![e] = "encoded"]
    /\ UNCHANGED <<clip, row, job, posting, stored, toDelete, lost>>
Upload(e) ==
    /\ worker[e] = "encoded"
    /\ worker' = [worker EXCEPT ![e] = "uploaded"]
    /\ stored' = stored \cup {e}
    /\ UNCHANGED <<clip, row, job, posting, toDelete, lost>>

\* The file is deleted; a storage error leaves it.
Discard(e) == \/ stored' = stored \ {e} /\ UNCHANGED lost
              \/ UNCHANGED stored /\ lost' = lost \cup {e}

\* Variant: the row is completed whatever its status.
SaveAnyway(e) ==
    /\ worker[e] = "uploaded"
    /\ row' = [row EXCEPT ![e].status = IF @ = "none" THEN @ ELSE "succeeded", ![e].file = Status(e) # "none"]
    /\ EndJob(e)
    /\ UNCHANGED <<clip, posting, stored, toDelete, lost>>

\* mark_succeeded only moves a running row; a file no row names is deleted.
Save(e) ==
    /\ worker[e] = "uploaded"
    /\ IF Status(e) = "running"
       THEN row' = [row EXCEPT ![e].status = "succeeded", ![e].file = TRUE, ![e].overdue = 0] /\ UNCHANGED <<stored, lost>>
       ELSE UNCHANGED row /\ Discard(e)
    /\ EndJob(e)
    /\ UNCHANGED <<clip, posting, toDelete>>

\* The commit of mark_succeeded applies and its answer is lost: the handler takes
\* the failure path and deletes the file of a row that has succeeded.
SaveAnswerLost(e) ==
    /\ worker[e] = "uploaded" /\ Status(e) = "running"
    /\ row' = [row EXCEPT ![e].status = "succeeded", ![e].file = TRUE, ![e].overdue = 0]
    /\ stored' = stored \ {e} /\ lost' = lost \cup {e}
    /\ EndJob(e)
    /\ UNCHANGED <<clip, posting, toDelete>>

\* The upload of a job that stops during it. run_in_thread lets it end, and a call that
\* fails may have stored the file: no row and no handler knows.
StrayUpload(e) ==
    /\ worker[e] = "encoded"
    /\ stored' = stored \cup {e} /\ lost' = lost \cup {e}

\* An error or the job's time limit: the failure is recorded, what was made deleted.
Abandon(e) ==
    /\ worker[e] # "idle"
    /\ RecordFailure(e)
    /\ IF worker[e] = "uploaded" THEN Discard(e) ELSE StrayUpload(e) \/ UNCHANGED <<stored, lost>>
    /\ EndJob(e)
    /\ UNCHANGED <<clip, posting, toDelete>>

WorkerDies(e) ==
    /\ worker[e] # "idle"
    /\ EndJob(e)
    /\ \/ StrayUpload(e)
       \/ UNCHANGED stored /\ lost' = IF worker[e] = "uploaded" THEN lost \cup {e} ELSE lost
    /\ UNCHANGED <<clip, row, posting, toDelete>>

(***************************************************************************)
(* The cleanup pass, every five minutes.                                   *)
(***************************************************************************)
SweepExports(reachable) ==
    LET swept == Reaped(Exports, reachable)
    IN swept # row /\ row' = swept /\ UNCHANGED <<clip, job, worker, posting, stored, toDelete, lost>>
\* Variant: the file goes first and the row when it is gone.
ExpireFileFirst(e) ==
    /\ Status(e) = "succeeded" /\ row[e].expired /\ e \notin toDelete
    /\ toDelete' = toDelete \cup {e}
    /\ UNCHANGED <<clip, row, job, worker, posting, stored, lost>>
ExpireExport(e) ==
    /\ Status(e) = "succeeded" /\ row[e].expired
    /\ toDelete' = toDelete \cup {e}
    /\ row' = [row EXCEPT ![e] = Deleted(@)]
    /\ UNCHANGED <<clip, job, worker, posting, stored, lost>>
PurgeFailure(e) ==
    /\ Status(e) = "failed"
    /\ row' = [row EXCEPT ![e] = Deleted(@)]
    /\ UNCHANGED <<clip, job, worker, posting, stored, toDelete, lost>>
DrainDeletion(e) ==
    /\ e \in toDelete
    /\ toDelete' = toDelete \ {e} /\ stored' = stored \ {e}
    /\ UNCHANGED <<clip, row, job, worker, posting, lost>>

Next ==
    \/ \E reachable \in BOOLEAN : Start(reachable) \/ SweepExports(reachable)
    \/ EditClip \/ DeleteClip
    \/ \E e \in Exports :
         \/ GrowsOverdue(e) \/ Expires(e)
         \/ Enqueue(e) \/ EnqueueFails(e) \/ ApiDies(e)
         \/ \E reachable \in BOOLEAN : Present(e, reachable)
         \/ Deliver(e) \/ ReadClip(e) \/ Heartbeat(e) \/ Encode(e) \/ Upload(e)
         \/ Save(e) \/ SaveAnswerLost(e) \/ Abandon(e) \/ WorkerDies(e)
         \/ ExpireExport(e) \/ PurgeFailure(e) \/ DrainDeletion(e)

\* Time passes, the cleanup pass runs every five minutes, and a handler that is
\* running goes on or dies.
Fairness ==
    /\ WF_evars(\E reachable \in BOOLEAN : SweepExports(reachable))
    /\ \A e \in Exports :
         /\ WF_evars(GrowsOverdue(e)) /\ WF_evars(Expires(e))
         /\ WF_evars(ExpireExport(e)) /\ WF_evars(DrainDeletion(e))
         /\ WF_evars(ReadClip(e) \/ Encode(e) \/ Upload(e) \/ Save(e) \/ WorkerDies(e))
Spec == Init /\ [][Next]_evars /\ Fairness

(***************************************************************************)
(* Properties.                                                             *)
(***************************************************************************)
\* "Same clip, preset, and source file reuses a queued, running, or succeeded
\* job": two starts that race, a sweep and a late worker never leave two live
\* exports of one file.
OneLiveExport ==
    \A e, f \in Exports : Status(e) \in Live /\ Status(f) \in Live /\ row[e].source = row[f].source => e = f

\* What a row offers for download is there, except where a worker lost the answer
\* to its own commit (the next poll fails such a row).
ReadyHasFile == \A e \in Exports : Status(e) = "succeeded" => e \in stored \/ e \in lost

\* An export ends even when its worker, the API that started it or Redis is lost,
\* and "those files are deleted after 7 days, and sooner when the clip or task is
\* deleted" unless a worker died or was stopped with a file no row names.
ExportsSettle ==
    []<>(\A e \in Exports : Status(e) \notin Active /\ (e \in stored => e \in lost))
=============================================================================
