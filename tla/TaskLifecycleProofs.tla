-------------------------- MODULE TaskLifecycleProofs --------------------------
(***************************************************************************)
(* The safety properties of TaskLifecycle, for every set of workers and    *)
(* requests, every plan and every number of jobs and deliveries.           *)
(*                                                                         *)
(* One inductive invariant carries them all.  Its parts build on each      *)
(* other: types, who owns the run guard (GuardInv), what an owner knows of *)
(* the charge and the status (PaidInv, RefundInv), what a run knows of the *)
(* checkpoint and of saved output (CkptInv, OutputInv), and which run may  *)
(* still send the completion email (MailInv).  Each has a lemma that every *)
(* step preserves it given the parts before it; the theorems follow.       *)
(***************************************************************************)
EXTENDS TaskLifecycle, TLAPS

USE DEF rowVars, dataVars, jobVars, wVars, rVars, history, WLocals, vars,
        RGoto, Answer, WGoto, WorkerIdle, Raise, CancelRaises, NextPosition

\* Variables keep to their domains, and a run that is about to save a clip
\* stands at a position of the plan.
TypeInv ==
    /\ TypeOK
    /\ \A w \in Workers : wpc[w] = "save" => wpos[w] \in Positions

\* The initial states, of a new and of a legacy task, have the right types.
LEMMA TypeInit == Init => TypeInv
<1> SUFFICES ASSUME Init PROVE TypeInv
  OBVIOUS
<1> USE ConstantsAssumption DEF Init, InitCommon
<1>1. status \in Statuses /\ jobState \in [Jobs -> {"none", "queued", "running", "gone"}]
  BY DEF InitNew, InitLegacy, Statuses, Active, Terminal, Failed
<1>2. /\ jobTries \in [Jobs -> 0..MaxTries]
      /\ wpos \in [Workers -> 1..(Plan + 1)]
      /\ made \in [Positions -> Nat]
  OBVIOUS
<1>3. /\ wpc \in [Workers -> WorkerPCs] /\ rpc \in [Requests -> RequestPCs]
      /\ \A w \in Workers : wpc[w] # "save"
  BY DEF WorkerPCs, RequestPCs
<1>4. /\ wdone \in [Workers -> SUBSET Positions]
      /\ wbad \in [Workers -> BOOLEAN] /\ whas \in [Workers -> BOOLEAN]
      /\ wfail \in [Workers -> Failed] /\ rold \in [Requests -> Failed]
  BY DEF Failed
<1>5. wjob \in [Workers -> Jobs \cup {NoJob}] /\ rjob \in [Requests -> Jobs \cup {NoJob}]
  OBVIOUS
<1> QED
  BY <1>1, <1>2, <1>3, <1>4, <1>5 DEF TypeInv, TypeOK, RowTypes, JobTypes, WorkerTypes, RequestTypes

\* update_task_status keeps the row in its domain.
LEMMA TypeUpdateStatus ==
  ASSUME TypeInv, NEW s \in Statuses, NEW e, UpdateStatus(s, e)
  PROVE  /\ status' \in Statuses /\ aged' \in BOOLEAN
         /\ charge' \in {"none", "active", "refunded"}
  BY DEF TypeInv, TypeOK, RowTypes, JobTypes, WorkerTypes, RequestTypes, UpdateStatus, RefundFailed

\* The API requests keep every variable in its domain.
LEMMA TypeRequest ==
  ASSUME TypeInv, NEW r \in Requests, RequestBegins(r) \/ RequestStep(r) \/ RequestCrash(r)
  PROVE  TypeInv'
<1> USE ConstantsAssumption DEF TypeInv, TypeOK, RowTypes, JobTypes, WorkerTypes, RequestTypes, Statuses, Active, Terminal, Failed, RequestPCs, NoJob
<1>1. CASE CreateTask(r)
  <2>1. rpc' \in [Requests -> RequestPCs] /\ status' \in Statuses
    BY <1>1 DEF CreateTask
  <2> QED
    BY <1>1, <2>1 DEF CreateTask
<1>2. CASE CancelRead(r) BY <1>2 DEF CancelRead
<1>3. CASE ResumeLock(r) BY <1>3 DEF ResumeLock
<1>4. CASE ReadTask(r) BY <1>4 DEF ReadTask
<1>5. CASE ReserveJob(r)
  <2>1. PICK j \in Jobs :
          /\ rjob' = [rjob EXCEPT ![r] = j] /\ jobId' \in {j, jobId}
          /\ \E pc \in {"createEnqueue", "resumeEnqueue"} : rpc' = [rpc EXCEPT ![r] = pc]
          /\ UNCHANGED <<rowVars, clips, ckpt, stamped, cancelFlag, jobVars, owner,
                         wVars, rold, history>>
    BY <1>5 DEF ReserveJob
  <2>2. rpc' \in [Requests -> RequestPCs]
    BY <2>1
  <2>3. rjob' \in [Requests -> Jobs \cup {NoJob}] /\ jobId' \in Jobs \cup {NoJob}
    BY <2>1
  <2> QED
    BY <2>1, <2>2, <2>3
<1>6. CASE Enqueue(r)
  <2>1. jobState' \in [Jobs -> {"none", "queued", "running", "gone"}]
    BY <1>6 DEF Enqueue
  <2>2. RequestTypes'
    BY <1>6 DEF Enqueue
  <2> QED
    BY <1>6, <2>1, <2>2 DEF Enqueue
<1>7. CASE QueueingFails(r)
  <2>1. jobState' \in [Jobs -> {"none", "queued", "running", "gone"}]
    BY <1>7 DEF QueueingFails
  <2>2. rpc' \in [Requests -> RequestPCs]
    BY <1>7 DEF QueueingFails
  <2> QED
    BY <1>7, <2>1, <2>2 DEF QueueingFails
<1>8. CASE UndoQueueing(r)
  BY <1>8, TypeUpdateStatus DEF UndoQueueing
<1>9. CASE CancelSetFlag(r) BY <1>9 DEF CancelSetFlag
<1>10. CASE CancelUpdate(r) BY <1>10, TypeUpdateStatus DEF CancelUpdate
<1>11. CASE ResumeRead(r) BY <1>11 DEF ResumeRead
<1>12. CASE ResumeCharge(r) BY <1>12 DEF ResumeCharge
<1>13. CASE ResumeClearFlag(r) BY <1>13 DEF ResumeClearFlag
<1>14. CASE ResumeRequeue(r) BY <1>14, TypeUpdateStatus DEF ResumeRequeue
<1>15. CASE ResumeRelease(r) BY <1>15 DEF ResumeRelease
<1>16. CASE SweepLoadJobId(r) BY <1>16 DEF SweepLoadJobId
<1>17. CASE SweepCheckJob(r) BY <1>17 DEF SweepCheckJob
<1>18. CASE SweepUpdate(r) BY <1>18, TypeUpdateStatus DEF SweepUpdate
<1>19. CASE RequestCrash(r) BY <1>19 DEF RequestCrash
<1> QED
  BY <1>1, <1>2, <1>3, <1>4, <1>5, <1>6, <1>7, <1>8, <1>9, <1>10, <1>11, <1>12, <1>13,
     <1>14, <1>15, <1>16, <1>17, <1>18, <1>19 DEF RequestBegins, RequestStep

\* The worker's run keeps every variable in its domain.
LEMMA TypeRun ==
  ASSUME TypeInv, NEW w \in Workers, RunStep(w) \/ WorkerStops(w)
  PROVE  TypeInv'
<1> USE ConstantsAssumption DEF TypeInv, TypeOK
<1>1. CASE WorkerStops(w)
  <2>1. RowTypes'
    BY <1>1 DEF WorkerStops, RowTypes, WorkerTypes
  <2>2. JobTypes'
    BY <1>1 DEF WorkerStops, JobTypes
  <2>3. wpc' \in [Workers -> WorkerPCs]
    BY <1>1 DEF WorkerStops, WorkerTypes, WorkerPCs
  <2>4. WorkerTypes'
    BY <1>1, <2>3 DEF WorkerStops, WorkerTypes, Positions, Failed
  <2>5. RequestTypes'
    BY <1>1 DEF WorkerStops, RequestTypes
  <2>6. \A v \in Workers : wpc'[v] = "save" => wpos'[v] \in Positions
    BY <1>1 DEF WorkerStops, WorkerTypes
  <2> QED
    BY <2>1, <2>2, <2>4, <2>5, <2>6
<1>2. CASE JobEnds(w)
  <2>1. RowTypes'
    BY <1>2 DEF JobEnds, RowTypes, WorkerTypes
  <2>2. JobTypes'
    BY <1>2 DEF JobEnds, JobTypes
  <2>3. wpc' \in [Workers -> WorkerPCs]
    BY <1>2 DEF JobEnds, WorkerTypes, WorkerPCs
  <2>4. WorkerTypes'
    BY <1>2, <2>3 DEF JobEnds, WorkerTypes, Positions, Failed
  <2>5. RequestTypes'
    BY <1>2 DEF JobEnds, RequestTypes
  <2>6. \A v \in Workers : wpc'[v] = "save" => wpos'[v] \in Positions
    BY <1>2 DEF JobEnds, WorkerTypes
  <2> QED
    BY <2>1, <2>2, <2>4, <2>5, <2>6
<1>3. CASE AcquireGuard(w)
  <2>1. RowTypes'
    BY <1>3 DEF AcquireGuard, RowTypes, WorkerTypes
  <2>2. JobTypes'
    BY <1>3 DEF AcquireGuard, JobTypes
  <2>3. wpc' \in [Workers -> WorkerPCs]
    BY <1>3 DEF AcquireGuard, WorkerTypes, WorkerPCs
  <2>4. WorkerTypes'
    <3>1. CASE owner = Nobody
      BY <1>3, <2>3, <3>1 DEF AcquireGuard, WorkerTypes
    <3>2. CASE owner # Nobody
      <4>1. wpos' \in [Workers -> 1..(Plan + 1)]
        BY <1>3, <3>2 DEF AcquireGuard, WorkerTypes
      <4> QED
        BY <1>3, <2>3, <3>2, <4>1 DEF AcquireGuard, WorkerTypes, Failed
    <3> QED
      BY <3>1, <3>2
  <2>5. RequestTypes'
    BY <1>3 DEF AcquireGuard, RequestTypes
  <2>6. \A v \in Workers : wpc'[v] = "save" => wpos'[v] \in Positions
    BY <1>3 DEF AcquireGuard, WorkerTypes
  <2> QED
    BY <2>1, <2>2, <2>4, <2>5, <2>6
<1>4. CASE CheckStatus(w)
  <2>1. RowTypes'
    BY <1>4 DEF CheckStatus, RowTypes, WorkerTypes
  <2>2. JobTypes'
    BY <1>4 DEF CheckStatus, JobTypes
  <2>3. wpc' \in [Workers -> WorkerPCs]
    BY <1>4 DEF CheckStatus, WorkerTypes, WorkerPCs
  <2>4. WorkerTypes'
    BY <1>4, <2>3 DEF CheckStatus, WorkerTypes, Positions, Failed
  <2>5. RequestTypes'
    BY <1>4 DEF CheckStatus, RequestTypes
  <2>6. \A v \in Workers : wpc'[v] = "save" => wpos'[v] \in Positions
    BY <1>4 DEF CheckStatus, WorkerTypes
  <2> QED
    BY <2>1, <2>2, <2>4, <2>5, <2>6
<1>5. CASE Begin(w)
  <2>1. RowTypes'
    BY <1>5 DEF Begin, RowTypes, WorkerTypes
  <2>2. JobTypes'
    BY <1>5 DEF Begin, JobTypes
  <2>3. wpc' \in [Workers -> WorkerPCs]
    BY <1>5 DEF Begin, WorkerTypes, WorkerPCs
  <2>4. WorkerTypes'
    BY <1>5, <2>3 DEF Begin, WorkerTypes, Positions, Failed
  <2>5. RequestTypes'
    BY <1>5 DEF Begin, RequestTypes
  <2>6. \A v \in Workers : wpc'[v] = "save" => wpos'[v] \in Positions
    BY <1>5 DEF Begin, WorkerTypes
  <2> QED
    BY <2>1, <2>2, <2>4, <2>5, <2>6
<1>6. CASE ReadCharge(w)
  <2>1. RowTypes'
    BY <1>6 DEF ReadCharge, RowTypes, WorkerTypes
  <2>2. JobTypes'
    BY <1>6 DEF ReadCharge, JobTypes
  <2>3. wpc' \in [Workers -> WorkerPCs]
    BY <1>6 DEF ReadCharge, WorkerTypes, WorkerPCs
  <2>4. WorkerTypes'
    BY <1>6, <2>3 DEF ReadCharge, WorkerTypes, Positions, Failed
  <2>5. RequestTypes'
    BY <1>6 DEF ReadCharge, RequestTypes
  <2>6. \A v \in Workers : wpc'[v] = "save" => wpos'[v] \in Positions
    BY <1>6 DEF ReadCharge, WorkerTypes
  <2> QED
    BY <2>1, <2>2, <2>4, <2>5, <2>6
<1>7. CASE WorkerRecharge(w)
  <2>1. RowTypes'
    BY <1>7 DEF WorkerRecharge, RowTypes, WorkerTypes
  <2>2. JobTypes'
    BY <1>7 DEF WorkerRecharge, JobTypes
  <2>3. wpc' \in [Workers -> WorkerPCs]
    BY <1>7 DEF WorkerRecharge, WorkerTypes, WorkerPCs
  <2>4. WorkerTypes'
    BY <1>7, <2>3 DEF WorkerRecharge, WorkerTypes, Positions, Failed
  <2>5. RequestTypes'
    BY <1>7 DEF WorkerRecharge, RequestTypes
  <2>6. \A v \in Workers : wpc'[v] = "save" => wpos'[v] \in Positions
    BY <1>7 DEF WorkerRecharge, WorkerTypes
  <2> QED
    BY <2>1, <2>2, <2>4, <2>5, <2>6
<1>8. CASE LoadCheckpoint(w)
  <2>1. RowTypes'
    BY <1>8 DEF LoadCheckpoint, RowTypes, WorkerTypes
  <2>2. JobTypes'
    BY <1>8 DEF LoadCheckpoint, JobTypes
  <2>3. wpc' \in [Workers -> WorkerPCs]
    BY <1>8 DEF LoadCheckpoint, WorkerTypes, WorkerPCs
  <2>4. WorkerTypes'
    BY <1>8, <2>3 DEF LoadCheckpoint, WorkerTypes, RowTypes, Failed
  <2>5. RequestTypes'
    BY <1>8 DEF LoadCheckpoint, RequestTypes
  <2>6. \A v \in Workers : wpc'[v] = "save" => wpos'[v] \in Positions
    BY <1>8 DEF LoadCheckpoint, WorkerTypes
  <2> QED
    BY <2>1, <2>2, <2>4, <2>5, <2>6
<1>9. CASE StartProcessing(w)
  <2>1. RowTypes'
    BY <1>9, TypeUpdateStatus DEF StartProcessing, RowTypes, WorkerTypes, Statuses, Active, Terminal, Failed
  <2>2. JobTypes'
    BY <1>9 DEF StartProcessing, JobTypes
  <2>3. wpc' \in [Workers -> WorkerPCs]
    BY <1>9 DEF StartProcessing, WorkerTypes, WorkerPCs
  <2>4. WorkerTypes'
    BY <1>9, <2>3 DEF StartProcessing, WorkerTypes, Positions, Failed
  <2>5. RequestTypes'
    BY <1>9 DEF StartProcessing, RequestTypes
  <2>6. \A v \in Workers : wpc'[v] = "save" => wpos'[v] \in Positions
    BY <1>9 DEF StartProcessing, WorkerTypes
  <2> QED
    BY <2>1, <2>2, <2>4, <2>5, <2>6
<1>10. CASE RunPipeline(w)
  <2>1. RowTypes'
    BY <1>10 DEF RunPipeline, RowTypes, WorkerTypes
  <2>2. JobTypes'
    BY <1>10 DEF RunPipeline, JobTypes
  <2>3. wpc' \in [Workers -> WorkerPCs]
    BY <1>10 DEF RunPipeline, WorkerTypes, WorkerPCs
  <2>4. WorkerTypes'
    BY <1>10, <2>3 DEF RunPipeline, WorkerTypes, Positions, Failed
  <2>5. RequestTypes'
    BY <1>10 DEF RunPipeline, RequestTypes
  <2>6. \A v \in Workers : wpc'[v] = "save" => wpos'[v] \in Positions
    BY <1>10 DEF RunPipeline, WorkerTypes
  <2> QED
    BY <2>1, <2>2, <2>4, <2>5, <2>6
<1>11. CASE OpenPlan(w)
  <2>1. RowTypes'
    BY <1>11 DEF OpenPlan, RowTypes, WorkerTypes
  <2>2. JobTypes'
    BY <1>11 DEF OpenPlan, JobTypes
  <2>3. wpc' \in [Workers -> WorkerPCs]
    BY <1>11 DEF OpenPlan, WorkerTypes, WorkerPCs
  <2>4. WorkerTypes'
    BY <1>11, <2>3 DEF OpenPlan, WorkerTypes, Positions, Failed
  <2>5. RequestTypes'
    BY <1>11 DEF OpenPlan, RequestTypes
  <2>6. \A v \in Workers : wpc'[v] = "save" => wpos'[v] \in Positions
    BY <1>11 DEF OpenPlan, WorkerTypes
  <2> QED
    BY <2>1, <2>2, <2>4, <2>5, <2>6
<1>12. CASE SkipPosition(w)
  <2>1. RowTypes'
    BY <1>12 DEF SkipPosition, RowTypes, WorkerTypes
  <2>2. JobTypes'
    BY <1>12 DEF SkipPosition, JobTypes
  <2>3. wpc' \in [Workers -> WorkerPCs]
    BY <1>12 DEF SkipPosition, WorkerTypes, WorkerPCs
  <2>4. WorkerTypes'
    BY <1>12, <2>3 DEF SkipPosition, WorkerTypes, Positions, Failed
  <2>5. RequestTypes'
    BY <1>12 DEF SkipPosition, RequestTypes
  <2>6. \A v \in Workers : wpc'[v] = "save" => wpos'[v] \in Positions
    BY <1>12 DEF SkipPosition, WorkerTypes
  <2> QED
    BY <2>1, <2>2, <2>4, <2>5, <2>6
<1>13. CASE RenderClip(w)
  <2>1. RowTypes'
    BY <1>13 DEF RenderClip, RowTypes, WorkerTypes
  <2>2. JobTypes'
    BY <1>13 DEF RenderClip, JobTypes
  <2>3. wpc' \in [Workers -> WorkerPCs]
    BY <1>13 DEF RenderClip, WorkerTypes, WorkerPCs
  <2>4. WorkerTypes'
    <3>1. wpos' \in [Workers -> 1..(Plan + 1)]
      BY <1>13 DEF RenderClip, WorkerTypes, Positions
    <3>2. wfail' \in [Workers -> Failed]
      BY <1>13 DEF RenderClip, WorkerTypes, Failed
    <3>3. wdone' \in [Workers -> SUBSET Positions] /\ whas' \in [Workers -> BOOLEAN]
      BY <1>13 DEF RenderClip, WorkerTypes
    <3> QED
      BY <1>13, <2>3, <3>1, <3>2, <3>3 DEF RenderClip, WorkerTypes
  <2>5. RequestTypes'
    BY <1>13 DEF RenderClip, RequestTypes
  <2>6. \A v \in Workers : wpc'[v] = "save" => wpos'[v] \in Positions
    BY <1>13 DEF RenderClip, WorkerTypes
  <2> QED
    BY <2>1, <2>2, <2>4, <2>5, <2>6
<1>14. CASE SaveClip(w)
  <2>1. RowTypes'
    BY <1>14 DEF SaveClip, ClipMade, RowTypes, WorkerTypes
  <2>2. JobTypes'
    BY <1>14 DEF SaveClip, ClipMade, JobTypes
  <2>3. wpc' \in [Workers -> WorkerPCs]
    BY <1>14 DEF SaveClip, ClipMade, WorkerTypes, WorkerPCs
  <2>4. WorkerTypes'
    <3>1. wpos' \in [Workers -> 1..(Plan + 1)]
      BY <1>14 DEF SaveClip, ClipMade, WorkerTypes, Positions
    <3>2. wfail' \in [Workers -> Failed]
      BY <1>14 DEF SaveClip, ClipMade, WorkerTypes, Failed
    <3>3. wdone' \in [Workers -> SUBSET Positions] /\ whas' \in [Workers -> BOOLEAN]
      <4>1. CASE wdone' = wdone /\ whas' = whas
        BY <4>1 DEF WorkerTypes
      <4>2. CASE /\ wdone' = [wdone EXCEPT ![w] = @ \cup {wpos[w]}]
                 /\ whas' = [whas EXCEPT ![w] = TRUE]
        BY <4>2, <1>14 DEF SaveClip, WorkerTypes
      <4> QED
        BY <4>1, <4>2, <1>14 DEF SaveClip
    <3> QED
      BY <1>14, <2>3, <3>1, <3>2, <3>3 DEF SaveClip, ClipMade, WorkerTypes
  <2>5. RequestTypes'
    BY <1>14 DEF SaveClip, ClipMade, RequestTypes
  <2>6. \A v \in Workers : wpc'[v] = "save" => wpos'[v] \in Positions
    BY <1>14 DEF SaveClip, ClipMade, WorkerTypes
  <2> QED
    BY <2>1, <2>2, <2>4, <2>5, <2>6
<1>15. CASE EndRender(w)
  <2>1. RowTypes'
    BY <1>15 DEF EndRender, RowTypes, WorkerTypes
  <2>2. JobTypes'
    BY <1>15 DEF EndRender, JobTypes
  <2>3. wpc' \in [Workers -> WorkerPCs]
    BY <1>15 DEF EndRender, WorkerTypes, WorkerPCs
  <2>4. WorkerTypes'
    BY <1>15, <2>3 DEF EndRender, WorkerTypes, Positions, Failed
  <2>5. RequestTypes'
    BY <1>15 DEF EndRender, RequestTypes
  <2>6. \A v \in Workers : wpc'[v] = "save" => wpos'[v] \in Positions
    BY <1>15 DEF EndRender, WorkerTypes
  <2> QED
    BY <2>1, <2>2, <2>4, <2>5, <2>6
<1>16. CASE Complete(w)
  <2>1. RowTypes'
    BY <1>16, TypeUpdateStatus DEF Complete, RowTypes, WorkerTypes, Statuses, Active, Terminal, Failed
  <2>2. JobTypes'
    BY <1>16 DEF Complete, JobTypes
  <2>3. wpc' \in [Workers -> WorkerPCs]
    BY <1>16 DEF Complete, WorkerTypes, WorkerPCs
  <2>4. WorkerTypes'
    BY <1>16, <2>3 DEF Complete, WorkerTypes, Positions, Failed
  <2>5. RequestTypes'
    BY <1>16 DEF Complete, RequestTypes
  <2>6. \A v \in Workers : wpc'[v] = "save" => wpos'[v] \in Positions
    BY <1>16 DEF Complete, WorkerTypes
  <2> QED
    BY <2>1, <2>2, <2>4, <2>5, <2>6
<1>17. CASE SendMail(w)
  <2>1. RowTypes'
    BY <1>17 DEF SendMail, RowTypes, WorkerTypes
  <2>2. JobTypes'
    BY <1>17 DEF SendMail, JobTypes
  <2>3. wpc' \in [Workers -> WorkerPCs]
    BY <1>17 DEF SendMail, WorkerTypes, WorkerPCs
  <2>4. WorkerTypes'
    BY <1>17, <2>3 DEF SendMail, WorkerTypes, Positions, Failed
  <2>5. RequestTypes'
    BY <1>17 DEF SendMail, RequestTypes
  <2>6. \A v \in Workers : wpc'[v] = "save" => wpos'[v] \in Positions
    BY <1>17 DEF SendMail, WorkerTypes
  <2> QED
    BY <2>1, <2>2, <2>4, <2>5, <2>6
<1>18. CASE StampMail(w)
  <2>1. RowTypes'
    BY <1>18 DEF StampMail, RowTypes, WorkerTypes
  <2>2. JobTypes'
    BY <1>18 DEF StampMail, JobTypes
  <2>3. wpc' \in [Workers -> WorkerPCs]
    BY <1>18 DEF StampMail, WorkerTypes, WorkerPCs
  <2>4. WorkerTypes'
    BY <1>18, <2>3 DEF StampMail, WorkerTypes, Positions, Failed
  <2>5. RequestTypes'
    BY <1>18 DEF StampMail, RequestTypes
  <2>6. \A v \in Workers : wpc'[v] = "save" => wpos'[v] \in Positions
    BY <1>18 DEF StampMail, WorkerTypes
  <2> QED
    BY <2>1, <2>2, <2>4, <2>5, <2>6
<1>19. CASE RecordFailure(w)
  <2>1. RowTypes'
    BY <1>19, TypeUpdateStatus DEF RecordFailure, RowTypes, WorkerTypes, Statuses, Active, Terminal, Failed
  <2>2. JobTypes'
    BY <1>19 DEF RecordFailure, JobTypes
  <2>3. wpc' \in [Workers -> WorkerPCs]
    BY <1>19 DEF RecordFailure, WorkerTypes, WorkerPCs
  <2>4. WorkerTypes'
    BY <1>19, <2>3 DEF RecordFailure, WorkerTypes, Positions, Failed
  <2>5. RequestTypes'
    BY <1>19 DEF RecordFailure, RequestTypes
  <2>6. \A v \in Workers : wpc'[v] = "save" => wpos'[v] \in Positions
    BY <1>19 DEF RecordFailure, WorkerTypes
  <2> QED
    BY <2>1, <2>2, <2>4, <2>5, <2>6
<1>20. CASE ReleaseGuard(w)
  <2>1. RowTypes'
    BY <1>20 DEF ReleaseGuard, RowTypes, WorkerTypes
  <2>2. JobTypes'
    BY <1>20 DEF ReleaseGuard, JobTypes
  <2>3. wpc' \in [Workers -> WorkerPCs]
    BY <1>20 DEF ReleaseGuard, WorkerTypes, WorkerPCs
  <2>4. WorkerTypes'
    BY <1>20, <2>3 DEF ReleaseGuard, WorkerTypes, Positions, Failed
  <2>5. RequestTypes'
    BY <1>20 DEF ReleaseGuard, RequestTypes
  <2>6. \A v \in Workers : wpc'[v] = "save" => wpos'[v] \in Positions
    BY <1>20 DEF ReleaseGuard, WorkerTypes
  <2> QED
    BY <2>1, <2>2, <2>4, <2>5, <2>6
<1> QED
  BY <1>1, <1>2, <1>3, <1>4, <1>5, <1>6, <1>7, <1>8, <1>9, <1>10, <1>11, <1>12, <1>13, <1>14, <1>15, <1>16, <1>17, <1>18, <1>19, <1>20 DEF RunStep

\* So does every step.
LEMMA TypeStep == TypeInv /\ [Next]_vars => TypeInv'
<1> SUFFICES ASSUME TypeInv, [Next]_vars PROVE TypeInv'
  OBVIOUS
<1> USE DEF TypeInv, TypeOK, RowTypes, JobTypes, WorkerTypes, RequestTypes
<1>1. ASSUME NEW w \in Workers, NEW j \in Jobs, Deliver(w, j) PROVE TypeInv'
  BY <1>1, ConstantsAssumption DEF Deliver, WorkerPCs
<1>2. CASE CancelFlagExpires BY <1>2 DEF CancelFlagExpires
<1>3. CASE DeleteClip BY <1>3 DEF DeleteClip
<1>4. CASE DeleteTask BY <1>4 DEF DeleteTask, Statuses
<1>5. CASE RowAges BY <1>5 DEF RowAges
<1>6. CASE UNCHANGED vars BY <1>6
<1> QED
  BY <1>1, <1>2, <1>3, <1>4, <1>5, <1>6, TypeRequest, TypeRun DEF Next

\* Every variable keeps its type, and a worker about to save a clip stands at
\* a position of the plan.
THEOREM TypeCorrect == Spec => []TypeOK
<1>1. TypeInv => TypeOK
  BY DEF TypeInv
<1> QED
  BY <1>1, TypeInit, TypeStep, PTL DEF Spec

\* Whoever stands between acquiring and releasing the run guard is its owner.
GuardInv ==
    /\ \A w \in Workers : wpc[w] \in WorkerHolds => owner = w
    /\ \A r \in Requests : rpc[r] \in RequestHolds => owner = r

\* Only ResumeLock and AcquireGuard take the guard, and only when it is free.
LEMMA GuardStep ==
  ASSUME TypeInv, GuardInv, [Next]_vars
  PROVE  GuardInv'
<1> USE ConstantsAssumption DEF TypeInv, TypeOK, JobTypes, WorkerTypes, RequestTypes,
    GuardInv, WorkerHolds, RequestHolds, WorkerPCs
<1>1. ASSUME NEW r \in Requests, RequestBegins(r) \/ RequestStep(r) \/ RequestCrash(r)
      PROVE  GuardInv'
  <2>1. CASE CreateTask(r) BY <2>1 DEF CreateTask
  <2>2. CASE CancelRead(r) BY <2>2 DEF CancelRead
  <2>3. CASE ResumeLock(r) BY <2>3 DEF ResumeLock
  <2>4. CASE ReadTask(r) BY <2>4 DEF ReadTask
  <2>5. CASE ReserveJob(r) BY <2>5 DEF ReserveJob
  <2>6. CASE Enqueue(r) BY <2>6 DEF Enqueue
  <2>7. CASE QueueingFails(r) BY <2>7 DEF QueueingFails
  <2>8. CASE UndoQueueing(r) BY <2>8 DEF UndoQueueing
  <2>9. CASE CancelSetFlag(r) BY <2>9 DEF CancelSetFlag
  <2>10. CASE CancelUpdate(r) BY <2>10 DEF CancelUpdate
  <2>11. CASE ResumeRead(r) BY <2>11 DEF ResumeRead
  <2>12. CASE ResumeCharge(r) BY <2>12 DEF ResumeCharge
  <2>13. CASE ResumeClearFlag(r) BY <2>13 DEF ResumeClearFlag
  <2>14. CASE ResumeRequeue(r) BY <2>14 DEF ResumeRequeue
  <2>15. CASE ResumeRelease(r) BY <2>15 DEF ResumeRelease
  <2>16. CASE SweepLoadJobId(r) BY <2>16 DEF SweepLoadJobId
  <2>17. CASE SweepCheckJob(r) BY <2>17 DEF SweepCheckJob
  <2>18. CASE SweepUpdate(r) BY <2>18 DEF SweepUpdate
  <2>19. CASE RequestCrash(r) BY <2>19 DEF RequestCrash
  <2> QED
    BY <1>1, <2>1, <2>2, <2>3, <2>4, <2>5, <2>6, <2>7, <2>8, <2>9, <2>10, <2>11, <2>12,
        <2>13, <2>14, <2>15, <2>16, <2>17, <2>18, <2>19 DEF RequestBegins, RequestStep
<1>2. ASSUME NEW w \in Workers, RunStep(w) \/ WorkerStops(w)
      PROVE  GuardInv'
  <2>1. CASE AcquireGuard(w) BY <2>1 DEF AcquireGuard
  <2>2. CASE CheckStatus(w) BY <2>2 DEF CheckStatus
  <2>3. CASE Begin(w) BY <2>3 DEF Begin
  <2>4. CASE ReadCharge(w) BY <2>4 DEF ReadCharge
  <2>5. CASE WorkerRecharge(w) BY <2>5 DEF WorkerRecharge
  <2>6. CASE LoadCheckpoint(w) BY <2>6 DEF LoadCheckpoint
  <2>7. CASE StartProcessing(w) BY <2>7 DEF StartProcessing
  <2>8. CASE RunPipeline(w) BY <2>8 DEF RunPipeline
  <2>9. CASE OpenPlan(w) BY <2>9 DEF OpenPlan
  <2>10. CASE SkipPosition(w) BY <2>10 DEF SkipPosition
  <2>11. CASE RenderClip(w) BY <2>11 DEF RenderClip
  <2>12. CASE SaveClip(w) BY <2>12 DEF SaveClip
  <2>13. CASE EndRender(w) BY <2>13 DEF EndRender
  <2>14. CASE Complete(w) BY <2>14 DEF Complete
  <2>15. CASE SendMail(w) BY <2>15 DEF SendMail
  <2>16. CASE StampMail(w) BY <2>16 DEF StampMail
  <2>17. CASE RecordFailure(w) BY <2>17 DEF RecordFailure
  <2>18. CASE ReleaseGuard(w) BY <2>18 DEF ReleaseGuard
  <2>19. CASE JobEnds(w) BY <2>19 DEF JobEnds
  <2>20. CASE WorkerStops(w) BY <2>20 DEF WorkerStops
  <2> QED
    BY <1>2, <2>1, <2>2, <2>3, <2>4, <2>5, <2>6, <2>7, <2>8, <2>9, <2>10, <2>11, <2>12,
        <2>13, <2>14, <2>15, <2>16, <2>17, <2>18, <2>19, <2>20 DEF RunStep
<1>3. ASSUME NEW w \in Workers, NEW j \in Jobs, Deliver(w, j)
      PROVE  GuardInv'
  BY <1>3 DEF Deliver
<1>4. CASE CancelFlagExpires BY <1>4 DEF CancelFlagExpires
<1>5. CASE DeleteClip BY <1>5 DEF DeleteClip
<1>6. CASE DeleteTask BY <1>6 DEF DeleteTask
<1>7. CASE RowAges BY <1>7 DEF RowAges
<1>8. CASE UNCHANGED vars BY <1>8
<1> QED
  BY <1>1, <1>2, <1>3, <1>4, <1>5, <1>6, <1>7, <1>8 DEF Next


\* Work in progress is charged; a run that found or wrote the charge keeps it
\* while the task is active; a resume that has passed its checks still sees the
\* status it was resumed from, and the charge it made.
PaidInv ==
    /\ PaidWork
    /\ \A w \in Workers : wpc[w] \in {"load", "start"} /\ status \in Active => charge = "active"
    /\ \A r \in Requests : rpc[r] \in {"resumeCharge", "resumeFlag", "resumeRow"} =>
          status \in {rold[r], "deleted"}
    /\ \A r \in Requests : rpc[r] \in {"resumeFlag", "resumeRow"} /\ status # "deleted" =>
          charge = "active"

\* Refund, recharge and status keep step with each other in every handler.
LEMMA PaidStep ==
  ASSUME TypeInv, GuardInv, PaidInv, [Next]_vars
  PROVE  PaidInv'
<1> USE ConstantsAssumption DEF TypeInv, TypeOK, RowTypes, WorkerTypes, RequestTypes,
    PaidInv, PaidWork, GuardInv, WorkerHolds, RequestHolds, WorkerPCs, Active, Failed,
    Terminal
<1>1. ASSUME NEW r \in Requests, RequestBegins(r) \/ RequestStep(r) \/ RequestCrash(r)
      PROVE  PaidInv'
  <2>1. CASE CreateTask(r) BY <2>1 DEF CreateTask
  <2>2. CASE CancelRead(r) BY <2>2 DEF CancelRead
  <2>3. CASE ResumeLock(r) BY <2>3 DEF ResumeLock
  <2>4. CASE ReadTask(r) BY <2>4 DEF ReadTask
  <2>5. CASE ReserveJob(r) BY <2>5 DEF ReserveJob, Exists
  <2>6. CASE Enqueue(r) BY <2>6 DEF Enqueue
  <2>7. CASE QueueingFails(r) BY <2>7 DEF QueueingFails
  <2>8. CASE UndoQueueing(r) BY <2>8 DEF UndoQueueing, UpdateStatus, RefundFailed
  <2>9. CASE CancelSetFlag(r) BY <2>9 DEF CancelSetFlag
  <2>10. CASE CancelUpdate(r) BY <2>10 DEF CancelUpdate, UpdateStatus, RefundFailed
  <2>11. CASE ResumeRead(r) BY <2>11 DEF ResumeRead
  <2>12. CASE ResumeCharge(r) BY <2>12 DEF ResumeCharge, Exists
  <2>13. CASE ResumeClearFlag(r) BY <2>13 DEF ResumeClearFlag
  <2>14. CASE ResumeRequeue(r) BY <2>14 DEF ResumeRequeue, UpdateStatus, RefundFailed
  <2>15. CASE ResumeRelease(r) BY <2>15 DEF ResumeRelease
  <2>16. CASE SweepLoadJobId(r) BY <2>16 DEF SweepLoadJobId
  <2>17. CASE SweepCheckJob(r) BY <2>17 DEF SweepCheckJob
  <2>18. CASE SweepUpdate(r) BY <2>18 DEF SweepUpdate, UpdateStatus, RefundFailed
  <2>19. CASE RequestCrash(r) BY <2>19 DEF RequestCrash
  <2> QED
    BY <1>1, <2>1, <2>2, <2>3, <2>4, <2>5, <2>6, <2>7, <2>8, <2>9, <2>10, <2>11, <2>12,
        <2>13, <2>14, <2>15, <2>16, <2>17, <2>18, <2>19 DEF RequestBegins, RequestStep
<1>2. ASSUME NEW w \in Workers, RunStep(w) \/ WorkerStops(w)
      PROVE  PaidInv'
  <2>1. CASE AcquireGuard(w) BY <2>1 DEF AcquireGuard
  <2>2. CASE CheckStatus(w) BY <2>2 DEF CheckStatus, Exists
  <2>3. CASE Begin(w) BY <2>3 DEF Begin
  <2>4. CASE ReadCharge(w) BY <2>4 DEF ReadCharge
  <2>5. CASE WorkerRecharge(w) BY <2>5 DEF WorkerRecharge
  <2>6. CASE LoadCheckpoint(w) BY <2>6 DEF LoadCheckpoint
  <2>7. CASE StartProcessing(w) BY <2>7 DEF StartProcessing, UpdateStatus, RefundFailed
  <2>8. CASE RunPipeline(w) BY <2>8 DEF RunPipeline
  <2>9. CASE OpenPlan(w) BY <2>9 DEF OpenPlan
  <2>10. CASE SkipPosition(w) BY <2>10 DEF SkipPosition
  <2>11. CASE RenderClip(w) BY <2>11 DEF RenderClip
  <2>12. CASE SaveClip(w) BY <2>12 DEF SaveClip, ClipMade
  <2>13. CASE EndRender(w) BY <2>13 DEF EndRender
  <2>14. CASE Complete(w) BY <2>14 DEF Complete, UpdateStatus, RefundFailed
  <2>15. CASE SendMail(w) BY <2>15 DEF SendMail
  <2>16. CASE StampMail(w) BY <2>16 DEF StampMail, Exists
  <2>17. CASE RecordFailure(w) BY <2>17 DEF RecordFailure, UpdateStatus, RefundFailed
  <2>18. CASE ReleaseGuard(w) BY <2>18 DEF ReleaseGuard
  <2>19. CASE JobEnds(w) BY <2>19 DEF JobEnds
  <2>20. CASE WorkerStops(w) BY <2>20 DEF WorkerStops
  <2> QED
    BY <1>2, <2>1, <2>2, <2>3, <2>4, <2>5, <2>6, <2>7, <2>8, <2>9, <2>10, <2>11, <2>12,
        <2>13, <2>14, <2>15, <2>16, <2>17, <2>18, <2>19, <2>20 DEF RunStep
<1>3. ASSUME NEW w \in Workers, NEW j \in Jobs, Deliver(w, j)
      PROVE  PaidInv'
  BY <1>3 DEF Deliver
<1>4. CASE CancelFlagExpires BY <1>4 DEF CancelFlagExpires
<1>5. CASE DeleteClip BY <1>5 DEF DeleteClip, Editable
<1>6. CASE DeleteTask BY <1>6 DEF DeleteTask, Editable, Exists
<1>7. CASE RowAges BY <1>7 DEF RowAges
<1>8. CASE UNCHANGED vars BY <1>8
<1> QED
  BY <1>1, <1>2, <1>3, <1>4, <1>5, <1>6, <1>7, <1>8 DEF Next


\* The checkpoint holds exactly the positions that made a clip, once each; a run
\* that has read it knows the same positions, and saves only an unknown one.
CkptInv ==
    /\ \A p \in Positions : made[p] \in {0, 1}
    /\ status # "deleted" => \A p \in Positions : made[p] = 1 <=> p \in ckpt
    /\ status # "deleted" => clips \subseteq ckpt
    /\ \A w \in Workers :
          wpc[w] \in {"start", "pipeline", "open", "render", "save", "publish"}
              => status = "deleted" \/ wdone[w] = ckpt
    /\ \A w \in Workers : wpc[w] = "save" => wpos[w] \notin wdone[w]

\* Clip and completed position are committed by one step, of one run.
LEMMA CkptStep ==
  ASSUME TypeInv, GuardInv, CkptInv, [Next]_vars
  PROVE  CkptInv'
<1> USE ConstantsAssumption DEF TypeInv, TypeOK, RowTypes, WorkerTypes, RequestTypes,
    CkptInv, GuardInv, WorkerHolds, RequestHolds, WorkerPCs
<1>1. ASSUME NEW r \in Requests, RequestBegins(r) \/ RequestStep(r) \/ RequestCrash(r)
      PROVE  CkptInv'
  <2>1. CASE CreateTask(r) BY <2>1 DEF CreateTask
  <2>2. CASE CancelRead(r) BY <2>2 DEF CancelRead
  <2>3. CASE ResumeLock(r) BY <2>3 DEF ResumeLock
  <2>4. CASE ReadTask(r) BY <2>4 DEF ReadTask
  <2>5. CASE ReserveJob(r) BY <2>5 DEF ReserveJob, Exists
  <2>6. CASE Enqueue(r) BY <2>6 DEF Enqueue
  <2>7. CASE QueueingFails(r) BY <2>7 DEF QueueingFails
  <2>8. CASE UndoQueueing(r) BY <2>8 DEF UndoQueueing, UpdateStatus, RefundFailed
  <2>9. CASE CancelSetFlag(r) BY <2>9 DEF CancelSetFlag
  <2>10. CASE CancelUpdate(r) BY <2>10 DEF CancelUpdate, UpdateStatus, RefundFailed, Active, Failed
  <2>11. CASE ResumeRead(r) BY <2>11 DEF ResumeRead
  <2>12. CASE ResumeCharge(r) BY <2>12 DEF ResumeCharge, Exists
  <2>13. CASE ResumeClearFlag(r) BY <2>13 DEF ResumeClearFlag
  <2>14. CASE ResumeRequeue(r) BY <2>14 DEF ResumeRequeue, UpdateStatus, RefundFailed
  <2>15. CASE ResumeRelease(r) BY <2>15 DEF ResumeRelease
  <2>16. CASE SweepLoadJobId(r) BY <2>16 DEF SweepLoadJobId
  <2>17. CASE SweepCheckJob(r) BY <2>17 DEF SweepCheckJob
  <2>18. CASE SweepUpdate(r) BY <2>18 DEF SweepUpdate, UpdateStatus, RefundFailed
  <2>19. CASE RequestCrash(r) BY <2>19 DEF RequestCrash
  <2> QED
    BY <1>1, <2>1, <2>2, <2>3, <2>4, <2>5, <2>6, <2>7, <2>8, <2>9, <2>10, <2>11, <2>12,
        <2>13, <2>14, <2>15, <2>16, <2>17, <2>18, <2>19 DEF RequestBegins, RequestStep
<1>2. ASSUME NEW w \in Workers, RunStep(w) \/ WorkerStops(w)
      PROVE  CkptInv'
  <2>1. CASE AcquireGuard(w) BY <2>1 DEF AcquireGuard
  <2>2. CASE CheckStatus(w) BY <2>2 DEF CheckStatus, Exists
  <2>3. CASE Begin(w) BY <2>3 DEF Begin
  <2>4. CASE ReadCharge(w) BY <2>4 DEF ReadCharge
  <2>5. CASE WorkerRecharge(w) BY <2>5 DEF WorkerRecharge
  <2>6. CASE LoadCheckpoint(w) BY <2>6 DEF LoadCheckpoint
  <2>7. CASE StartProcessing(w) BY <2>7 DEF StartProcessing, UpdateStatus, RefundFailed, Active, Failed
  <2>8. CASE RunPipeline(w) BY <2>8 DEF RunPipeline
  <2>9. CASE OpenPlan(w) BY <2>9 DEF OpenPlan
  <2>10. CASE SkipPosition(w) BY <2>10 DEF SkipPosition
  <2>11. CASE RenderClip(w) BY <2>11 DEF RenderClip
  <2>12. CASE SaveClip(w)
    <3>1. CASE /\ status = "processing" /\ ckpt' = wdone[w] \cup {wpos[w]}
               /\ clips' = clips \cup {wpos[w]} /\ ClipMade(wpos[w])
               /\ wdone' = [wdone EXCEPT ![w] = @ \cup {wpos[w]}]
               /\ WGoto(w, "render")
      <4>1. /\ status = "processing" /\ status' = status /\ wdone[w] = ckpt
            /\ wpos[w] \in Positions /\ wpos[w] \notin ckpt
            /\ clips' \subseteq clips \cup {wpos[w]}
        BY <2>12, <3>1 DEF SaveClip
      <4>2. made' = [made EXCEPT ![wpos[w]] = @ + 1]
        BY <3>1 DEF ClipMade
      <4>3. \A p \in Positions : made'[p] \in {0, 1} /\ (made'[p] = 1 <=> p \in ckpt')
        BY <3>1, <4>1, <4>2
      <4>4. wdone'[w] = ckpt' /\ wpc'[w] # "save" /\ clips' \subseteq ckpt'
        BY <2>12, <3>1, <4>1 DEF SaveClip
      <4>5. \A v \in Workers \ {w} : wpc'[v] = wpc[v] /\ wpc[v] \notin WorkerHolds
        BY <2>12, <3>1 DEF SaveClip
      <4> QED
        BY <4>1, <4>3, <4>4, <4>5
    <3>2. CASE UNCHANGED <<clips, ckpt, made, wdone, whas, wpos>>
      BY <2>12, <3>2 DEF SaveClip
    <3> QED
      BY <2>12, <3>1, <3>2 DEF SaveClip
  <2>13. CASE EndRender(w) BY <2>13 DEF EndRender
  <2>14. CASE Complete(w) BY <2>14 DEF Complete, UpdateStatus, RefundFailed
  <2>15. CASE SendMail(w) BY <2>15 DEF SendMail
  <2>16. CASE StampMail(w) BY <2>16 DEF StampMail, Exists
  <2>17. CASE RecordFailure(w) BY <2>17 DEF RecordFailure, UpdateStatus, RefundFailed, Active, Failed
  <2>18. CASE ReleaseGuard(w) BY <2>18 DEF ReleaseGuard
  <2>19. CASE JobEnds(w) BY <2>19 DEF JobEnds
  <2>20. CASE WorkerStops(w) BY <2>20 DEF WorkerStops
  <2> QED
    BY <1>2, <2>1, <2>2, <2>3, <2>4, <2>5, <2>6, <2>7, <2>8, <2>9, <2>10, <2>11, <2>12,
        <2>13, <2>14, <2>15, <2>16, <2>17, <2>18, <2>19, <2>20 DEF RunStep
<1>3. ASSUME NEW w \in Workers, NEW j \in Jobs, Deliver(w, j)
      PROVE  CkptInv'
  BY <1>3 DEF Deliver
<1>4. CASE CancelFlagExpires BY <1>4 DEF CancelFlagExpires
<1>5. CASE DeleteClip BY <1>5 DEF DeleteClip, Editable
<1>6. CASE DeleteTask BY <1>6 DEF DeleteTask, Editable, Exists
<1>7. CASE RowAges BY <1>7 DEF RowAges
<1>8. CASE UNCHANGED vars BY <1>8
<1> QED
  BY <1>1, <1>2, <1>3, <1>4, <1>5, <1>6, <1>7, <1>8 DEF Next


\* An email was sent only for a completed task, and the run that completed it
\* is the first to send one.
MailInv ==
    /\ mailed \in {0, 1}
    /\ mailed = 1 => status \in {"completed", "deleted"}
    /\ \A w \in Workers : wpc[w] = "mail" => mailed = 0 /\ status \in {"completed", "deleted"}

\* Completion and its email happen once, under the run guard.
LEMMA MailStep ==
  ASSUME TypeInv, GuardInv, PaidInv, MailInv, [Next]_vars
  PROVE  MailInv'
<1> USE ConstantsAssumption DEF TypeInv, TypeOK, RowTypes, WorkerTypes, RequestTypes,
    MailInv, PaidInv, GuardInv, WorkerHolds, RequestHolds, WorkerPCs, Active, Failed,
    Terminal
<1>1. ASSUME NEW r \in Requests, RequestBegins(r) \/ RequestStep(r) \/ RequestCrash(r)
      PROVE  MailInv'
  <2>1. CASE CreateTask(r) BY <2>1 DEF CreateTask
  <2>2. CASE CancelRead(r) BY <2>2 DEF CancelRead
  <2>3. CASE ResumeLock(r) BY <2>3 DEF ResumeLock
  <2>4. CASE ReadTask(r) BY <2>4 DEF ReadTask
  <2>5. CASE ReserveJob(r) BY <2>5 DEF ReserveJob, Exists
  <2>6. CASE Enqueue(r) BY <2>6 DEF Enqueue
  <2>7. CASE QueueingFails(r) BY <2>7 DEF QueueingFails
  <2>8. CASE UndoQueueing(r) BY <2>8 DEF UndoQueueing, UpdateStatus, RefundFailed
  <2>9. CASE CancelSetFlag(r) BY <2>9 DEF CancelSetFlag
  <2>10. CASE CancelUpdate(r) BY <2>10 DEF CancelUpdate, UpdateStatus, RefundFailed
  <2>11. CASE ResumeRead(r) BY <2>11 DEF ResumeRead
  <2>12. CASE ResumeCharge(r) BY <2>12 DEF ResumeCharge, Exists
  <2>13. CASE ResumeClearFlag(r) BY <2>13 DEF ResumeClearFlag
  <2>14. CASE ResumeRequeue(r) BY <2>14 DEF ResumeRequeue, UpdateStatus, RefundFailed
  <2>15. CASE ResumeRelease(r) BY <2>15 DEF ResumeRelease
  <2>16. CASE SweepLoadJobId(r) BY <2>16 DEF SweepLoadJobId
  <2>17. CASE SweepCheckJob(r) BY <2>17 DEF SweepCheckJob
  <2>18. CASE SweepUpdate(r) BY <2>18 DEF SweepUpdate, UpdateStatus, RefundFailed
  <2>19. CASE RequestCrash(r) BY <2>19 DEF RequestCrash
  <2> QED
    BY <1>1, <2>1, <2>2, <2>3, <2>4, <2>5, <2>6, <2>7, <2>8, <2>9, <2>10, <2>11, <2>12,
        <2>13, <2>14, <2>15, <2>16, <2>17, <2>18, <2>19 DEF RequestBegins, RequestStep
<1>2. ASSUME NEW w \in Workers, RunStep(w) \/ WorkerStops(w)
      PROVE  MailInv'
  <2>1. CASE AcquireGuard(w) BY <2>1 DEF AcquireGuard
  <2>2. CASE CheckStatus(w) BY <2>2 DEF CheckStatus, Exists
  <2>3. CASE Begin(w) BY <2>3 DEF Begin
  <2>4. CASE ReadCharge(w) BY <2>4 DEF ReadCharge
  <2>5. CASE WorkerRecharge(w) BY <2>5 DEF WorkerRecharge
  <2>6. CASE LoadCheckpoint(w) BY <2>6 DEF LoadCheckpoint
  <2>7. CASE StartProcessing(w) BY <2>7 DEF StartProcessing, UpdateStatus, RefundFailed
  <2>8. CASE RunPipeline(w) BY <2>8 DEF RunPipeline
  <2>9. CASE OpenPlan(w) BY <2>9 DEF OpenPlan
  <2>10. CASE SkipPosition(w) BY <2>10 DEF SkipPosition
  <2>11. CASE RenderClip(w) BY <2>11 DEF RenderClip
  <2>12. CASE SaveClip(w) BY <2>12 DEF SaveClip, ClipMade
  <2>13. CASE EndRender(w) BY <2>13 DEF EndRender
  <2>14. CASE Complete(w) BY <2>14 DEF Complete, UpdateStatus, RefundFailed
  <2>15. CASE SendMail(w) BY <2>15 DEF SendMail
  <2>16. CASE StampMail(w) BY <2>16 DEF StampMail, Exists
  <2>17. CASE RecordFailure(w) BY <2>17 DEF RecordFailure, UpdateStatus, RefundFailed
  <2>18. CASE ReleaseGuard(w) BY <2>18 DEF ReleaseGuard
  <2>19. CASE JobEnds(w) BY <2>19 DEF JobEnds
  <2>20. CASE WorkerStops(w) BY <2>20 DEF WorkerStops
  <2> QED
    BY <1>2, <2>1, <2>2, <2>3, <2>4, <2>5, <2>6, <2>7, <2>8, <2>9, <2>10, <2>11, <2>12,
        <2>13, <2>14, <2>15, <2>16, <2>17, <2>18, <2>19, <2>20 DEF RunStep
<1>3. ASSUME NEW w \in Workers, NEW j \in Jobs, Deliver(w, j)
      PROVE  MailInv'
  BY <1>3 DEF Deliver
<1>4. CASE CancelFlagExpires BY <1>4 DEF CancelFlagExpires
<1>5. CASE DeleteClip BY <1>5 DEF DeleteClip, Editable
<1>6. CASE DeleteTask BY <1>6 DEF DeleteTask, Editable, Exists
<1>7. CASE RowAges BY <1>7 DEF RowAges
<1>8. CASE UNCHANGED vars BY <1>8
<1> QED
  BY <1>1, <1>2, <1>3, <1>4, <1>5, <1>6, <1>7, <1>8 DEF Next


\* What a run believes about saved output is true: it completes a task only if
\* some position has made a clip.
OutputInv ==
    \A w \in Workers :
        /\ whas[w] => \E p \in Positions : made[p] = 1
        /\ wpc[w] = "publish" => whas[w]

\* A run believes it has output only after one of its positions made a clip.
LEMMA OutputStep ==
  ASSUME TypeInv, CkptInv, GuardInv, OutputInv, [Next]_vars
  PROVE  OutputInv'
<1> USE ConstantsAssumption DEF TypeInv, TypeOK, RowTypes, WorkerTypes, CkptInv, OutputInv
<1>1. ASSUME NEW r \in Requests, RequestBegins(r) \/ RequestStep(r) \/ RequestCrash(r)
      PROVE  OutputInv'
  <2>1. CASE CreateTask(r) BY <2>1 DEF CreateTask
  <2>2. CASE CancelRead(r) BY <2>2 DEF CancelRead
  <2>3. CASE ResumeLock(r) BY <2>3 DEF ResumeLock
  <2>4. CASE ReadTask(r) BY <2>4 DEF ReadTask
  <2>5. CASE ReserveJob(r) BY <2>5 DEF ReserveJob, Exists
  <2>6. CASE Enqueue(r) BY <2>6 DEF Enqueue
  <2>7. CASE QueueingFails(r) BY <2>7 DEF QueueingFails
  <2>8. CASE UndoQueueing(r) BY <2>8 DEF UndoQueueing, UpdateStatus, RefundFailed
  <2>9. CASE CancelSetFlag(r) BY <2>9 DEF CancelSetFlag
  <2>10. CASE CancelUpdate(r) BY <2>10 DEF CancelUpdate, UpdateStatus, RefundFailed
  <2>11. CASE ResumeRead(r) BY <2>11 DEF ResumeRead
  <2>12. CASE ResumeCharge(r) BY <2>12 DEF ResumeCharge, Exists
  <2>13. CASE ResumeClearFlag(r) BY <2>13 DEF ResumeClearFlag
  <2>14. CASE ResumeRequeue(r) BY <2>14 DEF ResumeRequeue, UpdateStatus, RefundFailed
  <2>15. CASE ResumeRelease(r) BY <2>15 DEF ResumeRelease
  <2>16. CASE SweepLoadJobId(r) BY <2>16 DEF SweepLoadJobId
  <2>17. CASE SweepCheckJob(r) BY <2>17 DEF SweepCheckJob
  <2>18. CASE SweepUpdate(r) BY <2>18 DEF SweepUpdate, UpdateStatus, RefundFailed
  <2>19. CASE RequestCrash(r) BY <2>19 DEF RequestCrash
  <2> QED
    BY <1>1, <2>1, <2>2, <2>3, <2>4, <2>5, <2>6, <2>7, <2>8, <2>9, <2>10, <2>11, <2>12,
        <2>13, <2>14, <2>15, <2>16, <2>17, <2>18, <2>19 DEF RequestBegins, RequestStep
<1>2. ASSUME NEW w \in Workers, RunStep(w) \/ WorkerStops(w)
      PROVE  OutputInv'
  <2>1. CASE AcquireGuard(w) BY <2>1 DEF AcquireGuard
  <2>2. CASE CheckStatus(w) BY <2>2 DEF CheckStatus, Exists
  <2>3. CASE Begin(w) BY <2>3 DEF Begin
  <2>4. CASE ReadCharge(w) BY <2>4 DEF ReadCharge
  <2>5. CASE WorkerRecharge(w) BY <2>5 DEF WorkerRecharge
  <2>6. CASE LoadCheckpoint(w) BY <2>6 DEF LoadCheckpoint
  <2>7. CASE StartProcessing(w) BY <2>7 DEF StartProcessing, UpdateStatus, RefundFailed
  <2>8. CASE RunPipeline(w) BY <2>8 DEF RunPipeline
  <2>9. CASE OpenPlan(w) BY <2>9 DEF OpenPlan
  <2>10. CASE SkipPosition(w) BY <2>10 DEF SkipPosition
  <2>11. CASE RenderClip(w) BY <2>11 DEF RenderClip
  <2>12. CASE SaveClip(w) BY <2>12 DEF SaveClip, ClipMade
  <2>13. CASE EndRender(w) BY <2>13 DEF EndRender
  <2>14. CASE Complete(w) BY <2>14 DEF Complete, UpdateStatus, RefundFailed
  <2>15. CASE SendMail(w) BY <2>15 DEF SendMail
  <2>16. CASE StampMail(w) BY <2>16 DEF StampMail, Exists
  <2>17. CASE RecordFailure(w) BY <2>17 DEF RecordFailure, UpdateStatus, RefundFailed
  <2>18. CASE ReleaseGuard(w) BY <2>18 DEF ReleaseGuard
  <2>19. CASE JobEnds(w) BY <2>19 DEF JobEnds
  <2>20. CASE WorkerStops(w) BY <2>20 DEF WorkerStops
  <2> QED
    BY <1>2, <2>1, <2>2, <2>3, <2>4, <2>5, <2>6, <2>7, <2>8, <2>9, <2>10, <2>11, <2>12,
        <2>13, <2>14, <2>15, <2>16, <2>17, <2>18, <2>19, <2>20 DEF RunStep
<1>3. ASSUME NEW w \in Workers, NEW j \in Jobs, Deliver(w, j)
      PROVE  OutputInv'
  BY <1>3 DEF Deliver
<1>4. CASE CancelFlagExpires BY <1>4 DEF CancelFlagExpires
<1>5. CASE DeleteClip BY <1>5 DEF DeleteClip, Editable
<1>6. CASE DeleteTask BY <1>6 DEF DeleteTask, Editable, Exists
<1>7. CASE RowAges BY <1>7 DEF RowAges
<1>8. CASE UNCHANGED vars BY <1>8
<1> QED
  BY <1>1, <1>2, <1>3, <1>4, <1>5, <1>6, <1>7, <1>8 DEF Next


\* A resume that failed to queue its job restores the very status under which
\* its charge is still open, so its undo releases the minutes.
RefundInv ==
    /\ FailureReleasesMinutesOrRetry
    /\ \A r \in Requests :
          rpc[r] = "resumeUndo" /\ FailedWithoutOutput /\ charge = "active"
              => lostRetry \/ status = rold[r]

\* What a resume restores when it cannot queue its job is what it found.
LEMMA RefundStep ==
  ASSUME TypeInv, GuardInv, PaidInv, CkptInv, RefundInv, [Next]_vars
  PROVE  RefundInv'
<1> USE ConstantsAssumption DEF TypeInv, TypeOK, RowTypes, WorkerTypes, RequestTypes,
    RefundInv, FailureReleasesMinutesOrRetry, FailedWithoutOutput, PaidInv, CkptInv,
    GuardInv, RequestHolds, Active, Failed, Terminal
<1>1. ASSUME NEW r \in Requests, RequestBegins(r) \/ RequestStep(r) \/ RequestCrash(r)
      PROVE  RefundInv'
  <2>1. CASE CreateTask(r) BY <2>1 DEF CreateTask
  <2>2. CASE CancelRead(r) BY <2>2 DEF CancelRead
  <2>3. CASE ResumeLock(r) BY <2>3 DEF ResumeLock
  <2>4. CASE ReadTask(r) BY <2>4 DEF ReadTask
  <2>5. CASE ReserveJob(r) BY <2>5 DEF ReserveJob, Exists
  <2>6. CASE Enqueue(r) BY <2>6 DEF Enqueue
  <2>7. CASE QueueingFails(r) BY <2>7 DEF QueueingFails
  <2>8. CASE UndoQueueing(r) BY <2>8 DEF UndoQueueing, UpdateStatus, RefundFailed
  <2>9. CASE CancelSetFlag(r) BY <2>9 DEF CancelSetFlag
  <2>10. CASE CancelUpdate(r) BY <2>10 DEF CancelUpdate, UpdateStatus, RefundFailed
  <2>11. CASE ResumeRead(r) BY <2>11 DEF ResumeRead
  <2>12. CASE ResumeCharge(r) BY <2>12 DEF ResumeCharge, Exists
  <2>13. CASE ResumeClearFlag(r) BY <2>13 DEF ResumeClearFlag
  <2>14. CASE ResumeRequeue(r) BY <2>14 DEF ResumeRequeue, UpdateStatus, RefundFailed
  <2>15. CASE ResumeRelease(r) BY <2>15 DEF ResumeRelease
  <2>16. CASE SweepLoadJobId(r) BY <2>16 DEF SweepLoadJobId
  <2>17. CASE SweepCheckJob(r) BY <2>17 DEF SweepCheckJob
  <2>18. CASE SweepUpdate(r) BY <2>18 DEF SweepUpdate, UpdateStatus, RefundFailed
  <2>19. CASE RequestCrash(r) BY <2>19 DEF RequestCrash
  <2> QED
    BY <1>1, <2>1, <2>2, <2>3, <2>4, <2>5, <2>6, <2>7, <2>8, <2>9, <2>10, <2>11, <2>12,
        <2>13, <2>14, <2>15, <2>16, <2>17, <2>18, <2>19 DEF RequestBegins, RequestStep
<1>2. ASSUME NEW w \in Workers, RunStep(w) \/ WorkerStops(w)
      PROVE  RefundInv'
  <2>1. CASE AcquireGuard(w) BY <2>1 DEF AcquireGuard
  <2>2. CASE CheckStatus(w) BY <2>2 DEF CheckStatus, Exists
  <2>3. CASE Begin(w) BY <2>3 DEF Begin
  <2>4. CASE ReadCharge(w) BY <2>4 DEF ReadCharge
  <2>5. CASE WorkerRecharge(w) BY <2>5 DEF WorkerRecharge
  <2>6. CASE LoadCheckpoint(w) BY <2>6 DEF LoadCheckpoint
  <2>7. CASE StartProcessing(w) BY <2>7 DEF StartProcessing, UpdateStatus, RefundFailed
  <2>8. CASE RunPipeline(w) BY <2>8 DEF RunPipeline
  <2>9. CASE OpenPlan(w) BY <2>9 DEF OpenPlan
  <2>10. CASE SkipPosition(w) BY <2>10 DEF SkipPosition
  <2>11. CASE RenderClip(w) BY <2>11 DEF RenderClip
  <2>12. CASE SaveClip(w) BY <2>12 DEF SaveClip, ClipMade
  <2>13. CASE EndRender(w) BY <2>13 DEF EndRender
  <2>14. CASE Complete(w) BY <2>14 DEF Complete, UpdateStatus, RefundFailed
  <2>15. CASE SendMail(w) BY <2>15 DEF SendMail
  <2>16. CASE StampMail(w) BY <2>16 DEF StampMail, Exists
  <2>17. CASE RecordFailure(w) BY <2>17 DEF RecordFailure, UpdateStatus, RefundFailed
  <2>18. CASE ReleaseGuard(w) BY <2>18 DEF ReleaseGuard
  <2>19. CASE JobEnds(w) BY <2>19 DEF JobEnds
  <2>20. CASE WorkerStops(w) BY <2>20 DEF WorkerStops
  <2> QED
    BY <1>2, <2>1, <2>2, <2>3, <2>4, <2>5, <2>6, <2>7, <2>8, <2>9, <2>10, <2>11, <2>12,
        <2>13, <2>14, <2>15, <2>16, <2>17, <2>18, <2>19, <2>20 DEF RunStep
<1>3. ASSUME NEW w \in Workers, NEW j \in Jobs, Deliver(w, j)
      PROVE  RefundInv'
  BY <1>3 DEF Deliver
<1>4. CASE CancelFlagExpires BY <1>4 DEF CancelFlagExpires
<1>5. CASE DeleteClip BY <1>5 DEF DeleteClip, Editable
<1>6. CASE DeleteTask BY <1>6 DEF DeleteTask, Editable, Exists
<1>7. CASE RowAges BY <1>7 DEF RowAges
<1>8. CASE UNCHANGED vars BY <1>8
<1> QED
  BY <1>1, <1>2, <1>3, <1>4, <1>5, <1>6, <1>7, <1>8 DEF Next


\* The inductive invariant.
IInv == TypeInv /\ GuardInv /\ PaidInv /\ CkptInv /\ MailInv /\ OutputInv /\ RefundInv

\* It holds initially, ...
LEMMA InitIInv == Init => IInv
  BY TypeInit DEF Init, InitCommon, InitNew, InitLegacy, IInv, GuardInv, PaidInv, PaidWork,
     CkptInv, MailInv, OutputInv, RefundInv, FailureReleasesMinutesOrRetry,
     FailedWithoutOutput, Failed, WorkerHolds, RequestHolds

\* ... every step preserves it, ...
LEMMA StepIInv == IInv /\ [Next]_vars => IInv'
  BY TypeStep, GuardStep, PaidStep, CkptStep, MailStep, OutputStep, RefundStep DEF IInv

\* ... so it holds in every reachable state.
LEMMA Invariance == Spec => []IInv
  BY InitIInv, StepIInv, PTL DEF Spec

\* At most one worker or resume is inside the run guard, whatever is delivered
\* twice, redelivered or requested at the same time.
THEOREM OneOwnerCorrect == Spec => []OneOwner
<1>1. IInv => OneOwner
  BY ConstantsAssumption DEF IInv, GuardInv, OneOwner
<1> QED
  BY <1>1, Invariance, PTL

\* Work in progress and delivered work are charged in every reachable state.
THEOREM PaidWorkCorrect == Spec => []PaidWork
<1>1. IInv => PaidWork
  BY DEF IInv, PaidInv
<1> QED
  BY <1>1, Invariance, PTL

\* No plan position makes two clips, and the checkpoint is exact.
THEOREM OneClipPerPositionCorrect == Spec => []OneClipPerPosition
<1>1. IInv => OneClipPerPosition
  BY DEF IInv, CkptInv, OneClipPerPosition, TypeInv, TypeOK, RowTypes
<1> QED
  BY <1>1, Invariance, PTL

\* At most one completion email is sent over the task's life.
THEOREM OneMailCorrect == Spec => []OneMail
<1>1. IInv => OneMail
  BY DEF IInv, MailInv, OneMail
<1> QED
  BY <1>1, Invariance, PTL

\* A failed task without output holds minutes only in the window of a resume.
THEOREM MinutesReleased == Spec => []FailureReleasesMinutesOrRetry
<1>1. IInv => FailureReleasesMinutesOrRetry
  BY DEF IInv, RefundInv
<1> QED
  BY <1>1, Invariance, PTL

\* No step takes a completed row anywhere but to deleted.
LEMMA CompletedStep ==
  ASSUME IInv, [Next]_vars
  PROVE  status = "completed" => status' \in {"completed", "deleted"}
<1> USE DEF IInv, TypeInv, TypeOK, RowTypes, WorkerTypes, RequestTypes, PaidInv, Active,
    Failed
<1>1. ASSUME NEW r \in Requests, RequestBegins(r) \/ RequestStep(r) \/ RequestCrash(r)
      PROVE  status = "completed" => status' \in {"completed", "deleted"}
  <2>1. CASE CreateTask(r) BY <2>1 DEF CreateTask
  <2>2. CASE CancelRead(r) BY <2>2 DEF CancelRead
  <2>3. CASE ResumeLock(r) BY <2>3 DEF ResumeLock
  <2>4. CASE ReadTask(r) BY <2>4 DEF ReadTask
  <2>5. CASE ReserveJob(r) BY <2>5 DEF ReserveJob, Exists
  <2>6. CASE Enqueue(r) BY <2>6 DEF Enqueue
  <2>7. CASE QueueingFails(r) BY <2>7 DEF QueueingFails
  <2>8. CASE UndoQueueing(r) BY <2>8 DEF UndoQueueing, UpdateStatus, RefundFailed
  <2>9. CASE CancelSetFlag(r) BY <2>9 DEF CancelSetFlag
  <2>10. CASE CancelUpdate(r) BY <2>10 DEF CancelUpdate, UpdateStatus, RefundFailed
  <2>11. CASE ResumeRead(r) BY <2>11 DEF ResumeRead
  <2>12. CASE ResumeCharge(r) BY <2>12 DEF ResumeCharge, Exists
  <2>13. CASE ResumeClearFlag(r) BY <2>13 DEF ResumeClearFlag
  <2>14. CASE ResumeRequeue(r) BY <2>14 DEF ResumeRequeue, UpdateStatus, RefundFailed
  <2>15. CASE ResumeRelease(r) BY <2>15 DEF ResumeRelease
  <2>16. CASE SweepLoadJobId(r) BY <2>16 DEF SweepLoadJobId
  <2>17. CASE SweepCheckJob(r) BY <2>17 DEF SweepCheckJob
  <2>18. CASE SweepUpdate(r) BY <2>18 DEF SweepUpdate, UpdateStatus, RefundFailed
  <2>19. CASE RequestCrash(r) BY <2>19 DEF RequestCrash
  <2> QED
    BY <1>1, <2>1, <2>2, <2>3, <2>4, <2>5, <2>6, <2>7, <2>8, <2>9, <2>10, <2>11, <2>12,
        <2>13, <2>14, <2>15, <2>16, <2>17, <2>18, <2>19 DEF RequestBegins, RequestStep
<1>2. ASSUME NEW w \in Workers, RunStep(w) \/ WorkerStops(w)
      PROVE  status = "completed" => status' \in {"completed", "deleted"}
  <2>1. CASE AcquireGuard(w) BY <2>1 DEF AcquireGuard
  <2>2. CASE CheckStatus(w) BY <2>2 DEF CheckStatus, Exists
  <2>3. CASE Begin(w) BY <2>3 DEF Begin
  <2>4. CASE ReadCharge(w) BY <2>4 DEF ReadCharge
  <2>5. CASE WorkerRecharge(w) BY <2>5 DEF WorkerRecharge
  <2>6. CASE LoadCheckpoint(w) BY <2>6 DEF LoadCheckpoint
  <2>7. CASE StartProcessing(w) BY <2>7 DEF StartProcessing, UpdateStatus, RefundFailed
  <2>8. CASE RunPipeline(w) BY <2>8 DEF RunPipeline
  <2>9. CASE OpenPlan(w) BY <2>9 DEF OpenPlan
  <2>10. CASE SkipPosition(w) BY <2>10 DEF SkipPosition
  <2>11. CASE RenderClip(w) BY <2>11 DEF RenderClip
  <2>12. CASE SaveClip(w) BY <2>12 DEF SaveClip, ClipMade
  <2>13. CASE EndRender(w) BY <2>13 DEF EndRender
  <2>14. CASE Complete(w) BY <2>14 DEF Complete, UpdateStatus, RefundFailed
  <2>15. CASE SendMail(w) BY <2>15 DEF SendMail
  <2>16. CASE StampMail(w) BY <2>16 DEF StampMail, Exists
  <2>17. CASE RecordFailure(w) BY <2>17 DEF RecordFailure, UpdateStatus, RefundFailed
  <2>18. CASE ReleaseGuard(w) BY <2>18 DEF ReleaseGuard
  <2>19. CASE JobEnds(w) BY <2>19 DEF JobEnds
  <2>20. CASE WorkerStops(w) BY <2>20 DEF WorkerStops
  <2> QED
    BY <1>2, <2>1, <2>2, <2>3, <2>4, <2>5, <2>6, <2>7, <2>8, <2>9, <2>10, <2>11, <2>12,
        <2>13, <2>14, <2>15, <2>16, <2>17, <2>18, <2>19, <2>20 DEF RunStep
<1>3. ASSUME NEW w \in Workers, NEW j \in Jobs, Deliver(w, j)
      PROVE  status = "completed" => status' \in {"completed", "deleted"}
  BY <1>3 DEF Deliver
<1>4. CASE CancelFlagExpires BY <1>4 DEF CancelFlagExpires
<1>5. CASE DeleteClip BY <1>5 DEF DeleteClip, Editable
<1>6. CASE DeleteTask BY <1>6 DEF DeleteTask, Editable, Exists
<1>7. CASE RowAges BY <1>7 DEF RowAges
<1>8. CASE UNCHANGED vars BY <1>8
<1> QED
  BY <1>1, <1>2, <1>3, <1>4, <1>5, <1>6, <1>7, <1>8 DEF Next


\* Nothing takes a completed task back to work or fails it.
THEOREM CompletedIsFinalCorrect == Spec => CompletedIsFinal
<1>1. IInv /\ [Next]_vars => [status = "completed" => status' \in {"completed", "deleted"}]_vars
  BY CompletedStep
<1> QED
  BY <1>1, Invariance, PTL DEF Spec, CompletedIsFinal

\* A failed row becomes active only in ResumeRequeue.
LEMMA RetryStep ==
  ASSUME IInv, [Next]_vars
  PROVE  status \in Failed /\ status' \in Active => owner \in Requests /\ rpc[owner] =
      "resumeRow" /\ charge = "active"
<1> USE DEF IInv, TypeInv, TypeOK, RowTypes, WorkerTypes, RequestTypes, PaidInv, GuardInv,
    RequestHolds, Active, Failed
<1>1. ASSUME NEW r \in Requests, RequestBegins(r) \/ RequestStep(r) \/ RequestCrash(r)
      PROVE  status \in Failed /\ status' \in Active => owner \in Requests /\ rpc[owner] =
          "resumeRow" /\ charge = "active"
  <2>1. CASE CreateTask(r) BY <2>1 DEF CreateTask
  <2>2. CASE CancelRead(r) BY <2>2 DEF CancelRead
  <2>3. CASE ResumeLock(r) BY <2>3 DEF ResumeLock
  <2>4. CASE ReadTask(r) BY <2>4 DEF ReadTask
  <2>5. CASE ReserveJob(r) BY <2>5 DEF ReserveJob, Exists
  <2>6. CASE Enqueue(r) BY <2>6 DEF Enqueue
  <2>7. CASE QueueingFails(r) BY <2>7 DEF QueueingFails
  <2>8. CASE UndoQueueing(r) BY <2>8 DEF UndoQueueing, UpdateStatus, RefundFailed
  <2>9. CASE CancelSetFlag(r) BY <2>9 DEF CancelSetFlag
  <2>10. CASE CancelUpdate(r) BY <2>10 DEF CancelUpdate, UpdateStatus, RefundFailed
  <2>11. CASE ResumeRead(r) BY <2>11 DEF ResumeRead
  <2>12. CASE ResumeCharge(r) BY <2>12 DEF ResumeCharge, Exists
  <2>13. CASE ResumeClearFlag(r) BY <2>13 DEF ResumeClearFlag
  <2>14. CASE ResumeRequeue(r) BY <2>14 DEF ResumeRequeue, UpdateStatus, RefundFailed
  <2>15. CASE ResumeRelease(r) BY <2>15 DEF ResumeRelease
  <2>16. CASE SweepLoadJobId(r) BY <2>16 DEF SweepLoadJobId
  <2>17. CASE SweepCheckJob(r) BY <2>17 DEF SweepCheckJob
  <2>18. CASE SweepUpdate(r) BY <2>18 DEF SweepUpdate, UpdateStatus, RefundFailed
  <2>19. CASE RequestCrash(r) BY <2>19 DEF RequestCrash
  <2> QED
    BY <1>1, <2>1, <2>2, <2>3, <2>4, <2>5, <2>6, <2>7, <2>8, <2>9, <2>10, <2>11, <2>12,
        <2>13, <2>14, <2>15, <2>16, <2>17, <2>18, <2>19 DEF RequestBegins, RequestStep
<1>2. ASSUME NEW w \in Workers, RunStep(w) \/ WorkerStops(w)
      PROVE  status \in Failed /\ status' \in Active => owner \in Requests /\ rpc[owner] =
          "resumeRow" /\ charge = "active"
  <2>1. CASE AcquireGuard(w) BY <2>1 DEF AcquireGuard
  <2>2. CASE CheckStatus(w) BY <2>2 DEF CheckStatus, Exists
  <2>3. CASE Begin(w) BY <2>3 DEF Begin
  <2>4. CASE ReadCharge(w) BY <2>4 DEF ReadCharge
  <2>5. CASE WorkerRecharge(w) BY <2>5 DEF WorkerRecharge
  <2>6. CASE LoadCheckpoint(w) BY <2>6 DEF LoadCheckpoint
  <2>7. CASE StartProcessing(w) BY <2>7 DEF StartProcessing, UpdateStatus, RefundFailed
  <2>8. CASE RunPipeline(w) BY <2>8 DEF RunPipeline
  <2>9. CASE OpenPlan(w) BY <2>9 DEF OpenPlan
  <2>10. CASE SkipPosition(w) BY <2>10 DEF SkipPosition
  <2>11. CASE RenderClip(w) BY <2>11 DEF RenderClip
  <2>12. CASE SaveClip(w) BY <2>12 DEF SaveClip, ClipMade
  <2>13. CASE EndRender(w) BY <2>13 DEF EndRender
  <2>14. CASE Complete(w) BY <2>14 DEF Complete, UpdateStatus, RefundFailed
  <2>15. CASE SendMail(w) BY <2>15 DEF SendMail
  <2>16. CASE StampMail(w) BY <2>16 DEF StampMail, Exists
  <2>17. CASE RecordFailure(w) BY <2>17 DEF RecordFailure, UpdateStatus, RefundFailed
  <2>18. CASE ReleaseGuard(w) BY <2>18 DEF ReleaseGuard
  <2>19. CASE JobEnds(w) BY <2>19 DEF JobEnds
  <2>20. CASE WorkerStops(w) BY <2>20 DEF WorkerStops
  <2> QED
    BY <1>2, <2>1, <2>2, <2>3, <2>4, <2>5, <2>6, <2>7, <2>8, <2>9, <2>10, <2>11, <2>12,
        <2>13, <2>14, <2>15, <2>16, <2>17, <2>18, <2>19, <2>20 DEF RunStep
<1>3. ASSUME NEW w \in Workers, NEW j \in Jobs, Deliver(w, j)
      PROVE  status \in Failed /\ status' \in Active => owner \in Requests /\ rpc[owner] =
          "resumeRow" /\ charge = "active"
  BY <1>3 DEF Deliver
<1>4. CASE CancelFlagExpires BY <1>4 DEF CancelFlagExpires
<1>5. CASE DeleteClip BY <1>5 DEF DeleteClip, Editable
<1>6. CASE DeleteTask BY <1>6 DEF DeleteTask, Editable, Exists
<1>7. CASE RowAges BY <1>7 DEF RowAges
<1>8. CASE UNCHANGED vars BY <1>8
<1> QED
  BY <1>1, <1>2, <1>3, <1>4, <1>5, <1>6, <1>7, <1>8 DEF Next


\* A failed task is taken back to work only by the resume that owns its run
\* guard and has an active charge for it.
THEOREM RetryIsOwnedAndPaidCorrect == Spec => RetryIsOwnedAndPaid
<1>1. IInv /\ [Next]_vars =>
        [(status \in Failed /\ status' \in Active) =>
            owner \in Requests /\ rpc[owner] = "resumeRow" /\ charge = "active"]_vars
  BY RetryStep
<1> QED
  BY <1>1, Invariance, PTL DEF Spec, RetryIsOwnedAndPaid

\* ------------------------- the abstract contract -------------------------

\* Initial states map to initial states of the contract.
LEMMA ContractInit == Init => Contract!Init
<1> SUFFICES ASSUME Init PROVE Contract!Init
  OBVIOUS
<1>1. {p \in Positions : made[p] > 0} = {}
  BY DEF Init, InitCommon
<1>2. Phase \in {"none", "working"}
  BY DEF Init, InitNew, InitLegacy, Phase, Active, Failed
<1>3. (charge = "active") = FALSE
  BY DEF Init, InitCommon
<1> QED
  BY <1>1, <1>2, <1>3 DEF Contract!Init

\* A failing UPDATE gives the minutes back unless something was produced.
LEMMA FailMaps ==
  ASSUME IInv, NEW s \in Failed, NEW e, "completed" \notin e, "new" \notin e, "deleted" \notin e,
         UpdateStatus(s, e), UNCHANGED made
  PROVE  [Contract!Next]_(Contract!vars)
<1> USE DEF IInv, TypeInv, TypeOK, RowTypes, CkptInv, Failed, Active, Statuses, Terminal
<1> DEFINE out == {p \in Positions : made[p] > 0}
<1>1. status # "deleted" /\ out = {} => clips = {}
  OBVIOUS
<1>2. CASE status \notin e
  BY <1>2 DEF UpdateStatus, Contract!vars, Phase, rowVars
<1>3. CASE status \in e
  <2>1. Phase \in {"working", "failed"} /\ Phase' = "failed"
    BY <1>3 DEF UpdateStatus, Phase
  <2>2. /\ (charge' = "active") \in {FALSE, charge = "active"}
        /\ out = {} => charge' # "active"
    BY <1>1, <1>3 DEF UpdateStatus, RefundFailed
  <2>3. CASE Phase = "working"
    <3>1. Contract!Fail
      BY <2>1, <2>2, <2>3 DEF Contract!Fail
    <3> QED
      BY <3>1 DEF Contract!Next
  <2>4. CASE Phase = "failed"
    <3>1. Contract!Release \/ UNCHANGED <<Phase, charge = "active", made>>
      BY <2>1, <2>2, <2>4 DEF Contract!Release
    <3> QED
      BY <3>1 DEF Contract!Next, Contract!vars
  <2> QED
    BY <2>1, <2>3, <2>4
<1> QED
  BY <1>2, <1>3

\* Every step maps to a step of the contract or to a stutter.
LEMMA ContractStep ==
  ASSUME IInv, [Next]_vars
  PROVE  [Contract!Next]_(Contract!vars)
<1> USE DEF IInv, TypeInv, TypeOK, RowTypes, WorkerTypes, RequestTypes, PaidInv, PaidWork,
    CkptInv, OutputInv, GuardInv, WorkerHolds, RequestHolds, Phase, Active, Failed,
    Terminal, Contract!Next, Contract!vars
<1>1. ASSUME NEW r \in Requests, RequestBegins(r) \/ RequestStep(r) \/ RequestCrash(r)
      PROVE  [Contract!Next]_(Contract!vars)
  <2>1. CASE CreateTask(r) BY <2>1 DEF CreateTask, Contract!Accept
  <2>2. CASE CancelRead(r) BY <2>2 DEF CancelRead
  <2>3. CASE ResumeLock(r) BY <2>3 DEF ResumeLock
  <2>4. CASE ReadTask(r) BY <2>4 DEF ReadTask
  <2>5. CASE ReserveJob(r) BY <2>5 DEF ReserveJob
  <2>6. CASE Enqueue(r) BY <2>6 DEF Enqueue
  <2>7. CASE QueueingFails(r) BY <2>7 DEF QueueingFails
  <2>8. CASE UndoQueueing(r)
    <3>1. rold[r] \in Failed /\ "completed" \notin {"queued", rold[r]}
          /\ "new" \notin {"queued", rold[r]} /\ "deleted" \notin {"queued", rold[r]}
      OBVIOUS
    <3>2. CASE UpdateStatus("error", {"queued"})
      BY <2>8, <3>2, FailMaps DEF UndoQueueing
    <3>3. CASE UpdateStatus(rold[r], {"queued", rold[r]})
      BY <2>8, <3>1, <3>3, FailMaps DEF UndoQueueing
    <3> QED
      BY <2>8, <3>2, <3>3 DEF UndoQueueing
  <2>9. CASE CancelSetFlag(r) BY <2>9 DEF CancelSetFlag
  <2>10. CASE CancelUpdate(r) BY <2>10, FailMaps DEF CancelUpdate
  <2>11. CASE ResumeRead(r) BY <2>11 DEF ResumeRead
  <2>12. CASE ResumeCharge(r) BY <2>12 DEF ResumeCharge, Exists, Contract!Charge
  <2>13. CASE ResumeClearFlag(r) BY <2>13 DEF ResumeClearFlag
  <2>14. CASE ResumeRequeue(r) BY <2>14 DEF ResumeRequeue, UpdateStatus, RefundFailed,
      Contract!Retry
  <2>15. CASE ResumeRelease(r) BY <2>15 DEF ResumeRelease
  <2>16. CASE SweepLoadJobId(r) BY <2>16 DEF SweepLoadJobId
  <2>17. CASE SweepCheckJob(r) BY <2>17 DEF SweepCheckJob
  <2>18. CASE SweepUpdate(r) BY <2>18, FailMaps DEF SweepUpdate
  <2>19. CASE RequestCrash(r) BY <2>19 DEF RequestCrash
  <2> QED
    BY <1>1, <2>1, <2>2, <2>3, <2>4, <2>5, <2>6, <2>7, <2>8, <2>9, <2>10, <2>11, <2>12,
        <2>13, <2>14, <2>15, <2>16, <2>17, <2>18, <2>19 DEF RequestBegins, RequestStep
<1>2. ASSUME NEW w \in Workers, RunStep(w) \/ WorkerStops(w)
      PROVE  [Contract!Next]_(Contract!vars)
  <2>1. CASE AcquireGuard(w) BY <2>1 DEF AcquireGuard
  <2>2. CASE CheckStatus(w) BY <2>2 DEF CheckStatus
  <2>3. CASE Begin(w) BY <2>3 DEF Begin
  <2>4. CASE ReadCharge(w) BY <2>4 DEF ReadCharge
  <2>5. CASE WorkerRecharge(w) BY <2>5 DEF WorkerRecharge, Contract!Charge
  <2>6. CASE LoadCheckpoint(w) BY <2>6 DEF LoadCheckpoint
  <2>7. CASE StartProcessing(w) BY <2>7 DEF StartProcessing, UpdateStatus, RefundFailed
  <2>8. CASE RunPipeline(w) BY <2>8 DEF RunPipeline
  <2>9. CASE OpenPlan(w) BY <2>9 DEF OpenPlan
  <2>10. CASE SkipPosition(w) BY <2>10 DEF SkipPosition
  <2>11. CASE RenderClip(w) BY <2>11 DEF RenderClip
  <2>12. CASE SaveClip(w) BY <2>12 DEF SaveClip, ClipMade, Contract!Produce
  <2>13. CASE EndRender(w) BY <2>13 DEF EndRender
  <2>14. CASE Complete(w)
    <3>1. CASE status = "processing"
      <4>1. Phase = "working" /\ Phase' = "done" /\ charge = "active" /\ charge' = charge
        BY <2>14, <3>1 DEF Complete, UpdateStatus, RefundFailed
      <4>2. PICK p \in Positions : made[p] > 0
        BY <2>14 DEF Complete
      <4>3. Contract!Finish
        BY <2>14, <4>1, <4>2 DEF Complete, Contract!Finish
      <4> QED
        BY <4>3
    <3>2. CASE status # "processing"
      BY <2>14, <3>2 DEF Complete, UpdateStatus
    <3> QED
      BY <3>1, <3>2
  <2>15. CASE SendMail(w) BY <2>15 DEF SendMail
  <2>16. CASE StampMail(w) BY <2>16 DEF StampMail
  <2>17. CASE RecordFailure(w)
    <3>1. wfail[w] \in Failed
      OBVIOUS
    <3>2. UpdateStatus(wfail[w], Active) /\ UNCHANGED made
      BY <2>17 DEF RecordFailure
    <3> QED
      BY <3>1, <3>2, FailMaps
  <2>18. CASE ReleaseGuard(w) BY <2>18 DEF ReleaseGuard
  <2>19. CASE JobEnds(w) BY <2>19 DEF JobEnds
  <2>20. CASE WorkerStops(w) BY <2>20 DEF WorkerStops
  <2> QED
    BY <1>2, <2>1, <2>2, <2>3, <2>4, <2>5, <2>6, <2>7, <2>8, <2>9, <2>10, <2>11, <2>12,
        <2>13, <2>14, <2>15, <2>16, <2>17, <2>18, <2>19, <2>20 DEF RunStep
<1>3. ASSUME NEW w \in Workers, NEW j \in Jobs, Deliver(w, j)
      PROVE  [Contract!Next]_(Contract!vars)
  BY <1>3 DEF Deliver
<1>4. CASE CancelFlagExpires BY <1>4 DEF CancelFlagExpires
<1>5. CASE DeleteClip BY <1>5 DEF DeleteClip
<1>6. CASE DeleteTask
  <2>1. Phase \in {"done", "failed"} /\ Phase' = "gone"
    BY <1>6 DEF DeleteTask, Editable, Exists, Statuses
  <2>2. Contract!Remove
    BY <1>6, <2>1 DEF DeleteTask, Contract!Remove
  <2> QED
    BY <2>2
<1>7. CASE RowAges BY <1>7 DEF RowAges
<1>8. CASE UNCHANGED vars BY <1>8
<1> QED
  BY <1>1, <1>2, <1>3, <1>4, <1>5, <1>6, <1>7, <1>8 DEF Next


\* The detailed lifecycle implements TaskContract.
THEOREM LifecycleKeepsContract == Spec => KeepsContract
<1>1. IInv /\ [Next]_vars => [Contract!Next]_(Contract!vars)
  BY ContractStep
<1> QED
  BY <1>1, ContractInit, Invariance, PTL DEF Spec, KeepsContract, Contract!Spec
=============================================================================
