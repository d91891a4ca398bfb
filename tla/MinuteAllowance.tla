--------------------------- MODULE MinuteAllowance ---------------------------
(***************************************************************************)
(* The monthly video minutes of one subscriber: API handlers that create   *)
(* and resume tasks, worker runs that charge tasks older than the ledger,  *)
(* refunds of failed tasks, and the subscription whose period decides      *)
(* which charges count (BillingService, minute_usage_repository,           *)
(* generation_allowance_guard).                                            *)
(*                                                                         *)
(* Admissions of one user are serialized by an advisory lock; refunds,     *)
(* deletions, subscription webhooks and the clock are not.                 *)
(***************************************************************************)
EXTENDS Naturals, FiniteSets

CONSTANTS
    Handlers,         \* requests and worker runs that ask for minutes
    Tasks,            \* submissions, each the task it would become
    Uploads, KeyOf,   \* the upload request key of a submission, or NoKey
    NoKey,
    Legacy,           \* tasks queued before charges were recorded
    Cost,             \* started minutes of a task's source
    LongestVideo,     \* bound of Cost: the longest source that is accepted
    Limit,            \* minutes of the plan
    Terms,            \* lengths of subscription periods in months: 1, 12
    MaxMonthlyPeriod, \* MAX_MONTHLY_PERIOD_DAYS
    AddMonths(_, _),  \* the same day, that many months later
    MaxTime           \* bound: the clock

NoHandler == "nobody"
NoTask    == "none"

ASSUME AllowanceAssumption ==
    /\ NoHandler \notin Handlers /\ NoTask \notin Tasks
    /\ IsFiniteSet(Tasks) /\ Legacy \subseteq Tasks
    /\ KeyOf \in [Tasks -> Uploads \cup {NoKey}] /\ NoKey \notin Uploads
    /\ LongestVideo \in Nat /\ Cost \in [Tasks -> 1..LongestVideo]
    /\ Limit \in Nat \ {0} /\ Terms \subseteq Nat \ {0}
    /\ MaxMonthlyPeriod \in Nat /\ MaxTime \in Nat
Times == 0..MaxTime
Spans == (0..MaxTime + 1) \cup Terms

\* Later months start later, and together they cover every moment.
ASSUME CalendarAssumption ==
    \A s \in Times :
        /\ AddMonths(s, 0) = s
        /\ \A k \in Spans : AddMonths(s, k) \in Nat
        /\ \A j, k \in Spans : j < k => AddMonths(s, j) < AddMonths(s, k)
        /\ \A n \in Times : s <= n =>
              \E k \in 0..n : AddMonths(s, k) <= n /\ n < AddMonths(s, k + 1)

VARIABLES
    now,      \* the clock
    plan,     \* users: paid access, billing_period_start and _end
    status,   \* tasks.status; failed stands for error and cancelled
    keyed,    \* tasks whose source_metadata holds the upload request key
    charge,   \* minute_usage_events: refunded or not, and created_at, which nothing
              \* reads while the charge is refunded
    lock,     \* holder of the user's allowance lock
    local,    \* the handlers
    late      \* history: tasks whose active charge lies outside the window that was
              \* checked for it, or after the end of the period in the row

vars == <<now, plan, status, keyed, charge, lock, local, late>>

Active    == {"queued", "processing"}
Statuses  == Active \cup {"none", "completed", "failed", "deleted"}
Idle      == [pc |-> "idle", kind |-> "create", task |-> NoTask, since |-> 0, first |-> 0, last |-> 0]

NewPlan(start, months) ==
    [paid |-> TRUE, start |-> start, end |-> AddMonths(start, months)]

Init ==
    /\ now = 0
    /\ \E m \in Terms : plan = NewPlan(0, m)
    /\ \E old \in SUBSET Legacy :
          status = [t \in Tasks |-> IF t \in old THEN "queued" ELSE "none"]
    /\ keyed = {} /\ late = {}
    /\ charge = [t \in Tasks |-> [state |-> "none", at |-> 0]]
    /\ lock = NoHandler
    /\ local = [h \in Handlers |-> Idle]

-----------------------------------------------------------------------------
(* The usage window and what it counts.                                     *)

\* _usage_window: a monthly subscription's own period; for a longer one the
\* current month, counted from its first day and cut at its end.
Monthly(p) == p.end <= p.start + MaxMonthlyPeriod
Month(p, n) == CHOOSE k \in 0..n : AddMonths(p.start, k) <= n /\ n < AddMonths(p.start, k + 1)
WindowStart(p, n) == IF Monthly(p) THEN p.start ELSE AddMonths(p.start, Month(p, n))
NextMonth(p, n)   == AddMonths(p.start, Month(p, n) + 1)
WindowEnd(p, n)   == IF Monthly(p) \/ p.end < NextMonth(p, n) THEN p.end ELSE NextMonth(p, n)

\* _count_usage: both ends of the window count.
Counted(first, last) ==
    {t \in Tasks : charge[t].state = "active" /\ charge[t].at \in first..last}

\* The sum of their minutes, as the number of pairs of a task and its minute.
Minutes(S) == Cardinality({x \in S \X (1..LongestVideo) : x[2] <= Cost[x[1]]})

At(h, pc)   == local[h].pc = pc
Goto(h, pc) == local' = [local EXCEPT ![h].pc = pc]
\* The times it has read are used no more.
GoOn(h, pc) ==
    local' = [local EXCEPT ![h] = [@ EXCEPT !.pc = pc, !.since = 0, !.first = 0, !.last = 0]]
\* Variant: an early return keeps the connection and with it the lock.
LeaveLocked(h) == local' = [local EXCEPT ![h] = Idle] /\ UNCHANGED lock

\* The handler returns: closing its connection releases the lock.
Leave(h) ==
    /\ local' = [local EXCEPT ![h] = Idle]
    /\ lock' = IF lock = h THEN NoHandler ELSE lock

\* task_run_guard of a resume or a worker run; a submission is handled once.
Held(t) == \E h \in Handlers : ~At(h, "idle") /\ local[h].task = t

\* find_recent_upload_task: an unfinished task with the same key, or one
\* completed in the last two minutes.
SameUpload(t, among) ==
    {u \in keyed : KeyOf[t] # NoKey /\ KeyOf[u] = KeyOf[t] /\ status[u] \in among}

\* update_task_status to a terminal failure: a task without clips is refunded.
FailTask(t, refund) ==
    /\ status' = [status EXCEPT ![t] = "failed"]
    /\ IF refund /\ charge[t].state = "active"
       THEN /\ charge' = [charge EXCEPT ![t] = [state |-> "refunded", at |-> 0]]
            /\ late' = late \ {t}
       ELSE UNCHANGED <<charge, late>>

-----------------------------------------------------------------------------
(* Handlers.                                                                *)

\* POST /tasks up to the lock: the key lookup and the allowance check there
\* are repeated under the lock.
Submit(h, t) ==
    /\ At(h, "idle") /\ status[t] = "none" /\ ~Held(t)
    /\ SameUpload(t, Active) = {}
    /\ plan.paid /\ Minutes(Counted(WindowStart(plan, now), WindowEnd(plan, now))) < Limit
    /\ local' = [local EXCEPT ![h] = [Idle EXCEPT !.pc = "lock", !.kind = "create", !.task = t]]
    /\ UNCHANGED <<now, plan, status, keyed, charge, lock, late>>

\* POST /tasks/{id}/resume takes the task's run guard first.
Resume(h, t) ==
    /\ At(h, "idle") /\ status[t] = "failed" /\ ~Held(t)
    /\ local' = [local EXCEPT ![h] = [Idle EXCEPT !.pc = "lock", !.kind = "resume", !.task = t]]
    /\ UNCHANGED <<now, plan, status, keyed, charge, lock, late>>

\* process_task asks again before it works; a task with an active charge,
\* which it accepts even when the plan has lapsed, is left out.
Work(h, t) ==
    /\ At(h, "idle") /\ status[t] \in Active /\ charge[t].state # "active" /\ ~Held(t)
    /\ local' = [local EXCEPT ![h] = [Idle EXCEPT !.pc = "lock", !.kind = "work", !.task = t]]
    /\ UNCHANGED <<now, plan, status, keyed, charge, lock, late>>

\* Variant: admissions of one user are not serialized.
LockShared(h) ==
    /\ At(h, "lock")
    /\ lock' = h
    /\ Goto(h, IF local[h].kind = "create" THEN "look" ELSE "begin")
    /\ UNCHANGED <<now, plan, status, keyed, charge, late>>

\* generation_allowance_guard; after five seconds the request is answered 409.
Lock(h) ==
    /\ At(h, "lock")
    /\ IF lock = NoHandler
       THEN /\ lock' = h
            /\ Goto(h, IF local[h].kind = "create" THEN "look" ELSE "begin")
       ELSE Leave(h)
    /\ UNCHANGED <<now, plan, status, keyed, charge, late>>

\* assert_can_resume_task: its transaction starts here.  A resume reuses an
\* active charge; so does a run, which goes on to its work.
Begin(h) ==
    /\ At(h, "begin")
    /\ \/ /\ charge[local[h].task].state = "active" /\ plan.paid /\ local[h].kind = "resume"
          /\ Goto(h, "requeue") /\ UNCHANGED lock
       \/ /\ charge[local[h].task].state # "active" /\ plan.paid
          /\ local' = [local EXCEPT ![h].pc = "look", ![h].since = now]
          /\ UNCHANGED lock
       \/ /\ ~plan.paid \/ (charge[local[h].task].state = "active" /\ local[h].kind = "work")
          /\ Leave(h)
    /\ UNCHANGED <<now, plan, status, keyed, charge, late>>

\* get_usage_summary reads the plan and the clock ...
Look(h) ==
    /\ At(h, "look")
    /\ IF plan.paid
       THEN /\ local' = [local EXCEPT ![h].pc = "count", ![h].first = WindowStart(plan, now),
                                      ![h].last = WindowEnd(plan, now)]
            /\ UNCHANGED lock
       ELSE Leave(h)
    /\ UNCHANGED <<now, plan, status, keyed, charge, late>>

Fits(h) ==
    Minutes(Counted(local[h].first, local[h].last)) + Cost[local[h].task] <= Limit

\* ... then the charges; assert_can_create_task compares.
Count(h) ==
    /\ At(h, "count")
    /\ IF Fits(h)
       THEN Goto(h, IF local[h].kind = "create" THEN "lookup" ELSE "charge") /\ UNCHANGED lock
       ELSE Leave(h)
    /\ UNCHANGED <<now, plan, status, keyed, charge, late>>

\* Variant: the upload is not looked up again under the lock.
LookupSkipped(h) ==
    /\ At(h, "lookup")
    /\ Goto(h, "charge")
    /\ UNCHANGED <<now, plan, status, keyed, charge, lock, late>>

\* create_task_with_source looks for the same upload again.
Lookup(h) ==
    /\ At(h, "lookup")
    /\ \/ /\ SameUpload(local[h].task, Active) = {}
          /\ Goto(h, "charge") /\ UNCHANGED lock
       \/ /\ SameUpload(local[h].task, Active \cup {"completed"}) # {}
          /\ Leave(h)
    /\ UNCHANGED <<now, plan, status, keyed, charge, late>>

\* Charge t, created_at being the start of the transaction.
Record(h, t, at) ==
    /\ charge' = [charge EXCEPT ![t] = [state |-> "active", at |-> at]]
    /\ late' = IF at \in local[h].first..local[h].last /\ at <= plan.end
              THEN late \ {t}
              ELSE late \cup {t}

\* create_task: the row and its charge in one transaction.
ChargeNew(h) ==
    /\ At(h, "charge") /\ local[h].kind = "create"
    /\ status' = [status EXCEPT ![local[h].task] = "queued"]
    /\ Record(h, local[h].task, now)
    /\ GoOn(h, IF KeyOf[local[h].task] = NoKey THEN "enqueue" ELSE "key")
    /\ UNCHANGED <<now, plan, keyed, lock>>

\* Variant: the charge does not look at the task's status.
ChargeAgainStopped(h) ==
    /\ At(h, "charge") /\ local[h].kind # "create"
    /\ Record(h, local[h].task, local[h].since)
    /\ IF local[h].kind = "resume" THEN GoOn(h, "requeue") /\ UNCHANGED lock ELSE Leave(h)
    /\ UNCHANGED <<now, plan, status, keyed>>

\* The rest of assert_can_resume_task: record_minute_usage or
\* reactivate_minute_usage, unless the task was deleted or, for a worker,
\* stopped meanwhile.
ChargeAgain(h) ==
    /\ At(h, "charge") /\ local[h].kind # "create"
    /\ IF status[local[h].task] \in (IF local[h].kind = "resume" THEN Statuses \ {"none", "deleted"} ELSE Active)
       THEN /\ Record(h, local[h].task, local[h].since)
            /\ IF local[h].kind = "resume" THEN GoOn(h, "requeue") /\ UNCHANGED lock ELSE Leave(h)
       ELSE Leave(h) /\ UNCHANGED <<charge, late>>
    /\ UNCHANGED <<now, plan, status, keyed>>

\* save_source_metadata stores the upload request key, in a commit of its own.
SaveKey(h) ==
    /\ At(h, "key")
    /\ keyed' = IF status[local[h].task] = "deleted" THEN keyed ELSE keyed \cup {local[h].task}
    /\ Goto(h, "enqueue")
    /\ UNCHANGED <<now, plan, status, charge, lock, late>>

\* A resume sets the row to queued, whatever it is now.
Requeue(h) ==
    /\ At(h, "requeue")
    /\ status' = IF status[local[h].task] = "deleted" THEN status
                 ELSE [status EXCEPT ![local[h].task] = "queued"]
    /\ Goto(h, "enqueue")
    /\ UNCHANGED <<now, plan, keyed, charge, lock, late>>

\* The job is stored, and the request answered.
Enqueue(h) ==
    /\ At(h, "enqueue")
    /\ Leave(h)
    /\ UNCHANGED <<now, plan, status, keyed, charge, late>>

\* It cannot be queued: a new task fails if it is still queued, a resumed one
\* gets back the status it had.  Only the latter may have clips.
Unqueue(h) ==
    /\ At(h, "requeue") \/ At(h, "enqueue")
    /\ \/ local[h].kind = "create" /\ status[local[h].task] = "queued"
          /\ FailTask(local[h].task, TRUE)
       \/ local[h].kind = "resume" /\ status[local[h].task] \in {"queued", "failed"}
          /\ \E refund \in BOOLEAN : FailTask(local[h].task, refund)
    /\ Leave(h)
    /\ UNCHANGED <<now, plan, keyed>>

Crash(h) ==
    /\ ~At(h, "idle")
    /\ Leave(h)
    /\ UNCHANGED <<now, plan, status, keyed, charge, late>>

-----------------------------------------------------------------------------
(* Everything that does not take the lock.                                  *)

StartRun(t) ==
    /\ status[t] = "queued" /\ charge[t].state = "active" /\ ~Held(t)
    /\ status' = [status EXCEPT ![t] = "processing"]
    /\ UNCHANGED <<now, plan, keyed, charge, lock, local, late>>

FinishRun(t) ==
    /\ status[t] = "processing" /\ ~Held(t)
    /\ status' = [status EXCEPT ![t] = "completed"]
    /\ UNCHANGED <<now, plan, keyed, charge, lock, local, late>>

\* A run fails, a sweep finds the task stale, or its owner cancels it.
Stop(t) ==
    /\ status[t] \in Active
    /\ \E refund \in BOOLEAN : FailTask(t, refund)
    /\ UNCHANGED <<now, plan, keyed, lock, local>>

\* The ledger outlives the task.
DeleteTask(t) ==
    /\ status[t] \notin {"none", "deleted"}
    /\ status' = [status EXCEPT ![t] = "deleted"]
    /\ UNCHANGED <<now, plan, keyed, charge, lock, local, late>>

Tick ==
    /\ now < MaxTime
    /\ now' = now + 1
    /\ UNCHANGED <<plan, status, keyed, charge, lock, local, late>>

\* upsertSubscriptionState for the next period; the webhook comes when it comes.
Renew ==
    /\ plan.paid /\ plan.end <= now
    /\ \E m \in Terms : plan' = NewPlan(plan.end, m)
    /\ UNCHANGED <<now, status, keyed, charge, lock, local, late>>

\* handleBillingIssue: the store's grace period prolongs the period, which may
\* make a monthly one longer than a month.
Extend ==
    /\ plan.paid
    /\ \E end \in (now + 1)..MaxTime : plan.end < end /\ plan' = [plan EXCEPT !.end = end]
    /\ UNCHANGED <<now, status, keyed, charge, lock, local, late>>

\* Canceled or unpaid: the period stays in the row.
Lapse ==
    /\ plan.paid
    /\ plan' = [plan EXCEPT !.paid = FALSE]
    /\ UNCHANGED <<now, status, keyed, charge, lock, local, late>>

\* A new checkout starts a period of its own.
Subscribe ==
    /\ ~plan.paid
    /\ \E m \in Terms : plan' = NewPlan(now, m)
    /\ UNCHANGED <<now, status, keyed, charge, lock, local, late>>

HandlerStep(h) ==
    \/ Lock(h) \/ Begin(h) \/ Look(h) \/ Count(h) \/ Lookup(h) \/ ChargeNew(h)
    \/ ChargeAgain(h) \/ SaveKey(h) \/ Requeue(h) \/ Enqueue(h)
    \/ Unqueue(h) \/ Crash(h)

Next ==
    \/ \E h \in Handlers :
        HandlerStep(h) \/ \E t \in Tasks : Submit(h, t) \/ Resume(h, t) \/ Work(h, t)
    \/ \E t \in Tasks : StartRun(t) \/ FinishRun(t) \/ Stop(t) \/ DeleteTask(t)
    \/ Tick \/ Renew \/ Extend \/ Lapse \/ Subscribe

Spec == Init /\ [][Next]_vars

-----------------------------------------------------------------------------
(* Properties.                                                              *)

Locals == [pc : {"idle", "lock", "begin", "look", "count", "lookup", "charge", "key",
                 "requeue", "enqueue"},
           kind : {"create", "resume", "work"}, task : Tasks \cup {NoTask},
           since : Times, first : Nat, last : Nat]

\* Rows, ledger and local variables keep to their domains, and a handler that
\* has returned does not hold the lock.
TypeOK ==
    /\ now \in Times
    /\ plan \in [paid : BOOLEAN, start : Times, end : Nat]
    /\ status \in [Tasks -> Statuses] /\ keyed \subseteq Tasks /\ late \subseteq Tasks
    /\ charge \in [Tasks -> [state : {"none", "active", "refunded"}, at : Times]]
    /\ lock \in Handlers \cup {NoHandler}
    /\ \A h \in Handlers : lock = h => local[h].pc \notin {"idle", "lock"}
    /\ local \in [Handlers -> Locals]

\* The minutes counted in the window the code would look at now stay within
\* the plan, whatever order submissions, retries, refunds, deletions, renewals
\* and new subscriptions come in; leaving out charges made in a transaction
\* that lies outside the window that was checked for it.
NeverOverdrawn ==
    Minutes(Counted(WindowStart(plan, now), WindowEnd(plan, now)) \ late) <= Limit

\* Documented: a plan allows that many minutes of source video per month
\* (configuration.md:182).  Includes the charges of the time between a period's
\* end and its renewal webhook, which no window counts until then.
MonthWithinLimit == Minutes(Counted(WindowStart(plan, now), WindowEnd(plan, now))) <= Limit

\* A submission that repeats an upload whose task is unfinished and carries
\* the upload's key never adds a task, however its requests overlap.
NoDoubleSubmission ==
    [][\A t \in Tasks : status[t] = "none" /\ status'[t] # "none" => SameUpload(t, Active) = {}]_vars

\* A task that has stopped is charged again only by an explicit resume: a
\* cancellation wins against a worker that is measuring the source.
StoppedStaysUncharged ==
    [][\A t \in Tasks :
        charge[t].state # "active" /\ charge'[t].state = "active" =>
            \/ status'[t] \in Active
            \/ \E h \in Handlers : local[h].task = t /\ local[h].kind = "resume"]_vars
=============================================================================
