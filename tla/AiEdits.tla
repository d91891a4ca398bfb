--------------------------------- MODULE AiEdits ---------------------------------
(* Requests for an edit by the model, charged to a monthly allowance: the API       *)
(* reserves one, leaves the request in Redis and queues a job; the AI worker, which *)
(* runs a job once, publishes a result or returns the charge.                       *)
(* (ai_edit_allowance_service, routes/editor, ai_edit_service, ai_worker.)          *)
EXTENDS Naturals, FiniteSets

CONSTANTS Requests, Limit,        \* ten a month for Pro, a hundred for Creator
          MaxFaults               \* killed processes and lost answers

VARIABLES ask,        \* the API's side: "none", "counting", "reserved", "stored", then its answer
          seen,       \* the count a request read under the lock
          ledger,     \* ai_edit_usage_events: "none", "charged" or "refunded"
          request,    \* the request keys in Redis
          queue,      \* "none", "queued", "running", "done", or "killed"
          result,     \* the result key: "none", "running", "completed" or "failed"
          lock,       \* the user's advisory lock: a request, or the set of all of them
          faults

avars == <<ask, seen, ledger, request, queue, result, lock, faults>>
Free == Requests

Init ==
    /\ ask = [r \in Requests |-> "none"] /\ seen = [r \in Requests |-> 0]
    /\ ledger = [r \in Requests |-> "none"] /\ request = {}
    /\ queue = [r \in Requests |-> "none"] /\ result = [r \in Requests |-> "none"]
    /\ lock = Free /\ faults = 0
\* Every request was refused.
Gone ==
    /\ ask = [r \in Requests |-> "429"] /\ seen = [r \in Requests |-> 0]
    /\ ledger = [r \in Requests |-> "none"] /\ request = {}
    /\ queue = [r \in Requests |-> "none"] /\ result = [r \in Requests |-> "none"]
    /\ lock = Free /\ faults = 0

To(f, r, v) == [f EXCEPT ![r] = v]
Used == Cardinality({r \in Requests : ledger[r] = "charged"})
Refunded(r) == To(ledger, r, IF ledger[r] = "charged" THEN "refunded" ELSE ledger[r])
Fault == faults < MaxFaults /\ faults' = faults + 1
\* The database, or Redis, did as it was told; or a fault, and what it tells may be done or not.
May(f, g) == (f' = g /\ UNCHANGED faults) \/ (f' \in {f, g} /\ Fault)

(***************************************************************************)
(* The API.                                                                *)
(***************************************************************************)
\* Variant: the count is taken without the lock.
CountUnlocked(r) ==
    /\ ask[r] = "none" /\ ask' = To(ask, r, "counting")
    /\ seen' = To(seen, r, Used)
    /\ UNCHANGED <<ledger, request, queue, result, lock, faults>>
Count(r) ==
    /\ ask[r] = "none" /\ lock = Free
    /\ ask' = To(ask, r, "counting") /\ lock' = r /\ seen' = To(seen, r, Used)
    /\ UNCHANGED <<ledger, request, queue, result, faults>>
Reserve(r) ==
    /\ ask[r] = "counting" /\ lock' = Free
    /\ IF seen[r] < Limit THEN ask' = To(ask, r, "reserved") /\ ledger' = To(ledger, r, "charged")
       ELSE ask' = To(ask, r, "429") /\ UNCHANGED ledger
    /\ UNCHANGED <<seen, request, queue, result, faults>>
Store(r) ==
    /\ ask[r] = "reserved" /\ ask' = To(ask, r, "stored") /\ request' = request \cup {r}
    /\ UNCHANGED <<seen, ledger, queue, result, lock, faults>>
Enqueue(r) ==
    /\ ask[r] = "stored" /\ ask' = To(ask, r, "202") /\ queue' = To(queue, r, "queued")
    /\ UNCHANGED <<seen, ledger, request, result, lock, faults>>
\* The queue may hold a job it did not acknowledge.
EnqueueFails(r) ==
    /\ ask[r] \in {"reserved", "stored"} /\ ask' = To(ask, r, "refunding") /\ Fault
    /\ queue' \in {queue, IF ask[r] = "stored" THEN To(queue, r, "queued") ELSE queue}
    /\ UNCHANGED <<seen, ledger, request, result, lock>>
GiveBack(r) ==
    /\ ask[r] = "refunding" /\ ask' = To(ask, r, "clearing")
    /\ May(ledger, Refunded(r))
    /\ UNCHANGED <<seen, request, queue, result, lock>>
ClearKeys(r) ==
    /\ ask[r] = "clearing" /\ ask' = To(ask, r, "503")
    /\ May(request, request \ {r})
    /\ UNCHANGED <<seen, ledger, queue, result, lock>>
ApiDies(r) ==
    /\ ask[r] \in {"reserved", "stored", "refunding", "clearing"} /\ ask' = To(ask, r, "lost") /\ Fault
    /\ UNCHANGED <<seen, ledger, request, queue, result, lock>>
\* Ten minutes after it was stored.
Expire(r) ==
    /\ r \in request /\ request' = request \ {r}
    /\ UNCHANGED <<ask, seen, ledger, queue, result, lock, faults>>

(***************************************************************************)
(* The worker.                                                             *)
(***************************************************************************)
Take(r) ==
    /\ queue[r] = "queued"
    /\ \/ r \in request /\ queue' = To(queue, r, "running") /\ result' = To(result, r, "running")
       \/ r \notin request /\ queue' = To(queue, r, "failing") /\ UNCHANGED result
    /\ UNCHANGED <<ask, seen, ledger, request, lock, faults>>
\* The plan fits and is applied; a publication that fails is a failure of the job.
Complete(r) ==
    /\ queue[r] = "running"
    /\ \/ queue' = To(queue, r, "done") /\ result' = To(result, r, "completed") /\ UNCHANGED faults
       \/ queue' = To(queue, r, "failing") /\ result' \in {result, To(result, r, "completed")} /\ Fault
    /\ request' = request \ {r}
    /\ UNCHANGED <<ask, seen, ledger, lock>>
\* Variant: a cancelled job ends without a word.
FailSilently(r) ==
    /\ queue[r] = "running" /\ queue' = To(queue, r, "done") /\ request' = request \ {r}
    /\ UNCHANGED <<ask, seen, ledger, result, lock, faults>>
\* A refusal, a timeout, a cancelled job, a plan that does not fit.
Fail(r) ==
    /\ queue[r] = "running" /\ queue' = To(queue, r, "failing") /\ request' = request \ {r}
    /\ UNCHANGED <<ask, seen, ledger, result, lock, faults>>
Refund(r) ==
    /\ queue[r] = "failing" /\ queue' = To(queue, r, "refunded")
    /\ May(ledger, Refunded(r))
    /\ UNCHANGED <<ask, seen, request, result, lock>>
PublishFailure(r) ==
    /\ queue[r] = "refunded" /\ queue' = To(queue, r, "done")
    /\ May(result, To(result, r, "failed"))
    /\ UNCHANGED <<ask, seen, ledger, request, lock>>
\* A killed job is not run again.
WorkerDies(r) ==
    /\ queue[r] \in {"running", "failing", "refunded"} /\ queue' = To(queue, r, "killed") /\ Fault
    /\ UNCHANGED <<ask, seen, ledger, request, result, lock>>

Next ==
    \E r \in Requests :
        \/ Count(r) \/ Reserve(r) \/ Store(r) \/ Enqueue(r) \/ EnqueueFails(r) \/ GiveBack(r)
        \/ ClearKeys(r) \/ ApiDies(r) \/ Expire(r)
        \/ Take(r) \/ Complete(r) \/ Fail(r) \/ Refund(r) \/ PublishFailure(r) \/ WorkerDies(r)

Spec == Init /\ [][Next]_avars

(***************************************************************************)
(* Properties.                                                             *)
(***************************************************************************)
TypeOK ==
    /\ request \subseteq Requests /\ lock \in Requests \cup {Free} /\ faults \in 0..MaxFaults
    /\ \A r \in Requests : seen[r] \in 0..Limit /\ ledger[r] \in {"none", "charged", "refunded"}

\* However requests race, no more of them than the month allows are charged; one that
\* was refused never runs; and without a fault one that is seen to fail is returned, one
\* that is seen to complete is paid for, and one that was accepted has its result or a
\* worker that owes it.
ChargesAreRight ==
    /\ Used <= Limit
    /\ \A r \in Requests :
        /\ ask[r] = "429" => ledger[r] = "none" /\ queue[r] = "none"
        /\ faults = 0 =>
             /\ result[r] = "failed" => ledger[r] = "refunded"
             /\ result[r] = "completed" => ledger[r] = "charged"
             /\ ask[r] = "202" => \/ result[r] \in {"completed", "failed"}
                                 \/ queue[r] \in {"queued", "running", "failing", "refunded"}
=============================================================================
