----------------------------- MODULE ProgressStream -----------------------------
(* The page of one task: the event stream the API serves it, the requests with    *)
(* which it reconciles, and the worker whose events are published to whoever is   *)
(* subscribed at that moment. Another client cancels and retries the task.        *)
EXTENDS Naturals, Sequences

CONSTANTS MaxClips, MaxRetries, MaxFailures

VARIABLES
    task,     \* the task's row and its clips
    working,  \* the worker: rendering, or about to publish what it committed
    stream,   \* one connection of the page's EventSource
    page,     \* what the page shows, and whether its EventSource is open
    fetches,  \* the page's requests: those of the current effect, and older ones
    trouble   \* retries, and lost events, answers and workers, so far
pvars == <<task, working, stream, page, fetches, trouble>>

Ended == {"completed", "error", "cancelled"}
Slots == {1, 2}
Idle == [at |-> "idle", status |-> "processing", current |-> FALSE]
Closed == [at |-> "closed", queue |-> <<>>]

StartIn(status) ==
    /\ task = [status |-> status, clips |-> {}] /\ working = "render"
    /\ stream = Closed /\ page = [status |-> status, clips |-> {}, source |-> TRUE]
    /\ fetches = [f \in Slots |-> Idle] /\ trouble = [retries |-> 0, failures |-> 0]
Init == StartIn("processing")
Gone == StartIn("deleted")
Active == page.status \notin Ended \cup {"deleted"}
Fails == trouble.failures < MaxFailures /\ trouble' = [trouble EXCEPT !.failures = @ + 1]

(***************************************************************************)
(* The worker, and the other client                                        *)
(***************************************************************************)
Publish(event) ==
    stream' = IF stream.at = "open" THEN [stream EXCEPT !.queue = Append(@, event)] ELSE stream
CommitClip ==
    /\ task.status = "processing" /\ working = "render" /\ \E c \in 1..MaxClips \ task.clips :
         task' = [task EXCEPT !.clips = @ \cup {c}] /\ working' = "clip"
    /\ UNCHANGED <<stream, page, fetches, trouble>>
PublishClip ==
    /\ working = "clip" /\ working' = "render"
    /\ \E c \in task.clips : Publish([kind |-> "clip", clip |-> c])
    /\ UNCHANGED <<task, page, fetches, trouble>>
Finish ==
    /\ task.status = "processing" /\ working = "render"
    /\ \E s \in {"completed", "error"} : task' = [task EXCEPT !.status = s]
    /\ working' = "end"
    /\ UNCHANGED <<stream, page, fetches, trouble>>
PublishEnd ==
    /\ working = "end" /\ working' = "render" /\ Publish([kind |-> "end"])
    /\ UNCHANGED <<task, page, fetches, trouble>>
\* What it had committed is published by nobody.
WorkerDies ==
    /\ working # "render" /\ Fails /\ working' = "render"
    /\ UNCHANGED <<task, stream, page, fetches>>
\* No event tells of a cancellation: the route publishes none, and neither does the
\* worker that notices it.
Cancel ==
    /\ task.status = "processing" /\ task' = [task EXCEPT !.status = "cancelled"] /\ working' = "render"
    /\ UNCHANGED <<stream, page, fetches, trouble>>
Retry ==
    /\ task.status \in {"error", "cancelled"} /\ trouble.retries < MaxRetries
    /\ trouble' = [trouble EXCEPT !.retries = @ + 1]
    /\ task' = [task EXCEPT !.status = "processing"]
    /\ UNCHANGED <<working, stream, page, fetches>>

(***************************************************************************)
(* The stream. The row is read, then the channel is subscribed to.         *)
(***************************************************************************)
Connect ==
    /\ Active /\ page.source /\ stream.at = "closed"
    /\ stream' = (IF task.status \in Ended THEN [at |-> "done", queue |-> <<[kind |-> "end"]>>]
                  ELSE [at |-> "read", queue |-> <<>>])
    /\ UNCHANGED <<task, working, page, fetches, trouble>>
Subscribe ==
    /\ stream.at = "read" /\ stream' = [stream EXCEPT !.at = "open"]
    /\ UNCHANGED <<task, working, page, fetches, trouble>>

(***************************************************************************)
(* The page                                                                *)
(***************************************************************************)
\* One background request of an effect at a time.
Reconcile ==
    fetches' \in (IF \E f \in Slots : fetches[f].current THEN {fetches}
                  ELSE {[fetches EXCEPT ![f] = [Idle EXCEPT !.at = "asked", !.current = TRUE]] :
                          f \in {g \in Slots : fetches[g].at = "idle"}})
Free == \E f \in Slots : fetches[f].at = "idle"
\* Variant: the clip takes the place of the others.
ShowClipAlone ==
    /\ Active /\ stream.queue # <<>> /\ Head(stream.queue).kind = "clip"
    /\ page' = [page EXCEPT !.clips = {Head(stream.queue).clip}]
    /\ stream' = [stream EXCEPT !.queue = Tail(@)]
    /\ UNCHANGED <<task, working, fetches, trouble>>
ShowClip ==
    /\ Active /\ stream.queue # <<>> /\ Head(stream.queue).kind = "clip"
    /\ page' = [page EXCEPT !.clips = @ \cup {Head(stream.queue).clip}]
    /\ stream' = [stream EXCEPT !.queue = Tail(@)]
    /\ UNCHANGED <<task, working, fetches, trouble>>
\* The last event and the close that follows it.
CloseStream ==
    /\ Active /\ Free /\ stream.queue # <<>> /\ Head(stream.queue).kind = "end"
    /\ page' = [page EXCEPT !.source = FALSE] /\ stream' = Closed /\ Reconcile
    /\ UNCHANGED <<task, working, trouble>>
Disconnect ==
    /\ stream.at # "closed" /\ Free /\ Fails /\ stream' = Closed /\ Reconcile
    /\ UNCHANGED <<task, working, page>>
\* Variant: the timer runs while the stream is open.
PollOpen ==
    /\ Active /\ page.source /\ Reconcile
    /\ UNCHANGED <<task, working, stream, page, trouble>>
Poll ==
    /\ Active /\ Reconcile
    /\ UNCHANGED <<task, working, stream, page, trouble>>
\* fetchTaskStatus: the task first, then its clips.
FetchTask(f) ==
    /\ fetches[f].at = "asked"
    /\ fetches' = [fetches EXCEPT ![f].at = "task", ![f].status = task.status]
    /\ UNCHANGED <<task, working, stream, page, trouble>>
\* The answer may be an older one that arrives last: then the page shows the task as
\* active again, with a new effect.
FetchClips(f) ==
    LET s == fetches[f].status
    IN /\ fetches[f].at = "task"
       /\ page' = [status |-> s, source |-> page.source \/ ~Active,
                   clips |-> IF s = "completed" THEN task.clips ELSE page.clips \cup task.clips]
       /\ stream' = (IF s \in Ended THEN Closed ELSE stream)
       /\ fetches' = [g \in Slots |-> IF g = f THEN Idle
                                      ELSE [fetches[g] EXCEPT !.current = @ /\ Active /\ s \notin Ended]]
       /\ UNCHANGED <<task, working, trouble>>
FetchFails(f) ==
    /\ fetches[f].at # "idle" /\ Fails /\ fetches' = [fetches EXCEPT ![f] = Idle]
    /\ UNCHANGED <<task, working, stream, page>>

Next ==
    \/ CommitClip \/ PublishClip \/ Finish \/ PublishEnd \/ WorkerDies \/ Cancel \/ Retry
    \/ Connect \/ Subscribe \/ ShowClip \/ CloseStream \/ Disconnect \/ Poll
    \/ \E f \in Slots : FetchTask(f) \/ FetchClips(f) \/ FetchFails(f)
\* The timer of the page fires, and a request is answered.
Fairness ==
    /\ WF_pvars(Poll)
    /\ \A f \in Slots : WF_pvars(FetchTask(f) \/ FetchClips(f))
Spec == Init /\ [][Next]_pvars /\ Fairness

(***************************************************************************)
(* Properties                                                              *)
(***************************************************************************)
TypeOK ==
    /\ task.status \in Ended \cup {"processing", "deleted"} /\ task.clips \subseteq 1..MaxClips
    /\ working \in {"render", "clip", "end"} /\ stream.at \in {"closed", "read", "open", "done"}
    /\ page.status \in Ended \cup {"processing", "deleted"} /\ page.source \in BOOLEAN
\* A page that shows the task as completed shows all its clips, and no clip it showed
\* goes away, whatever order events and answers arrive in.
PageShowsClips ==
    /\ [](page.status = "completed" => page.clips = task.clips)
    /\ [][page.clips \subseteq page.clips']_pvars
\* "reconciliation also recovers missed terminal events" (use-task-progress.ts:7): a
\* page never goes on showing a task as running that has ended.
PageCatchesUp == []<>(page.status \in Ended \/ task.status \notin Ended)
=============================================================================
