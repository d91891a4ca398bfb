----------------------------- MODULE SocialPosts -----------------------------
(***************************************************************************)
(* One clip on its way to one connected platform account: the API requests *)
(* that create, cancel, retry and delete the post, the publish jobs ARQ    *)
(* delivers (SocialService.publish_post), and the every-minute cron pass   *)
(* that dispatches scheduled posts, polls accepted uploads and sweeps lost *)
(* ones (dispatch_scheduled_social_posts).                                 *)
(*                                                                         *)
(* post, account and clip are database rows, jobs is ARQ's Redis state and *)
(* platform is the outside world: what became of the upload each claim of  *)
(* the post started.  local holds the variables of the running coroutines: *)
(* Workers publish, Crons run the pass, Requests serve the API.            *)
(***************************************************************************)
EXTENDS Naturals, FiniteSets

CONSTANTS
    Workers, Crons, Requests,
    Kinds,        \* platforms: TRUE answers an upload with a handle (TikTok)
    QueueErrors,  \* an enqueue may raise, whether or not it stored the job
    MaxAttempts,  \* config.social_publish_max_attempts
    MaxTries,     \* WorkerSettings.max_tries
    MaxRetries,   \* bound: retries the user asks for
    MaxCrashes    \* bound: coroutines that are killed or time out

ASSUME SocialAssumption ==
    /\ MaxAttempts \in Nat \ {0} /\ MaxTries \in Nat \ {0}
    /\ MaxRetries \in Nat /\ MaxCrashes \in Nat
    /\ Kinds \subseteq BOOLEAN /\ QueueErrors \in BOOLEAN
    /\ Workers \cap Crons = {} /\ Workers \cap Requests = {} /\ Crons \cap Requests = {}

Actors    == Workers \cup Crons \cup Requests
\* Every user retry and every automatic one leads to at most one claim.
MaxClaims == MaxAttempts + MaxRetries
Uploads   == 1..MaxClaims    \* a claim's upload, and the handle it returns
NoHandle  == 0
JobIds    == 0..MaxClaims    \* social:{post}:{attempts}

Statuses == {"new", "scheduled", "queued", "publishing", "published", "failed",
             "cancelled", "deleted"}
Cancellable == {"scheduled", "queued"}
Retryable   == {"failed", "cancelled"}

VARIABLES
    post,      \* social_posts: status, pending_handle, external_post_id set,
               \* attempts, claimed_at older than STALE_PUBLISHING_SECONDS,
               \* age of updated_at (1: within a cron pass of the 45 minutes, 2: over)
    account,   \* social_accounts: active, reauth or revoked
    clip,      \* the generated_clips row exists
    async,     \* the post's provider processes uploads after accepting them
    jobs,      \* ARQ's publish jobs by attempt number
    platform,  \* none, pending (accepted, still processing), live or refused
    local,     \* the coroutines
    retries, crashes,
    recorded, told, \* history: handles stored in the row; refusals reported to a poller
    faulty          \* history: an enqueue has raised

vars == <<post, account, clip, async, jobs, platform, local, retries, crashes, recorded, told, faulty>>
world   == <<account, clip, async>>
history == <<retries, crashes, recorded, told, faulty>>

Idle   == [pc |-> "idle", job |-> 0, att |-> 0, seen |-> NoHandle, age |-> 0, out |-> "none"]
NoPost == [status |-> "new", handle |-> NoHandle, posted |-> FALSE, attempts |-> 0,
           old |-> FALSE, age |-> 0]

Init ==
    /\ post = NoPost /\ account = "active" /\ clip = TRUE /\ async \in Kinds
    /\ jobs = [j \in JobIds |-> [state |-> "none", tries |-> 0]]
    /\ platform = [u \in Uploads |-> "none"]
    /\ local = [a \in Actors |-> Idle]
    /\ retries = 0 /\ crashes = 0 /\ recorded = {} /\ told = {} /\ faulty = FALSE

At(a, pc)   == local[a].pc = pc
Goto(a, pc) == local' = [local EXCEPT ![a].pc = pc]
Rest(a)     == local' = [local EXCEPT ![a] = Idle]
\* The publish job returns; the cron pass goes on with its next part.
Leave(a) ==
    local' = [local EXCEPT ![a] =
        IF a \in Workers THEN [Idle EXCEPT !.pc = "finish", !.job = local[a].job]
                         ELSE [Idle EXCEPT !.pc = "sweep"]]

\* update_post: no guard on the row's present state; a deleted row stays away.
UpdatePost(row) ==
    post' = IF post.status = "deleted" THEN post ELSE [row EXCEPT !.age = 0]
Fail == UpdatePost([post EXCEPT !.status = "failed"])

\* A conditional UPDATE ... WHERE status IN from.
MoveTo(status) == post' = [post EXCEPT !.status = status, !.age = 0]
CancelUnpublished ==
    IF post.status \in Cancellable THEN MoveTo("cancelled") ELSE UNCHANGED post

-----------------------------------------------------------------------------
(* Enqueueing.  A job ID already queued or running is a DuplicateJobError,  *)
(* which _enqueue_publish swallows.                                         *)

PutJob(j) ==
    jobs' = IF jobs[j].state = "none"
            THEN [jobs EXCEPT ![j] = [state |-> "queued", tries |-> 0]] ELSE jobs

AfterEnqueue(a) ==
    IF a \in Crons THEN local' = [local EXCEPT ![a] = [Idle EXCEPT !.pc = "list"]]
                   ELSE Rest(a)

Enqueue(a) ==
    /\ At(a, "enqueue")
    /\ \/ PutJob(local[a].att) /\ AfterEnqueue(a) /\ UNCHANGED faulty
       \/ /\ QueueErrors /\ faulty' = TRUE
          /\ PutJob(local[a].att) \/ UNCHANGED jobs
          /\ Goto(a, "undo")
    /\ UNCHANGED <<post, world, platform, retries, crashes, recorded, told>>

\* _enqueue_or_fail and dispatch_scheduled_posts: the post is failed.
UndoEnqueue(a) ==
    /\ At(a, "undo")
    /\ Fail /\ AfterEnqueue(a)
    /\ UNCHANGED <<world, jobs, platform, history>>

-----------------------------------------------------------------------------
(* API requests.                                                            *)

CreatePost(r) ==
    /\ At(r, "idle") /\ post.status = "new" /\ clip /\ account = "active"
    /\ \/ post' = [NoPost EXCEPT !.status = "scheduled"] /\ UNCHANGED local
       \/ post' = [NoPost EXCEPT !.status = "queued"] /\ Goto(r, "enqueue")
    /\ UNCHANGED <<world, jobs, platform, history>>

CancelPost ==
    /\ post.status \in Cancellable /\ CancelUnpublished
    /\ UNCHANGED <<world, jobs, platform, local, history>>

\* retry_post reads the post (and TikTok's current options) first ...
RetryRead(r) ==
    /\ At(r, "idle") /\ post.status \in Retryable
    /\ retries < MaxRetries
    /\ async => account = "active"
    /\ Goto(r, "requeue")
    /\ UNCHANGED <<post, world, jobs, platform, history>>

\* ... and requeue_post decides; the handle is kept.
RequeuePost(r) ==
    /\ At(r, "requeue")
    /\ IF post.status \in Retryable /\ retries < MaxRetries
       THEN /\ MoveTo("queued") /\ retries' = retries + 1
            /\ local' = [local EXCEPT ![r].pc = "enqueue", ![r].att = post.attempts]
       ELSE Rest(r) /\ UNCHANGED <<post, retries>>
    /\ UNCHANGED <<world, jobs, platform, crashes, recorded, told, faulty>>

DeletePost ==
    /\ post.status \in Statuses \ {"new", "queued", "publishing", "deleted"}
    /\ post' = [NoPost EXCEPT !.status = "deleted"]
    /\ UNCHANGED <<world, jobs, platform, local, history>>

\* revoke_account: credentials go and unclaimed posts are cancelled, together.
Disconnect ==
    /\ account # "revoked" /\ account' = "revoked"
    /\ CancelUnpublished
    /\ UNCHANGED <<clip, async, jobs, platform, local, history>>

\* upsert_account: connecting again revives the same row.
Connect ==
    /\ account # "active" /\ account' = "active"
    /\ UNCHANGED <<post, clip, async, jobs, platform, local, history>>

DeleteClip ==
    /\ clip /\ clip' = FALSE
    /\ CancelUnpublished
    /\ UNCHANGED <<account, async, jobs, platform, local, history>>

-----------------------------------------------------------------------------
(* The publish job.                                                         *)

\* ARQ (external): a job is dropped after MaxTries deliveries.
Deliver(w, j) ==
    /\ At(w, "idle") /\ jobs[j].state = "queued"
    /\ IF jobs[j].tries < MaxTries
       THEN /\ jobs' = [jobs EXCEPT ![j] = [state |-> "running", tries |-> @.tries + 1]]
            /\ local' = [local EXCEPT ![w] = [Idle EXCEPT !.pc = "read", !.job = j]]
       ELSE jobs' = [jobs EXCEPT ![j] = [state |-> "none", tries |-> 0]] /\ UNCHANGED local
    /\ UNCHANGED <<post, world, platform, history>>

\* The poller's copy of the row: its handle and the age of its updated_at.
SeeHandle(a) ==
    local' = [local EXCEPT ![a].pc = "look", ![a].seen = post.handle, ![a].age = post.age]

ReadPost(w) ==
    /\ At(w, "read")
    /\ CASE post.status = "publishing" /\ post.handle # NoHandle -> SeeHandle(w)
         [] post.status = "queued" -> Goto(w, "claim")
         [] OTHER -> Leave(w)
    /\ UNCHANGED <<post, world, jobs, platform, history>>

\* Variant: the claim does not require a queued post.
ClaimPostAlways(w) ==
    /\ At(w, "claim") /\ post.attempts < MaxClaims
    /\ IF post.status \notin {"new", "deleted"}
       THEN /\ post' = [post EXCEPT !.status = "publishing", !.attempts = @ + 1,
                                    !.old = FALSE, !.age = 0]
            /\ local' = [local EXCEPT ![w].att = post.attempts + 1, ![w].pc = "prepare"]
       ELSE Leave(w) /\ UNCHANGED post
    /\ UNCHANGED <<world, jobs, platform, history>>

\* claim_post: queued -> publishing, once.  An accepted upload is only polled;
\* a deleted clip leaves no source file.
ClaimPost(w) ==
    /\ At(w, "claim")
    /\ IF post.status = "queued"
       THEN /\ post' = [post EXCEPT !.status = "publishing", !.attempts = @ + 1,
                                    !.old = FALSE, !.age = 0]
            /\ local' = [local EXCEPT ![w].att = post.attempts + 1,
                                      ![w].seen = post.handle,
                                      ![w].pc = IF post.handle # NoHandle THEN "look"
                                                ELSE IF clip THEN "prepare" ELSE "fail"]
       ELSE Leave(w) /\ UNCHANGED post
    /\ UNCHANGED <<world, jobs, platform, history>>

\* Account, rollout access, media and token.  A removed account or a disabled
\* rollout fails the post; media and token problems are publish failures.
Prepare(w) ==
    /\ At(w, "prepare")
    /\ \/ account # "revoked" /\ Goto(w, "upload")
       \/ Goto(w, "fail")
       \/ /\ account # "revoked"
          /\ \E out \in {"retry", "error", "lostAuth"} :
                local' = [local EXCEPT ![w].pc = "record", ![w].out = out]
    /\ UNCHANGED <<post, world, jobs, platform, history>>

FailClaimed(w) ==
    /\ At(w, "fail")
    /\ Fail /\ Leave(w)
    /\ UNCHANGED <<world, jobs, platform, history>>

\* The platform takes the clip: live at once, or after processing.
Accept(u) == platform' = [platform EXCEPT ![u] = IF async THEN "pending" ELSE "live"]

\* provider.publish.  An error answer means nothing was created; a connection
\* lost at the deciding request (ambiguous_outcome) may mean either.
Upload(w) ==
    /\ At(w, "upload")
    /\ \/ Accept(local[w].att) /\ local' = [local EXCEPT ![w].pc = "record", ![w].out = "accepted"]
       \/ /\ UNCHANGED platform
          /\ \E out \in {"retry", "error", "lostAuth"} :
                local' = [local EXCEPT ![w].pc = "record", ![w].out = out]
       \/ /\ Accept(local[w].att) \/ UNCHANGED platform
          /\ local' = [local EXCEPT ![w].pc = "record", ![w].out = "unknown"]
    /\ UNCHANGED <<post, world, jobs, history>>

\* Variant: an unknown outcome is retried like a transient failure.
MayRetryUnknown(w) ==
    local[w].out \in {"retry", "unknown"} /\ local[w].att < MaxAttempts

\* Variant: automatic retries without a limit.
MayRetryForever(w) == local[w].out = "retry"

\* can_retry in _handle_publish_failure.
MayRetry(w) == local[w].out = "retry" /\ local[w].att < MaxAttempts

LoseAuth(a) ==
    account' = IF local[a].out = "lostAuth" /\ account = "active" THEN "reauth" ELSE account

\* _mark_published; TikTok reports no public ID for a private post.
Published(known) ==
    [post EXCEPT !.status = "published", !.handle = NoHandle, !.posted = known]

\* What publish_post writes after the upload.
Record(w) ==
    /\ At(w, "record")
    /\ IF local[w].out = "accepted"
       THEN /\ UpdatePost(IF async THEN [post EXCEPT !.status = "publishing", !.handle = local[w].att]
                                   ELSE Published(TRUE))
            /\ recorded' = IF async THEN recorded \cup {local[w].att} ELSE recorded
            /\ Leave(w)
       ELSE /\ IF MayRetry(w)
               THEN UpdatePost([post EXCEPT !.status = "queued"]) /\ Goto(w, "retry")
               ELSE Fail /\ Leave(w)
            /\ UNCHANGED recorded
    /\ LoseAuth(w)
    /\ UNCHANGED <<clip, async, jobs, platform, retries, crashes, told, faulty>>

\* The deferred job of an automatic retry; if this raises the job just ends.
EnqueueRetry(w) ==
    /\ At(w, "retry")
    /\ \/ PutJob(local[w].att) /\ UNCHANGED faulty
       \/ QueueErrors /\ faulty' = TRUE /\ UNCHANGED jobs
    /\ Leave(w)
    /\ UNCHANGED <<post, world, platform, retries, crashes, recorded, told>>

\* keep_result=0: the job's ID is free again.
JobEnds(w) ==
    /\ At(w, "finish")
    /\ jobs' = [jobs EXCEPT ![local[w].job] = [state |-> "none", tries |-> 0]]
    /\ Rest(w)
    /\ UNCHANGED <<post, world, platform, history>>

-----------------------------------------------------------------------------
(* resolve_pending_post, run by a publish job and by the cron pass on its   *)
(* own copy of the row.                                                     *)

\* Account gone or 45 minutes over: the post fails and keeps its handle.
Look(a) ==
    /\ At(a, "look")
    /\ IF account = "revoked" \/ local[a].age = 2
       THEN Fail /\ Leave(a)
       ELSE Goto(a, "ask") /\ UNCHANGED post
    /\ UNCHANGED <<world, jobs, platform, history>>

Answers(u) == {"none", "error", "lostAuth"}
    \cup (IF platform[u] = "live" THEN {"published"} ELSE {})
    \cup (IF platform[u] = "refused" THEN {"rejected"} ELSE {})

\* Variant: a failed status request counts as activity on the row.
AskTouches(a) ==
    /\ At(a, "ask")
    /\ \E out \in Answers(local[a].seen) :
        /\ IF out = "none" THEN Leave(a) /\ UpdatePost(post)
           ELSE local' = [local EXCEPT ![a].pc = "tell", ![a].out = out] /\ UNCHANGED post
        /\ told' = IF out = "rejected" THEN told \cup {local[a].seen} ELSE told
    /\ UNCHANGED <<world, jobs, platform, retries, crashes, recorded, faulty>>

\* provider.resolve_pending.  Still processing and transient failures leave
\* the row, and its updated_at, alone.
Ask(a) ==
    /\ At(a, "ask")
    /\ \E out \in Answers(local[a].seen) :
        /\ IF out = "none" THEN Leave(a)
           ELSE local' = [local EXCEPT ![a].pc = "tell", ![a].out = out]
        /\ told' = IF out = "rejected" THEN told \cup {local[a].seen} ELSE told
    /\ UNCHANGED <<post, world, jobs, platform, retries, crashes, recorded, faulty>>

\* _mark_published, or _handle_publish_failure, which cannot requeue here; a
\* refusal clears the handle so that a retry uploads again.
Tell(a) ==
    /\ At(a, "tell")
    /\ CASE local[a].out = "published" -> \E known \in BOOLEAN : UpdatePost(Published(known))
         [] local[a].out = "rejected" ->
                UpdatePost([post EXCEPT !.status = "failed", !.handle = NoHandle])
         [] OTHER -> Fail
    /\ LoseAuth(a)
    /\ Leave(a)
    /\ UNCHANGED <<clip, async, jobs, platform, history>>

\* The platform finishes processing what it accepted.
PlatformDecides(u) ==
    /\ platform[u] = "pending"
    /\ \E fate \in {"live", "refused"} : platform' = [platform EXCEPT ![u] = fate]
    /\ UNCHANGED <<post, world, jobs, local, history>>

-----------------------------------------------------------------------------
(* The cron pass: dispatch, poll, sweep.                                    *)

\* claim_due_scheduled_posts commits before the job is enqueued.
DispatchScheduled(c) ==
    /\ At(c, "idle")
    /\ \/ /\ post.status = "scheduled" /\ MoveTo("queued")
          /\ local' = [local EXCEPT ![c].pc = "enqueue", ![c].att = 0]
       \/ Goto(c, "list") /\ UNCHANGED post
    /\ UNCHANGED <<world, jobs, platform, history>>

\* list_pending_publishes.
ListPending(c) ==
    /\ At(c, "list")
    /\ IF post.status = "publishing" /\ post.handle # NoHandle /\ ~post.posted
       THEN SeeHandle(c) ELSE Goto(c, "sweep")
    /\ UNCHANGED <<post, world, jobs, platform, history>>

\* Variant: a lost upload is queued again.
SweepRequeues(c) ==
    /\ At(c, "sweep")
    /\ IF post.status = "publishing" /\ post.handle = NoHandle /\ post.old
       THEN MoveTo("queued") /\ PutJob(post.attempts) ELSE UNCHANGED <<post, jobs>>
    /\ Rest(c)
    /\ UNCHANGED <<world, platform, history>>

\* fail_stale_publishing: a claim this old lost its worker.
SweepStale(c) ==
    /\ At(c, "sweep")
    /\ IF post.status = "publishing" /\ post.handle = NoHandle /\ post.old
       THEN MoveTo("failed") ELSE UNCHANGED post
    /\ Rest(c)
    /\ UNCHANGED <<world, jobs, platform, history>>

-----------------------------------------------------------------------------
(* Crashes, timeouts and time.                                              *)

\* An upload whose coroutine dies with it may have reached the platform.
MayBeAccepted(a) == UNCHANGED platform \/ (At(a, "upload") /\ Accept(local[a].att))

\* The process is killed or shut down: a publish job is redelivered.
Crash(a) ==
    /\ ~At(a, "idle") /\ crashes < MaxCrashes /\ crashes' = crashes + 1
    /\ MayBeAccepted(a)
    /\ Rest(a)
    /\ jobs' = IF a \in Workers THEN [jobs EXCEPT ![local[a].job].state = "queued"] ELSE jobs
    /\ UNCHANGED <<post, world, retries, recorded, told, faulty>>

\* PUBLISH_JOB_TIMEOUT_SECONDS: the job is over, except that run_in_thread
\* waits for an upload it cannot stop, and then drops its result.
JobTimesOut(w) ==
    /\ ~At(w, "idle") /\ ~At(w, "finish") /\ ~At(w, "drain")
    /\ crashes < MaxCrashes /\ crashes' = crashes + 1
    /\ IF At(w, "upload") THEN Goto(w, "drain") ELSE Leave(w)
    /\ UNCHANGED <<post, world, jobs, platform, retries, recorded, told, faulty>>

Drain(w) ==
    /\ At(w, "drain")
    /\ UNCHANGED platform \/ Accept(local[w].att)
    /\ Leave(w)
    /\ UNCHANGED <<post, world, jobs, history>>

\* Within its timeout the job of the present claim is still at work.
Working(w) == local[w].att = post.attempts /\ local[w].pc \notin {"idle", "finish", "drain"}

\* STALE_PUBLISHING_SECONDS is twice the job timeout.
ClaimAges ==
    /\ post.attempts > 0 /\ ~post.old
    /\ \A w \in Workers : ~Working(w)
    /\ post' = [post EXCEPT !.old = TRUE]
    /\ UNCHANGED <<world, jobs, platform, local, history>>

Waiting == post.status = "publishing" /\ post.handle # NoHandle
\* A poller at work on a copy of an earlier version of the row.
Outdated(a) ==
    local[a].pc \in {"look", "ask", "tell"} /\ (local[a].seen # post.handle \/ local[a].age # 0)

\* updated_at comes within one cron pass (300 s) of the 45 minutes: no pass
\* that began before the last write is still running.
WaitGrows ==
    /\ Waiting /\ post.age = 0 /\ \A a \in Actors : ~Outdated(a)
    /\ post' = [post EXCEPT !.age = 1]
    /\ UNCHANGED <<world, jobs, platform, local, history>>

Older(a) == [local[a] EXCEPT !.age = IF @ = 1 THEN 2 ELSE @]

WaitIsOver ==
    /\ Waiting /\ post.age = 1
    /\ post' = [post EXCEPT !.age = 2]
    /\ local' = [a \in Actors |-> Older(a)]
    /\ UNCHANGED <<world, jobs, platform, history>>

\* The same for a copy of a row that has been written since.
CopyIsOver(a) ==
    /\ local[a].age = 1
    /\ local' = [local EXCEPT ![a] = Older(a)]
    /\ UNCHANGED <<post, world, jobs, platform, history>>

-----------------------------------------------------------------------------
RequestStep(r) == CreatePost(r) \/ RetryRead(r) \/ RequeuePost(r) \/ Enqueue(r) \/ UndoEnqueue(r)
UserStep == CancelPost \/ DeletePost \/ Disconnect \/ Connect \/ DeleteClip

Poll(a) == Look(a) \/ Ask(a) \/ Tell(a)

JobStep(w) ==
    \/ ReadPost(w) \/ ClaimPost(w) \/ Prepare(w) \/ FailClaimed(w) \/ Upload(w)
    \/ Record(w) \/ EnqueueRetry(w) \/ Poll(w) \/ Drain(w) \/ JobEnds(w)

CronStep(c) ==
    \/ DispatchScheduled(c) \/ Enqueue(c) \/ UndoEnqueue(c)
    \/ ListPending(c) \/ Poll(c) \/ SweepStale(c)

Time == ClaimAges \/ WaitGrows \/ WaitIsOver \/ \E a \in Actors : CopyIsOver(a)

Next ==
    \/ \E r \in Requests : RequestStep(r)
    \/ UserStep
    \/ \E w \in Workers : JobStep(w) \/ JobTimesOut(w) \/ \E j \in JobIds : Deliver(w, j)
    \/ \E c \in Crons : CronStep(c)
    \/ \E a \in Actors : Crash(a)
    \/ \E u \in Uploads : PlatformDecides(u)
    \/ Time

Spec == Init /\ [][Next]_vars

(* Fairness: running coroutines finish, the cron fires every minute, and    *)
(* time passes.  Nothing is assumed of the user, the platform or crashes.   *)
FairSpec ==
    /\ Spec
    /\ \A w \in Workers : WF_vars(JobStep(w))
    /\ \A c \in Crons : WF_vars(CronStep(c))
    /\ SF_vars(ClaimAges) /\ SF_vars(WaitGrows) /\ WF_vars(WaitIsOver)

-----------------------------------------------------------------------------
(* Properties.                                                              *)

PCs == {"idle", "enqueue", "undo", "requeue", "read", "claim", "prepare", "fail",
        "upload", "record", "retry", "drain", "finish", "list", "look", "ask", "tell", "sweep"}
Outcomes == {"none", "accepted", "retry", "error", "lostAuth", "unknown", "published", "rejected"}

\* The database row, ARQ's records and the coroutines' variables keep to their
\* domains; in particular attempts stays within one claim per retry.
TypeOK ==
    /\ post \in [status : Statuses, handle : Uploads \cup {NoHandle}, posted : BOOLEAN,
                 attempts : 0..MaxClaims, old : BOOLEAN, age : 0..2]
    /\ account \in {"active", "reauth", "revoked"} /\ clip \in BOOLEAN /\ async \in Kinds
    /\ jobs \in [JobIds -> [state : {"none", "queued", "running"}, tries : 0..MaxTries]]
    /\ platform \in [Uploads -> {"none", "pending", "live", "refused"}]
    /\ local \in [Actors -> [pc : PCs, job : JobIds, att : 0..MaxClaims,
                             seen : Uploads \cup {NoHandle}, age : 0..2, out : Outcomes]]
    /\ retries \in 0..MaxRetries /\ crashes \in 0..MaxCrashes
    /\ recorded \subseteq Uploads /\ told \subseteq Uploads /\ faulty \in BOOLEAN

Copies == {u \in Uploads : platform[u] \in {"pending", "live"}}

\* However jobs are duplicated, redelivered, timed out, swept or retried
\* automatically, the platform holds no more copies of the clip than the user
\* asked for: one, and one more for each retry the user requested.
AutomaticNeverDuplicates == Cardinality(Copies) <= 1 + retries

\* On a platform that answers at once, and unless an enqueue has raised, two
\* publish jobs never upload the clip at the same time: the claim admits one, and
\* the sweep only gives up claims whose job is over.  (_enqueue_or_fail fails the
\* post even if the queue did store the job, which may be uploading by then; the
\* user's retry is a second one.  Where uploads are polled, a late poll fails a
\* post whose next upload has begun, with the same effect.)
OneUploader ==
    ~faulty /\ ~async => Cardinality({w \in Workers : At(w, "upload")}) <= 1

\* On a platform that answers at once a published post stays published until
\* the user deletes it: no late job, sweep or request makes it a post that can
\* be published again.  (Where uploads are polled a late poll does: see
\* AcceptedNeverReuploaded.)
PublishedIsFinal ==
    [][post.status = "published" /\ ~async /\ ~faulty =>
          post'.status \in {"published", "deleted"}]_vars

\* There a cancelled post leaves that state only by the user's retry or
\* deletion, so that a cancelled post is never published.
CancelSticks ==
    [][post.status = "cancelled" /\ ~async /\ ~faulty =>
          post'.status \in {"cancelled", "deleted"} \/ retries' = retries + 1]_vars

\* What a post came to stands: published and cancelled posts stay so.
OutcomesStand == PublishedIsFinal /\ CancelSticks

\* A post does not stay in publishing: the job records an outcome, a poll
\* settles or times out an accepted upload, or the sweep fails a lost one.
PublishingEnds == post.status = "publishing" ~> post.status # "publishing"

\* _enqueue_or_fail: "never leave it queued without a job".  A post that was
\* never claimed and is queued has a job that will claim it, or a coroutine
\* that is about to enqueue one or to fail the post.
FreshlyQueuedHasJob ==
    post.status = "queued" /\ post.attempts = 0 =>
        \/ \E j \in JobIds : jobs[j].state = "queued"
        \/ \E a \in Actors : local[a].pc \in {"read", "claim", "enqueue", "undo"}

\* "An upload the platform already accepted is only checked again, never
\* uploaded twice": an upload starts only when the platform has reported the
\* refusal of every upload whose handle was stored.
AcceptedNeverReuploaded ==
    [][\A u \in Uploads : platform[u] = "none" /\ platform'[u] # "none" => recorded \subseteq told]_vars
=============================================================================
