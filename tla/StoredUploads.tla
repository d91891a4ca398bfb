----------------------------- MODULE StoredUploads -----------------------------
(* Direct uploads of one user (POST /upload, upload_ingest, upload_repository), *)
(* the tasks made of them, and the three passes that delete their files: the    *)
(* expiry of upload sessions, the deletion outbox and the orphan sweep.         *)
EXTENDS Naturals, FiniteSets

CONSTANTS Uploads,      \* requests; each publishes a file of its own name
          Contents, Keys,
          Nothing       \* no file, no key, no path, nobody

VARIABLES up,           \* each request: step, content, Idempotency-Key, session it reuses, answer
          file,         \* content under TEMP_DIR/uploads, by name
          session,      \* media_upload_sessions by video_path
          keys,         \* media_upload_idempotency_keys
          owner,        \* holder of the user's advisory lock
          guard,        \* holder of the source lock of each path
          tasks,        \* paths that are the source of a task
          creating,     \* path a request has validated and not yet inserted
          expiry,       \* the row the expiry pass works on
          drain,        \* path the outbox is deleting
          toDelete      \* media_deletions

uvars == <<up, file, session, keys, owner, guard, tasks, creating, expiry, drain, toDelete>>

NoSession == [live |-> FALSE, digest |-> Nothing, ref |-> FALSE, old |-> FALSE]
NoRequest == [pc |-> "idle", content |-> Nothing, key |-> Nothing, reuse |-> Nothing,
              learn |-> FALSE, answer |-> Nothing]
Resting   == [pc |-> "idle", at |-> Nothing]
Paths     == Uploads \cup {Nothing}

TypeOK ==
    /\ up \in [Uploads -> [pc: {"off", "idle", "published", "placing", "binding", "dropping", "done"},
                           content: Contents \cup {Nothing}, key: Keys \cup {Nothing},
                           reuse: Paths, learn: BOOLEAN, answer: Paths]]
    /\ file \in [Uploads -> Contents \cup {Nothing}]
    /\ session \in [Uploads -> [live: BOOLEAN, digest: Contents \cup {Nothing}, ref: BOOLEAN, old: BOOLEAN]]
    /\ keys \in [Keys -> Paths]
    /\ owner \in Paths /\ creating \in Paths /\ drain \in Paths
    /\ guard \in [Uploads -> {Nothing, "drain", "expiry"}]
    /\ tasks \cup toDelete \subseteq Uploads
    /\ expiry \in [pc: {"idle", "selected", "guarded", "unlinked"}, at: Paths]

StartIn(pc) ==
    /\ up = [u \in Uploads |-> [NoRequest EXCEPT !.pc = pc]]
    /\ file = [u \in Uploads |-> Nothing]
    /\ session = [u \in Uploads |-> NoSession]
    /\ keys = [k \in Keys |-> Nothing]
    /\ owner = Nothing /\ creating = Nothing /\ drain = Nothing
    /\ guard = [u \in Uploads |-> Nothing]
    /\ tasks = {} /\ toDelete = {}
    /\ expiry = Resting
Init == StartIn("idle")
\* Nobody uploads anything.
Idle == StartIn("off")

\* What keeps a file from the outbox and the sweep: a task, or a completed session.
Referenced(p) == p \in tasks \/ session[p].live
Leftover(p) == file[p] # Nothing /\ ~Referenced(p) /\ up[p].pc = "done"
Readable(p) == file[p] # Nothing \/ session[p].ref

(***************************************************************************)
(* POST /upload.                                                           *)
(***************************************************************************)
requests == <<up, owner>>
rest == <<tasks, creating, expiry, drain, toDelete, guard>>

\* publish_spooled_upload: the file is linked, hashed and synced.
Publish(u) ==
    /\ up[u].pc = "idle"
    /\ \E c \in Contents, k \in Keys \cup {Nothing} :
         /\ up' = [up EXCEPT ![u].pc = "published", ![u].content = c, ![u].key = k]
         /\ file' = [file EXCEPT ![u] = c]
    /\ UNCHANGED <<session, keys, owner, rest>>

Reuse(u, p, learn) ==
    /\ owner' = u
    /\ up' = [up EXCEPT ![u].pc = IF session[p].ref THEN "binding" ELSE "placing",
                         ![u].reuse = p, ![u].learn = learn]
    /\ UNCHANGED <<session, keys>>
Refuse(u) ==
    /\ up' = [up EXCEPT ![u].pc = "dropping"]
    /\ owner' = Nothing /\ UNCHANGED <<session, keys>>

\* claim_stored_upload, under the user's lock: the key, then the same bytes,
\* then a new completed session unless a limit is reached.
ByKey(u) == IF up[u].key = Nothing THEN Nothing ELSE keys[up[u].key]
SameBytes(u) == {p \in Uploads : session[p].live /\ session[p].digest = up[u].content}

\* Variant: a known key answers with its file, whatever was sent.
ClaimByKey(u) ==
    /\ up[u].pc = "published" /\ owner = Nothing
    /\ IF ByKey(u) # Nothing THEN Reuse(u, ByKey(u), FALSE)
       ELSE IF SameBytes(u) # {} THEN \E p \in SameBytes(u) : Reuse(u, p, up[u].key # Nothing)
       ELSE /\ session' = [session EXCEPT ![u] = [NoSession EXCEPT !.live = TRUE, !.digest = up[u].content]]
            /\ keys' = [k \in Keys |-> IF k = up[u].key THEN u ELSE keys[k]]
            /\ up' = [up EXCEPT ![u].pc = "done", ![u].answer = u]
            /\ UNCHANGED owner
    /\ UNCHANGED <<file, rest>>

Claim(u) ==
    /\ up[u].pc = "published" /\ owner = Nothing
    /\ \/ ByKey(u) # Nothing /\ session[ByKey(u)].digest # up[u].content /\ Refuse(u)
       \/ ByKey(u) # Nothing /\ session[ByKey(u)].digest = up[u].content /\ Reuse(u, ByKey(u), FALSE)
       \/ ByKey(u) = Nothing /\ \E p \in SameBytes(u) : Reuse(u, p, up[u].key # Nothing)
       \/ /\ ByKey(u) = Nothing /\ SameBytes(u) = {}
          /\ \/ Refuse(u)
             \/ /\ session' = [session EXCEPT ![u] = [NoSession EXCEPT !.live = TRUE, !.digest = up[u].content]]
                /\ keys' = [k \in Keys |-> IF k = up[u].key THEN u ELSE keys[k]]
                /\ up' = [up EXCEPT ![u].pc = "done", ![u].answer = u]
                /\ UNCHANGED owner
    /\ UNCHANGED <<file, rest>>

\* A missing file is put back under the old name, unless the bucket has it.
PlaceMissing(u) ==
    LET p == up[u].reuse IN
    /\ up[u].pc = "placing"
    /\ up' = [up EXCEPT ![u].pc = "binding"]
    /\ IF file[p] = Nothing
       THEN file' = [file EXCEPT ![p] = file[u]]
       ELSE UNCHANGED file
    /\ UNCHANGED <<session, keys, owner, rest>>

Dropping(r, answer) == [r EXCEPT !.pc = "dropping", !.reuse = Nothing, !.learn = FALSE, !.answer = answer]

\* A new key for the same bytes is remembered; the session may be gone by then.
Bind(u) ==
    LET p == up[u].reuse IN
    /\ up[u].pc = "binding" /\ owner' = Nothing
    /\ IF up[u].learn /\ ~session[p].live
       THEN up' = [up EXCEPT ![u] = Dropping(@, Nothing)] /\ UNCHANGED keys
       ELSE /\ up' = [up EXCEPT ![u] = Dropping(@, p)]
            /\ keys' = [k \in Keys |-> IF up[u].learn /\ k = up[u].key THEN p ELSE keys[k]]
    /\ UNCHANGED <<file, session, rest>>

\* A second copy is not kept.
Unlink(u) ==
    /\ up[u].pc = "dropping"
    /\ up' = [up EXCEPT ![u].pc = "done"]
    /\ file' = [file EXCEPT ![u] = Nothing]
    /\ UNCHANGED <<session, keys, owner, rest>>

ApiDies(u) ==
    /\ up[u].pc \in {"published", "placing", "binding", "dropping"}
    /\ up' = [up EXCEPT ![u].pc = "done", ![u].reuse = Nothing, ![u].learn = FALSE]
    /\ owner' = IF owner = u THEN Nothing ELSE owner
    /\ UNCHANGED <<file, session, keys, rest>>

(***************************************************************************)
(* persist_local_upload, after the answer and again in the worker. One that *)
(* fails leaves the row alone, and so does one whose row is gone.          *)
(***************************************************************************)
Persist(p) ==
    /\ session[p].live /\ ~session[p].ref /\ file[p] # Nothing
    /\ session' = [session EXCEPT ![p].ref = TRUE]
    /\ UNCHANGED <<requests, file, keys, rest>>

(***************************************************************************)
(* Tasks: the source is validated, then inserted under its guard.          *)
(***************************************************************************)
Validate(p) ==
    /\ creating = Nothing /\ Readable(p)
    /\ \E u \in Uploads : up[u].pc \in {"dropping", "done"} /\ up[u].answer = p
    /\ creating' = p
    /\ UNCHANGED <<requests, file, session, keys, tasks, expiry, drain, toDelete, guard>>
CreateTask ==
    /\ creating # Nothing /\ creating' = Nothing
    /\ \/ guard[creating] = Nothing /\ tasks' = tasks \cup {creating}
       \/ UNCHANGED tasks       \* the lock times out, the allowance refuses, the API dies
    /\ UNCHANGED <<requests, file, session, keys, expiry, drain, toDelete, guard>>
DeleteTask(p) ==
    /\ p \in tasks /\ tasks' = tasks \ {p}
    /\ toDelete' = toDelete \cup {p}
    /\ UNCHANGED <<requests, file, session, keys, creating, expiry, drain, guard>>

(***************************************************************************)
(* The deletion outbox.                                                    *)
(***************************************************************************)
\* Variant: the entry is believed.
DrainUnchecked(p) ==
    /\ drain = Nothing /\ p \in toDelete /\ guard[p] = Nothing
    /\ drain' = p /\ guard' = [guard EXCEPT ![p] = "drain"]
    /\ UNCHANGED <<requests, file, session, keys, tasks, creating, expiry, toDelete>>
DrainTake(p) ==
    /\ drain = Nothing /\ p \in toDelete /\ guard[p] = Nothing
    /\ IF Referenced(p)
       THEN toDelete' = toDelete \ {p} /\ UNCHANGED <<drain, guard>>
       ELSE drain' = p /\ guard' = [guard EXCEPT ![p] = "drain"] /\ UNCHANGED toDelete
    /\ UNCHANGED <<requests, file, session, keys, tasks, creating, expiry>>
DrainDelete ==
    /\ drain # Nothing /\ drain' = Nothing
    /\ guard' = [guard EXCEPT ![drain] = Nothing]
    /\ file' = [file EXCEPT ![drain] = Nothing]
    /\ toDelete' = toDelete \ {drain}
    /\ UNCHANGED <<requests, session, keys, tasks, creating, expiry>>
\* The entry stays and is tried again later.
DrainFails ==
    /\ drain # Nothing /\ drain' = Nothing
    /\ guard' = [guard EXCEPT ![drain] = Nothing]
    /\ UNCHANGED <<requests, file, session, keys, tasks, creating, expiry, toDelete>>

\* sweep_orphaned_media: the grace is a day, longer than any request that has yet
\* to store a row for its file.
\* Variant: the directory of the uploads is left to the expiry of their sessions.
SweepOthers(p) == FALSE /\ UNCHANGED uvars
SweepOrphan(p) ==
    /\ Leftover(p) /\ p \notin toDelete
    /\ toDelete' = toDelete \cup {p}
    /\ UNCHANGED <<requests, file, session, keys, tasks, creating, expiry, drain, guard>>

(***************************************************************************)
(* The expiry of completed sessions after two days.                        *)
(***************************************************************************)
\* The pass reads the rows first, and works on each of them later.
ExpirySelect(p) ==
    /\ expiry = Resting /\ session[p].old /\ p \notin tasks
    /\ expiry' = [pc |-> "selected", at |-> p]
    /\ UNCHANGED <<requests, file, session, keys, tasks, creating, drain, toDelete, guard>>
ExpiryGuard(p) ==
    /\ expiry = [pc |-> "selected", at |-> p] /\ guard[p] = Nothing
    /\ IF p \in tasks
       THEN expiry' = Resting /\ UNCHANGED guard
       ELSE expiry' = [expiry EXCEPT !.pc = "guarded"] /\ guard' = [guard EXCEPT ![p] = "expiry"]
    /\ UNCHANGED <<requests, file, session, keys, tasks, creating, drain, toDelete>>
ExpiryUnlink ==
    /\ expiry.pc = "guarded" /\ expiry' = [expiry EXCEPT !.pc = "unlinked"]
    /\ file' = [file EXCEPT ![expiry.at] = Nothing]
    /\ UNCHANGED <<requests, session, keys, tasks, creating, drain, toDelete, guard>>
ExpiryForget ==
    /\ expiry.pc = "unlinked" /\ expiry' = Resting
    /\ session' = [session EXCEPT ![expiry.at] = NoSession]
    /\ keys' = [k \in Keys |-> IF keys[k] = expiry.at THEN Nothing ELSE keys[k]]
    /\ guard' = [guard EXCEPT ![expiry.at] = Nothing]
    /\ UNCHANGED <<requests, file, tasks, creating, drain, toDelete>>
\* A deletion fails, or the worker dies.
ExpiryStops ==
    /\ expiry # Resting /\ expiry' = Resting
    /\ guard' = [p \in Uploads |-> IF guard[p] = "expiry" THEN Nothing ELSE guard[p]]
    /\ UNCHANGED <<requests, file, session, keys, tasks, creating, drain, toDelete>>

\* Days pass.
GrowsOld(p) ==
    /\ session[p].live /\ ~session[p].old
    /\ session' = [session EXCEPT ![p].old = TRUE]
    /\ UNCHANGED <<requests, file, keys, rest>>

Next ==
    \/ \E u \in Uploads :
         \/ Publish(u) \/ Claim(u) \/ PlaceMissing(u) \/ Bind(u) \/ Unlink(u) \/ ApiDies(u)
         \/ Persist(u) \/ Validate(u) \/ DeleteTask(u)
         \/ DrainTake(u) \/ SweepOrphan(u) \/ ExpirySelect(u) \/ ExpiryGuard(u) \/ GrowsOld(u)
    \/ CreateTask \/ DrainDelete \/ DrainFails \/ ExpiryUnlink \/ ExpiryForget \/ ExpiryStops

\* The cleanup pass runs every five minutes and the orphan sweep every day; a
\* deletion does not fail for ever; files and requests grow old.
Fairness ==
    /\ SF_uvars(DrainDelete) /\ WF_uvars(ExpiryUnlink \/ ExpiryForget)
    /\ \A u \in Uploads :
         /\ WF_uvars(DrainTake(u))
         /\ WF_uvars(PlaceMissing(u) \/ Bind(u) \/ Unlink(u) \/ SweepOrphan(u))
Spec == Init /\ [][Next]_uvars /\ Fairness

(***************************************************************************)
(* Properties.                                                             *)
(***************************************************************************)
\* No pass deletes the file of a task's source: while a task names an upload, its
\* bytes are readable for as long as they were when the task was inserted.
SourceKept == [][\A p \in tasks \cap tasks' : Readable(p) => Readable(p)']_uvars

\* A retry of the same bytes answers the path of those bytes, "reusing that key for
\* different bytes is 409", and two requests that race never keep two copies.
UploadsAreIdempotent ==
    /\ \A u \in Uploads : LET p == up[u].answer IN
         p # Nothing => file[p] \in {up[u].content, Nothing} /\ session[p].digest \in {up[u].content, Nothing}
    /\ \A u, v \in Uploads : LET p == up[u].answer  q == up[v].answer IN
         /\ up[u].key = up[v].key /\ up[u].key # Nothing /\ p # Nothing /\ q # Nothing
         /\ session[p].live /\ session[q].live
         => up[u].content = up[v].content
    /\ \A p, q \in Uploads :
         session[p].live /\ session[q].live /\ session[p].digest = session[q].digest => p = q

\* A file nothing refers to any more is deleted, whichever of the requests and
\* passes was interrupted on the way: when the uploads stop, none is left.
LeftoversGo == []<>(\A p \in Uploads : ~Leftover(p))
=============================================================================
