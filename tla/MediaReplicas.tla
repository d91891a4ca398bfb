---------------------------- MODULE MediaReplicas ----------------------------
(* One media object behind the two stores of ReplicatedMediaClient           *)
(* (media_replication.py). Objects do not interact: every call names one key *)
(* and serializes on that key's file lock.                                   *)
(*                                                                           *)
(* An object is either a browser upload, which one provider assembles from   *)
(* its parts, or a file the servers write and rewrite (clips, editor drafts).*)
(* A revision is the content of one write; 0 is an absent object.            *)
EXTENDS Naturals

CONSTANTS
    Clients,        \* threads of the API and the worker
    Mirrors,        \* those that run mirror_media.py
    Crons,          \* invocations of replicate_pending_media
    Nobody,
    Primary, Fallback,
    MaxRevisions,   \* bound: writes of the object
    MaxCrashes      \* bound: processes that die in the middle of a call

Stores == {Primary, Fallback}
Procs  == Clients \cup Mirrors \cup Crons
Revisions == 1..MaxRevisions

VARIABLES
    browser,    \* the object is a browser upload
    session,    \* its multipart session: where it is, and how far
    stores,     \* what each provider holds
    up,         \* whether each provider answers
    manifest,   \* pending.json of the object
    payloads,   \* revisions copied to the shared volume
    lock,       \* who holds the object's flock
    pc, call,   \* each thread's step, and the write it performs
    crashes,
    written,    \* ghost: revisions so far, numbered in the order of the lock
    latest,     \* ghost: the write serialized last, and whether its caller was told it succeeded
    unmirrored  \* ghost: one provider may hold the object alone, and no manifest says so

disk == <<manifest, payloads>>
vars == <<browser, session, stores, up, manifest, payloads, lock, pc, call,
          crashes, written, latest, unmirrored>>

NoManifest == [op |-> "none", rev |-> 0, pending |-> {}, source |-> Primary]
Manifests  == [op: {"none", "upload", "delete", "copy"}, rev: 0..MaxRevisions,
               pending: SUBSET Stores, source: Stores]
Idle  == [op |-> "none", rev |-> 0, todo |-> {}, stored |-> FALSE]
Calls == [op: {"none", "upload", "delete", "complete", "sync", "mirror"},
          rev: 0..MaxRevisions, todo: SUBSET Stores, stored: BOOLEAN]
Steps == {"idle", "locking", "upload", "save", "apply", "complete", "record",
          "delete", "sync", "mirror", "gone"}

TypeOK ==
    /\ browser \in BOOLEAN
    /\ session \in [state: {"none", "open", "done", "gone"}, at: Stores]
    /\ stores \in [Stores -> 0..MaxRevisions]
    /\ up \in [Stores -> BOOLEAN]
    /\ manifest \in Manifests
    /\ payloads \subseteq 1..MaxRevisions
    /\ lock \in Procs \cup {Nobody}
    /\ pc \in [Procs -> Steps]
    /\ call \in [Procs -> Calls]
    /\ crashes \in 0..MaxCrashes
    /\ written \in 0..MaxRevisions
    /\ latest \in [rev: 0..MaxRevisions, told: BOOLEAN]
    /\ unmirrored \in BOOLEAN

\* A browser upload that has not begun, or a file of the servers. A file may be
\* older than the fallback, and then only the primary has it.
Init ==
    /\ browser \in BOOLEAN
    /\ session = [state |-> "none", at |-> Primary]
    /\ written \in IF browser THEN {0} ELSE {0, 1}
    /\ stores = [s \in Stores |-> IF s = Primary THEN written ELSE 0]
    /\ latest = [rev |-> written, told |-> written = 1]
    /\ unmirrored = (written = 1)
    /\ up \in [Stores -> BOOLEAN]
    /\ manifest = NoManifest
    /\ payloads = {}
    /\ lock = Nobody
    /\ pc = [p \in Procs |-> "idle"]
    /\ call = [p \in Procs |-> Idle]
    /\ crashes = 0

\* No thread works on the object.
Gone ==
    /\ browser = FALSE /\ session = [state |-> "none", at |-> Primary]
    /\ written = 0 /\ stores = [s \in Stores |-> 0]
    /\ latest = [rev |-> 0, told |-> FALSE] /\ unmirrored = FALSE
    /\ up = [s \in Stores |-> FALSE]
    /\ manifest = NoManifest /\ payloads = {} /\ lock = Nobody
    /\ pc = [p \in Procs |-> "gone"] /\ call = [p \in Procs |-> Idle]
    /\ crashes = MaxCrashes

(***************************************************************************)
(* Calls and their lock.                                                   *)
(***************************************************************************)
Goto(p, step) == pc' = [pc EXCEPT ![p] = step]

Return(p) ==
    /\ lock' = IF lock = p THEN Nobody ELSE lock
    /\ Goto(p, "idle")
    /\ call' = [call EXCEPT ![p] = Idle]

\* A deletion follows the completion: until then no task names the object and
\* no sweep lists it. A pass of the retries holds a lease of its own.
Start(p, op) ==
    /\ pc[p] = "idle"
    /\ CASE op = "upload"   -> ~browser /\ written < MaxRevisions
         [] op = "complete" -> session.state # "none"
         [] op = "delete"   -> browser => session.state = "done"
         [] op = "sync"     -> manifest # NoManifest /\ \A c \in Crons : pc[c] = "idle"
         [] op = "mirror"   -> stores[Primary] # 0
    /\ Goto(p, "locking")
    /\ call' = [call EXCEPT ![p].op = op]
    /\ UNCHANGED <<browser, session, stores, up, disk, lock, crashes, written, latest, unmirrored>>

\* Writers wait for the lock.
Acquire(p) ==
    /\ pc[p] = "locking"
    /\ call[p].op = "upload" => written < MaxRevisions
    /\ lock = Nobody
    /\ lock' = p
    /\ Goto(p, call[p].op)
    /\ written' = IF call[p].op = "upload" THEN written + 1 ELSE written
    /\ call' = [call EXCEPT ![p].rev = IF call[p].op = "upload" THEN written + 1 ELSE 0]
    /\ UNCHANGED <<browser, session, stores, up, disk, crashes, latest, unmirrored>>

\* The retries pass over an object that is locked.
SkipLocked(p) ==
    /\ pc[p] = "locking"
    /\ call[p].op = "sync"
    /\ lock # Nobody
    /\ Return(p)
    /\ UNCHANGED <<browser, session, stores, up, disk, crashes, written, latest, unmirrored>>

(***************************************************************************)
(* Staging and delivery.                                                   *)
(***************************************************************************)
\* The payload is copied and synced before the manifest that names it.
CopyPayload(p, rev) ==
    /\ payloads' = payloads \cup {rev}
    /\ call' = [call EXCEPT ![p].rev = rev]
    /\ Goto(p, "save")
    /\ UNCHANGED <<browser, session, stores, up, manifest, lock, crashes, written, latest, unmirrored>>

Stage(p) ==
    /\ pc[p] = "upload"
    /\ CopyPayload(p, call[p].rev)

\* No space on the volume, or the source of a copy does not answer: the call
\* raises and leaves what was there.
GiveUp(p) ==
    /\ pc[p] \in {"upload", "sync", "mirror"}
    /\ pc[p] = "sync" => manifest.op = "copy"
    /\ Return(p)
    /\ UNCHANGED <<browser, session, stores, up, disk, crashes, written, latest, unmirrored>>

\* The new manifest replaces whatever was pending, and older payloads go.
Replace(p, m) ==
    /\ manifest' = m
    /\ payloads' = payloads \cap {m.rev}
    /\ unmirrored' = FALSE
    /\ Goto(p, "apply")
    /\ call' = [call EXCEPT ![p].todo = m.pending]
    /\ UNCHANGED <<browser, session, stores, up, lock, crashes, written>>

SaveManifest(p) ==
    /\ pc[p] = "save"
    /\ LET pending == CASE call[p].op = "upload" -> Stores
                        [] call[p].op = "sync"   -> manifest.pending
                        [] call[p].op = "mirror" -> {Fallback}
       IN Replace(p, [op |-> "upload", rev |-> call[p].rev, pending |-> pending,
                      source |-> Primary])
    /\ latest' = IF call[p].op = "upload" THEN [rev |-> call[p].rev, told |-> FALSE] ELSE latest

\* delete_object saves the tombstone before it asks a provider.
SaveTombstone(p) ==
    /\ pc[p] = "delete"
    /\ Replace(p, [op |-> "delete", rev |-> 0, pending |-> Stores, source |-> Primary])
    /\ latest' = [rev |-> 0, told |-> FALSE]

\* Variant: a provider that did not answer is taken off the list as well.
DeliverUnchecked(p, s) ==
    /\ pc[p] = "apply"
    /\ s \in call[p].todo
    /\ stores' \in {stores, [stores EXCEPT ![s] = manifest.rev]}
    /\ manifest' = [manifest EXCEPT !.pending = @ \ {s}]
    /\ call' = [call EXCEPT ![p].todo = @ \ {s}, ![p].stored = TRUE]
    /\ UNCHANGED <<browser, session, up, payloads, lock, pc, crashes, written, latest, unmirrored>>

\* One provider of _apply, the primary first. A provider that does not answer
\* may still have done what it was asked.
Deliver(p, s) ==
    /\ pc[p] = "apply"
    /\ s \in call[p].todo
    /\ s = Fallback => Primary \notin call[p].todo
    /\ \/ /\ up[s]
          /\ stores' = [stores EXCEPT ![s] = manifest.rev]
          /\ manifest' = [manifest EXCEPT !.pending = @ \ {s}]
          /\ call' = [call EXCEPT ![p].todo = @ \ {s}, ![p].stored = TRUE]
       \/ /\ ~up[s]
          /\ stores' \in {stores, [stores EXCEPT ![s] = manifest.rev]}
          /\ call' = [call EXCEPT ![p].todo = @ \ {s}]
          /\ UNCHANGED manifest
    /\ UNCHANGED <<browser, session, up, payloads, lock, pc, crashes, written, latest, unmirrored>>

\* Variant: the manifest of a finished delivery stays.
FinishKept(p) ==
    /\ pc[p] = "apply"
    /\ call[p].todo = {}
    /\ latest' = [latest EXCEPT !.told = @ \/ call[p].stored]
    /\ Return(p)
    /\ UNCHANGED <<browser, session, stores, up, disk, crashes, written, unmirrored>>

\* The manifest and the payload go when nothing is pending. An upload succeeds
\* with one provider, a deletion needs both.
Finish(p) ==
    /\ pc[p] = "apply"
    /\ call[p].todo = {}
    /\ LET delivered == manifest.pending = {}
           succeeded == CASE call[p].op = "upload" -> call[p].stored
                          [] call[p].op = "delete" -> delivered
                          [] OTHER                 -> FALSE
       IN /\ manifest' = IF delivered THEN NoManifest ELSE manifest
          /\ payloads' = IF delivered THEN {} ELSE payloads
          /\ latest' = [latest EXCEPT !.told = @ \/ succeeded]
    /\ Return(p)
    /\ UNCHANGED <<browser, session, stores, up, crashes, written, unmirrored>>

\* _sync_pending, with the lock: the manifest may be gone by now; a copy is
\* first fetched from the provider that has it, an upload or deletion goes on.
SyncPending(p) ==
    /\ pc[p] = "sync"
    /\ \/ /\ manifest = NoManifest
          /\ Return(p)
          /\ UNCHANGED <<browser, session, stores, up, disk, crashes, written, latest, unmirrored>>
       \/ /\ manifest.op = "copy"
          /\ up[manifest.source] /\ stores[manifest.source] # 0
          /\ CopyPayload(p, stores[manifest.source])
       \/ /\ manifest.op \in {"upload", "delete"}
          /\ Goto(p, "apply")
          /\ call' = [call EXCEPT ![p].todo = manifest.pending]
          /\ UNCHANGED <<browser, session, stores, up, disk, lock, crashes, written, latest, unmirrored>>

\* Variant: the backfill does not look for a manifest.
MirrorAnyway(p) ==
    /\ pc[p] = "mirror"
    /\ IF up[Primary] /\ up[Fallback] /\ stores[Primary] \notin {0, stores[Fallback]}
       THEN CopyPayload(p, stores[Primary])
       ELSE /\ Return(p)
            /\ UNCHANGED <<browser, session, stores, up, disk, crashes, written, latest, unmirrored>>

\* mirror_existing leaves an object with a manifest to its retry.
MirrorExisting(p) ==
    /\ pc[p] = "mirror"
    /\ IF manifest = NoManifest /\ up[Primary] /\ up[Fallback]
          /\ stores[Primary] \notin {0, stores[Fallback]}
       THEN CopyPayload(p, stores[Primary])
       ELSE /\ Return(p)
            /\ UNCHANGED <<browser, session, stores, up, disk, crashes, written, latest, unmirrored>>

(***************************************************************************)
(* Browser uploads.                                                        *)
(***************************************************************************)
\* create_multipart_upload takes the first provider that answers.
CreateMultipart ==
    /\ browser /\ session.state = "none"
    /\ \E s \in Stores : up[s] /\ session' = [state |-> "open", at |-> s]
    /\ UNCHANGED <<browser, stores, up, disk, lock, pc, call, crashes, written, latest, unmirrored>>

\* abort_multipart_upload takes no lock.
AbortMultipart ==
    /\ session.state = "open" /\ up[session.at]
    /\ session' = [session EXCEPT !.state = "gone"]
    /\ UNCHANGED <<browser, stores, up, disk, lock, pc, call, crashes, written, latest, unmirrored>>

\* complete_multipart_upload: the provider assembles the object; its answer
\* may be lost.
CompleteMultipart(p) ==
    /\ pc[p] = "complete"
    /\ session.state = "open"
    /\ session' = [session EXCEPT !.state = "done"]
    /\ stores' = [stores EXCEPT ![session.at] = 1]
    /\ written' = 1
    /\ latest' = [rev |-> 1, told |-> FALSE]
    /\ unmirrored' = TRUE
    /\ \/ /\ up[session.at] /\ Goto(p, "record")
          /\ UNCHANGED <<lock, call>>
       \/ ~up[session.at] /\ Return(p)
    /\ UNCHANGED <<browser, up, disk, crashes>>

\* The provider did not get the request, or knows no such session any more.
\* MediaStorage.complete_upload takes the latter for a repeated completion and
\* succeeds if it finds the object.
CompleteAgain(p) ==
    /\ pc[p] = "complete"
    /\ session.state = "open" => ~up[session.at]
    /\ latest' = [latest EXCEPT !.told = @ \/ (/\ session.state # "open" /\ up[session.at]
                                               /\ latest.rev = 1
                                               /\ stores[session.at] = 1)]
    /\ Return(p)
    /\ UNCHANGED <<browser, session, stores, up, disk, crashes, written, unmirrored>>

\* Variant: the manifest of a copy lists the prefix of an upload ID, not a store.
RecordSource(p) ==
    /\ pc[p] = "record"
    /\ manifest' = [op |-> "copy", rev |-> 1, pending |-> {"r2"}, source |-> session.at]
    /\ latest' = [latest EXCEPT !.told = TRUE]
    /\ unmirrored' = FALSE
    /\ Return(p)
    /\ UNCHANGED <<browser, session, stores, up, payloads, crashes, written>>

\* The copy to the other provider is queued, and the completion answered.
RecordCopy(p) ==
    /\ pc[p] = "record"
    /\ manifest' = [op |-> "copy", rev |-> 1, pending |-> Stores \ {session.at},
                    source |-> session.at]
    /\ latest' = [latest EXCEPT !.told = TRUE]
    /\ unmirrored' = FALSE
    /\ Return(p)
    /\ UNCHANGED <<browser, session, stores, up, payloads, crashes, written>>

(***************************************************************************)
(* Faults.                                                                 *)
(***************************************************************************)
ProviderChanges(s) ==
    /\ \E p \in Procs : pc[p] # "gone"
    /\ up' = [up EXCEPT ![s] = ~@]
    /\ UNCHANGED <<browser, session, stores, disk, lock, pc, call, crashes, written, latest, unmirrored>>

\* The kernel releases the flock of a process that dies; the volume stays.
Crash(p) ==
    /\ pc[p] # "idle"
    /\ crashes < MaxCrashes
    /\ crashes' = crashes + 1
    /\ Return(p)
    /\ UNCHANGED <<browser, session, stores, up, disk, written, latest, unmirrored>>

Proceed(p) ==
    \/ Acquire(p) \/ SkipLocked(p)
    \/ Stage(p) \/ SaveManifest(p) \/ SaveTombstone(p)
    \/ \E s \in Stores : Deliver(p, s)
    \/ Finish(p) \/ SyncPending(p) \/ MirrorExisting(p)
    \/ CompleteMultipart(p) \/ CompleteAgain(p) \/ RecordCopy(p)

Next ==
    \/ \E p \in Clients, op \in {"upload", "delete", "complete"} : Start(p, op)
    \/ \E p \in Mirrors : Start(p, "mirror")
    \/ \E p \in Crons : Start(p, "sync")
    \/ \E p \in Procs : Proceed(p) \/ GiveUp(p) \/ Crash(p)
    \/ CreateMultipart \/ AbortMultipart
    \/ \E s \in Stores : ProviderChanges(s)

\* Threads go on, the worker runs the retries every minute, and the volume does
\* not stay full.
Fairness ==
    /\ \A p \in Procs : WF_vars(Proceed(p))
    /\ \A p \in Crons : WF_vars(Start(p, "sync")) /\ SF_vars(SyncPending(p))
Spec == Init /\ [][Next]_vars /\ Fairness

(***************************************************************************)
(* What a reader gets: head_object, get_object, download_file and the probe *)
(* before signing try the stores in the order of _read_names and take the   *)
(* first that has the object. A store whose copy is pending comes last,     *)
(* whatever order the health report suggests.                               *)
(***************************************************************************)
\* Variant: the stores are tried in the order of the health report.
ReadByHealth == {}

ReadLast ==
    CASE manifest.op = "upload" -> manifest.pending
      [] manifest.op = "copy"   -> Stores \ {manifest.source}
      [] OTHER                  -> {}

\* Without media_failover_enabled only the primary is read.
ReadFrom(failover) == IF failover THEN Stores ELSE {Primary}

Read(failover, preferred) ==
    LET answers == {s \in ReadFrom(failover) : up[s] /\ stores[s] # 0}
        best    == IF answers \subseteq ReadLast THEN answers ELSE answers \ ReadLast
    IN IF best = {} THEN 0
       ELSE stores[IF preferred \in best THEN preferred ELSE CHOOSE s \in best : TRUE]

(***************************************************************************)
(* Properties.                                                             *)
(***************************************************************************)
\* A store that a manifest does not list as pending holds exactly what the
\* manifest stands for, and with no manifest both stores hold the same, at
\* every moment of a delivery and after any crash. Left out: objects older than
\* the mirror, and completions nobody recorded.
StoresFollowManifest ==
    /\ manifest.op \in {"upload", "delete"} =>
           \A s \in Stores \ manifest.pending : stores[s] = manifest.rev
    /\ manifest.op = "copy" => stores[manifest.source] = manifest.rev
    /\ manifest.op = "none" /\ ~unmirrored => stores[Primary] = stores[Fallback]

\* The payload of a pending upload is on the volume until every store has it.
PayloadIsKept ==
    manifest.op = "upload" /\ manifest.pending # {} => manifest.rev \in payloads

\* Once a caller was told that its write succeeded, and until a later write is
\* serialized, a reader gets that revision whenever a store it reads has it and answers,
\* and nobody gets an object whose deletion succeeded.
ReadsLatest ==
    \A failover \in BOOLEAN :
        /\ latest.told
        /\ latest.rev = 0 \/ \E s \in ReadFrom(failover) : up[s] /\ stores[s] = latest.rev
        => \A preferred \in Stores : Read(failover, preferred) = latest.rev

\* A provider that fails, an answer that is lost or a process that dies never parts the
\* stores from what the outbox says, nor a reader from the last acknowledged write.
ReplicasAgree == StoresFollowManifest /\ ReadsLatest /\ PayloadIsKept

\* A retry never puts an older revision of a draft over a newer one.
NeverOverwritesNewer ==
    [][\A s \in Stores : stores'[s] = 0 \/ stores'[s] >= stores[s]]_vars

\* When both providers stay up and the writers stop, the retries empty the
\* outbox and the stores agree: no object is left half written or half deleted.
Quiet   == (\A s \in Stores : up[s]) /\ \A c \in Clients \cup Mirrors : pc[c] = "idle"
Drained == manifest = NoManifest /\ (unmirrored \/ stores[Primary] = stores[Fallback])
OutboxDrains == <>[]Quiet => <>[]Drained

=============================================================================
