-------------------------------- MODULE MCStudio --------------------------------
(* Components that do not touch each other's rows or files, and that end what     *)
(* they begin: a behaviour starts with work for one, and the others stay as they  *)
(* are.                                                                           *)
EXTENDS Naturals, FiniteSets

CONSTANTS Exports, MaxEdits, Uploads, Contents, Keys, Nothing, Sessions, Concurrency,
          Clients, Mirrors, Crons, Nobody, Primary, Fallback, MaxRevisions, MaxCrashes,
          MaxClips, MaxRetries, MaxFailures

\* The clip has a first look, no upload, content or key is the absence of one, the
\* number of browser uploads a user may have open is finite, and an object is written.
ASSUME StudioAssumption ==
    /\ MaxEdits \in Nat \ {0}
    /\ Nothing \notin Uploads \cup Contents \cup Keys \cup {"drain", "expiry"}
    /\ IsFiniteSet(Sessions) /\ Concurrency \in Nat
    /\ MaxRevisions \in Nat \ {0} /\ MaxCrashes \in Nat

VARIABLE part     \* what this behaviour works on
VARIABLES clip, row, job, worker, posting, stored, exportFiles, lost
VARIABLES up, file, session, keys, owner, guard, tasks, creating, expiry, drain, toDelete
VARIABLES upload, provider, parts, api, finishing, sweeping, leaked
VARIABLES browser, assembly, stores, answering, manifest, payloads, lock, pc, call,
          crashes, written, latest, unmirrored
VARIABLES task, working, stream, page, fetches, trouble

exports == <<clip, row, job, worker, posting, stored, exportFiles, lost>>
uploads == <<up, file, session, keys, owner, guard, tasks, creating, expiry, drain, toDelete>>
browserUploads == <<upload, provider, parts, api, finishing, sweeping, leaked>>
replicas == <<browser, assembly, stores, answering, manifest, payloads, lock, pc, call,
              crashes, written, latest, unmirrored>>
progress == <<task, working, stream, page, fetches, trouble>>

X == INSTANCE ClipExports WITH toDelete <- exportFiles
U == INSTANCE StoredUploads
M == INSTANCE MultipartUploads WITH row <- upload
R == INSTANCE MediaReplicas WITH session <- assembly, up <- answering
P == INSTANCE ProgressStream

Init ==
    \/ part = "exports" /\ X!Init /\ U!Idle /\ M!Idle /\ R!Gone /\ P!Gone
    \/ part = "uploads" /\ X!Gone /\ U!Init /\ M!Idle /\ R!Gone /\ P!Gone
    \/ part = "sessions" /\ X!Gone /\ U!Idle /\ M!Init /\ R!Gone /\ P!Gone
    \/ part = "stores" /\ X!Gone /\ U!Idle /\ M!Idle /\ R!Init /\ P!Gone
    \/ part = "page" /\ X!Gone /\ U!Idle /\ M!Idle /\ R!Gone /\ P!Init

Next ==
    \/ part = "exports" /\ X!Next /\ UNCHANGED <<part, uploads, browserUploads, replicas, progress>>
    \/ part = "uploads" /\ U!Next /\ UNCHANGED <<part, exports, browserUploads, replicas, progress>>
    \/ part = "sessions" /\ M!Next /\ UNCHANGED <<part, exports, uploads, replicas, progress>>
    \/ part = "stores" /\ R!Next /\ UNCHANGED <<part, exports, uploads, browserUploads, progress>>
    \/ part = "page" /\ P!Next /\ UNCHANGED <<part, exports, uploads, browserUploads, replicas>>

Spec == /\ Init /\ [][Next]_<<part, exports, uploads, browserUploads, replicas, progress>>
        /\ X!Fairness /\ U!Fairness /\ M!Fairness /\ R!Fairness /\ P!Fairness

TypesOK ==
    /\ part = "exports" => X!TypeOK
    /\ part = "uploads" => U!TypeOK
    /\ part = "sessions" => M!TypeOK
    /\ part = "stores" => R!TypeOK
    /\ part = "page" => P!TypeOK

\* Exports: one live row for a clip and a look, with its file.
ExportsHold == part = "exports" => X!OneLiveExport /\ X!ReadyHasFile

\* A repeated upload is one upload, and no more sessions are open than allowed.
UploadsAreIdempotent == /\ part = "uploads" => U!UploadsAreIdempotent
                        /\ part = "sessions" => M!WithinLimit
SourceKept           == U!SourceKept
CompletionStands     == M!CompletionStands

PageShowsClips == P!PageShowsClips
=============================================================================
