--------------------------- MODULE MultipartUploads ---------------------------
(* Browser uploads straight to the bucket (/upload/authorize, parts, complete,  *)
(* abort; upload_repository; MediaStorage.begin_upload .. abort_upload) and the *)
(* pass that aborts what has expired.                                           *)
EXTENDS Naturals, FiniteSets

CONSTANTS Sessions,     \* rows of media_upload_sessions of one user
          Concurrency   \* media_upload_concurrency

VARIABLES row,          \* state of each row; expires: its hours have passed; known: it has the upload ID
          provider,     \* the bucket: none, open (a multipart upload), object
          parts,        \* whether the uploaded parts are those of the declared size
          api,          \* the authorize request of each session
          finishing,    \* what a complete or abort request of the session is about to do
          sweeping,     \* the row the expiry pass has locked
          leaked        \* history: uploads a dead API or a lost answer left without a row

mvars == <<row, provider, parts, api, finishing, sweeping, leaked>>

TypeOK ==
    /\ row \in [Sessions -> [state: {"none", "reserved", "uploading", "completed", "aborted"},
                             known: BOOLEAN, expired: BOOLEAN]]
    /\ provider \in [Sessions -> {"none", "open", "object", "gone"}]
    /\ parts \in [Sessions -> {"short", "whole", "oversized"}]
    /\ api \in [Sessions -> {"off", "idle", "reserved", "begun", "aborting", "done"}]
    /\ finishing \in [Sessions -> SUBSET {"complete", "check", "completed", "abort", "aborted"}]
    /\ sweeping \subseteq Sessions /\ leaked \subseteq Sessions

StartIn(pc) ==
    /\ row = [s \in Sessions |-> [state |-> "none", known |-> FALSE, expired |-> FALSE]]
    /\ provider = [s \in Sessions |-> "none"]
    /\ parts = [s \in Sessions |-> "short"]
    /\ api = [s \in Sessions |-> pc]
    /\ finishing = [s \in Sessions |-> {}]
    /\ sweeping = {} /\ leaked = {}
Init == StartIn("idle")
Idle == StartIn("off")

Open(s) == row[s].state \in {"reserved", "uploading"}
\* Rows that count against the limit.
ActiveSessions == {s \in Sessions : Open(s)}

\* A statement on a row waits for the pass that has locked it.
Update(s, r) == s \notin sweeping /\ row' = [row EXCEPT ![s] = r]
SetState(s, state) == [row[s] EXCEPT !.state = state]
\* Variant: the state is written whatever it was.
FinishedAnyway(s, state) == SetState(s, state)
\* finish_upload: an abort never overrides a completion.
Finished(s, state) ==
    IF state = "aborted" /\ row[s].state = "completed" THEN row[s] ELSE SetState(s, state)

ProviderAborts(s) == provider' = [provider EXCEPT ![s] = IF @ = "open" THEN "gone" ELSE @]

(***************************************************************************)
(* POST /upload/authorize.                                                 *)
(***************************************************************************)
\* Variant: a row counts when its upload has begun.
ReserveLate(s) ==
    /\ api[s] = "idle"
    /\ Cardinality({t \in Sessions : row[t].state = "uploading"}) < Concurrency
    /\ row' = [row EXCEPT ![s].state = "reserved"]
    /\ api' = [api EXCEPT ![s] = "reserved"]
    /\ UNCHANGED <<provider, parts, finishing, sweeping, leaked>>
\* reserve_upload, under the user's lock; over the limit nothing is stored.
Reserve(s) ==
    /\ api[s] = "idle"
    /\ Cardinality(ActiveSessions) < Concurrency
    /\ row' = [row EXCEPT ![s].state = "reserved"]
    /\ api' = [api EXCEPT ![s] = "reserved"]
    /\ UNCHANGED <<provider, parts, finishing, sweeping, leaked>>

\* create_multipart_upload. Without an answer nobody has the ID, whether the bucket
\* opened the upload or not.
Begin(s) ==
    /\ api[s] = "reserved"
    /\ \/ /\ provider' = [provider EXCEPT ![s] = "open"] /\ api' = [api EXCEPT ![s] = "begun"]
          /\ UNCHANGED <<row, leaked>>
       \/ /\ \/ UNCHANGED <<provider, leaked>>
             \/ provider' = [provider EXCEPT ![s] = "open"] /\ leaked' = leaked \cup {s}
          /\ api' = [api EXCEPT ![s] = "done"] /\ Update(s, Finished(s, "aborted"))
    /\ UNCHANGED <<parts, finishing, sweeping>>

\* bind_upload keeps the ID of a row that is still reserved.
Bind(s) ==
    /\ api[s] = "begun"
    /\ api' = [api EXCEPT ![s] = "done"]
    /\ Update(s, IF row[s].state = "reserved" THEN [row[s] EXCEPT !.state = "uploading", !.known = TRUE] ELSE row[s])
    /\ leaked' = IF row[s].state = "reserved" THEN leaked ELSE leaked \cup {s}
    /\ UNCHANGED <<provider, parts, finishing, sweeping>>

\* Signing or binding fails, or the request is cancelled: the upload is aborted,
\* or its ID bound when the abort fails as well.
BeginFails(s) ==
    /\ api[s] = "begun"
    /\ \/ ProviderAborts(s) /\ Update(s, Finished(s, "aborted"))
       \/ /\ UNCHANGED provider
          /\ Update(s, IF row[s].state = "reserved" THEN [row[s] EXCEPT !.state = "uploading", !.known = TRUE] ELSE row[s])
    /\ leaked' = IF provider'[s] = "open" /\ row[s].state # "reserved" THEN leaked \cup {s} ELSE leaked
    /\ api' = [api EXCEPT ![s] = "done"]
    /\ UNCHANGED <<parts, finishing, sweeping>>

ApiDies(s) ==
    /\ api[s] \in {"reserved", "begun"}
    /\ api' = [api EXCEPT ![s] = "done"]
    /\ leaked' = IF api[s] = "begun" THEN leaked \cup {s} ELSE leaked
    /\ UNCHANGED <<row, provider, parts, finishing, sweeping>>

\* The browser puts parts to signed URLs; refresh_upload_parts signs more.
PutParts(s) ==
    /\ provider[s] = "open" /\ api[s] = "done" /\ row[s].known
    /\ \E p \in {"whole", "oversized"} : parts[s] = "short" /\ parts' = [parts EXCEPT ![s] = p]
    /\ UNCHANGED <<row, provider, api, finishing, sweeping, leaked>>

(***************************************************************************)
(* POST /upload/complete and /upload/abort, which may race and be repeated. *)
(***************************************************************************)
Enter(s, step) == finishing' = [finishing EXCEPT ![s] = @ \cup {step}]
Move(s, from, to) == from \in finishing[s] /\ finishing' = [finishing EXCEPT ![s] = (@ \ {from}) \cup to]

\* get_upload finds the row valid.
StartComplete(s) ==
    /\ row[s].known /\ row[s].state \in {"uploading", "completed"} /\ ~row[s].expired
    /\ "complete" \notin finishing[s] /\ Enter(s, "complete")
    /\ UNCHANGED <<row, provider, parts, api, sweeping, leaked>>
\* The parts are counted and measured first: an upload above the limit is aborted.
CheckParts(s) ==
    /\ Move(s, "complete", IF provider[s] = "open" /\ parts[s] = "whole" THEN {"check"} ELSE {})
    /\ IF provider[s] = "open" /\ parts[s] = "oversized" THEN ProviderAborts(s) ELSE UNCHANGED provider
    /\ UNCHANGED <<row, parts, api, sweeping, leaked>>
\* An upload that is gone may have been completed before: the object decides.
Complete(s) ==
    /\ provider' = [provider EXCEPT ![s] = IF @ = "open" THEN "object" ELSE @]
    /\ Move(s, "check", IF provider'[s] = "object" THEN {"completed"} ELSE {})
    /\ UNCHANGED <<row, parts, api, sweeping, leaked>>
FinishComplete(s) ==
    /\ Move(s, "completed", {}) /\ Update(s, Finished(s, "completed"))
    /\ UNCHANGED <<provider, parts, api, sweeping, leaked>>

StartAbort(s) ==
    /\ row[s].known /\ "abort" \notin finishing[s] /\ Enter(s, "abort")
    /\ UNCHANGED <<row, provider, parts, api, sweeping, leaked>>
Abort(s) ==
    /\ Move(s, "abort", {"aborted"}) /\ ProviderAborts(s)
    /\ UNCHANGED <<row, parts, api, sweeping, leaked>>
FinishAbort(s) ==
    /\ Move(s, "aborted", {}) /\ Update(s, Finished(s, "aborted"))
    /\ UNCHANGED <<provider, parts, api, sweeping, leaked>>
\* An error or a dead process ends a request at any of its steps.
RequestStops(s) ==
    /\ finishing[s] # {} /\ finishing' = [finishing EXCEPT ![s] = {}]
    /\ UNCHANGED <<row, provider, parts, api, sweeping, leaked>>

(***************************************************************************)
(* _abort_expired_multipart_uploads, with the row locked.                  *)
(***************************************************************************)
Expires(s) ==
    /\ row[s].state # "none" /\ ~row[s].expired
    /\ row' = [row EXCEPT ![s].expired = TRUE]
    /\ UNCHANGED <<provider, parts, api, finishing, sweeping, leaked>>
SweepLock(s) ==
    /\ sweeping = {} /\ row[s].expired /\ Open(s)
    /\ sweeping' = {s}
    /\ UNCHANGED <<row, provider, parts, api, finishing, leaked>>
SweepAbort(s) ==
    /\ s \in sweeping /\ sweeping' = {}
    /\ IF row[s].known THEN ProviderAborts(s) ELSE UNCHANGED provider
    /\ row' = [row EXCEPT ![s].state = "aborted"]
    /\ UNCHANGED <<parts, api, finishing, leaked>>
SweepFails(s) ==
    /\ s \in sweeping /\ sweeping' = {}
    /\ UNCHANGED <<row, provider, parts, api, finishing, leaked>>

Next == \E s \in Sessions :
    \/ Reserve(s) \/ Begin(s) \/ Bind(s) \/ BeginFails(s) \/ ApiDies(s) \/ PutParts(s)
    \/ StartComplete(s) \/ CheckParts(s) \/ Complete(s) \/ FinishComplete(s)
    \/ StartAbort(s) \/ Abort(s) \/ FinishAbort(s) \/ RequestStops(s)
    \/ Expires(s) \/ SweepLock(s) \/ SweepAbort(s) \/ SweepFails(s)

\* Hours pass, the pass runs every five minutes, and the bucket does not fail for ever.
Fairness ==
    /\ WF_mvars(\E s \in Sessions : Expires(s) \/ Begin(s) \/ Bind(s) \/ BeginFails(s) \/ ApiDies(s))
    /\ WF_mvars(\E s \in Sessions : SweepLock(s)) /\ SF_mvars(\E s \in Sessions : SweepAbort(s))
Spec == Init /\ [][Next]_mvars /\ Fairness

(***************************************************************************)
(* Properties.                                                             *)
(***************************************************************************)
\* A completion, an abort and the expiry of one upload in any order: a row says
\* completed only when the object is in the bucket, and a completed row stays.
CompletionStands ==
    [][\A s \in Sessions :
         /\ row[s].state = "completed" => row'[s].state = "completed"
         /\ row'[s].state = "completed" => provider'[s] = "object"]_mvars
\* Requests that race never reserve more than the user's concurrent uploads.
WithinLimit == Cardinality(ActiveSessions) <= Concurrency

\* An upload its user abandons does not stay open at the provider nor count against
\* the user's limit for ever, except where the API died before it stored the ID or
\* the bucket's answer with the ID was lost.
AbandonedUploadsEnd ==
    []<>(\A s \in Sessions : ~Open(s) /\ (provider[s] = "open" => s \in leaked))
=============================================================================
