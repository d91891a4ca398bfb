-------------------------- MODULE SocialPostsProofs --------------------------
(***************************************************************************)
(* Proofs about SocialPosts, for any number of workers, cron passes and    *)
(* requests and for every bound.  Each claim of the post has a number of   *)
(* its own.  What a claim may still do is counted with what was done: an   *)
(* upload that may still create a copy counts as one, a claim that may     *)
(* still be followed by an automatic retry counts as that retry.           *)
(***************************************************************************)
EXTENDS SocialPosts, FiniteSetTheorems, TLAPS

\* A publish job between its claim and what it records, or draining its upload.
Holding(a)  == local[a].pc \in {"prepare", "fail", "upload", "record", "drain"}
Claiming(a) == local[a].pc \in {"prepare", "fail", "upload", "record"}
\* It may still retry, and it may still create a copy or let its retry do so.
Trying(a)  == local[a].pc \in {"prepare", "upload", "record"}
Pending(a) ==
    \/ local[a].pc \in {"prepare", "upload", "drain"}
    \/ local[a].pc = "record" /\ local[a].out = "retry"
IsOpen == post.status \in {"new", "scheduled", "queued"}
Open   == IF IsOpen THEN 1 ELSE 0

Spent == {u \in Uploads : platform[u] \in {"pending", "live"}
                          \/ \E a \in Actors : Pending(a) /\ local[a].att = u}
Tries == 1..(MaxAttempts - 1)
Left  == {n \in Tries : n > post.attempts \/ \E a \in Actors : Trying(a) /\ local[a].att = n}

\* Claims have numbers of their own, and the platform knows no later ones.
ClaimInv ==
    /\ \A a \in Actors : Holding(a) => a \in Workers /\ local[a].att \in Uploads
    /\ \A a, b \in Actors : Holding(a) /\ Holding(b) /\ local[a].att = local[b].att => a = b
    /\ post.status # "deleted" =>
         /\ \A a \in Actors : Holding(a) => local[a].att <= post.attempts
         /\ \A u \in Uploads : platform[u] # "none" => u <= post.attempts
\* A claim that may still create a copy has created none.
PlatformInv == \A a \in Actors : Pending(a) => platform[local[a].att] = "none"
\* Copies, and claims and openings that may become one, against what the user asked for.
CopyInv == Cardinality(Spent) + Open <= 1 + retries
\* Claims made, the one that is open, and the automatic retries that are left.
TryInv == post.attempts + Open + Cardinality(Left) <= MaxAttempts + retries
\* A platform that answers at once is never polled.
SyncInv == ~async => post.handle = NoHandle /\ \A a \in Actors : local[a].pc \notin {"look", "ask", "tell"}
\* A poll asks for an upload whose handle was stored.
SeenInv == \A a \in Actors : local[a].pc \in {"look", "ask", "tell"} => local[a].seen \in Uploads
\* Only an enqueue that raised is undone.
UndoInv == \A a \in Actors : local[a].pc = "undo" => faulty
\* There a claim owns the row until it has recorded its outcome.
WorkInv ==
    ~async /\ ~faulty => \A a \in Actors : Claiming(a) =>
        local[a].att = post.attempts /\ post.status = "publishing" /\ ~post.old

\* A post that was not created was not claimed.
NewInv == post.status = "new" => post.attempts = 0

IInv == TypeOK /\ NewInv /\ ClaimInv /\ PlatformInv /\ CopyInv /\ TryInv
        /\ SyncInv /\ SeenInv /\ UndoInv /\ WorkInv

Rows   == [status : Statuses, handle : Uploads \cup {NoHandle}, posted : BOOLEAN,
           attempts : 0..MaxClaims, old : BOOLEAN, age : 0..2]
Locals == [pc : PCs, job : JobIds, att : 0..MaxClaims,
           seen : Uploads \cup {NoHandle}, age : 0..2, out : Outcomes]
Jobs   == [JobIds -> [state : {"none", "queued", "running"}, tries : 0..MaxTries]]
Typed  == post \in Rows /\ local \in [Actors -> Locals]
Others ==
    /\ account \in {"active", "reauth", "revoked"} /\ clip \in BOOLEAN /\ async \in Kinds
    /\ jobs \in Jobs /\ platform \in [Uploads -> {"none", "pending", "live", "refused"}]
    /\ retries \in 0..MaxRetries /\ crashes \in 0..MaxCrashes
    /\ recorded \subseteq Uploads /\ told \subseteq Uploads /\ faulty \in BOOLEAN

-----------------------------------------------------------------------------
(* Nine kinds of steps, in the terms of the invariants.                     *)

SameRow ==
    /\ post' \in Rows /\ post'.status = post.status /\ post'.handle = post.handle
    /\ post'.attempts = post.attempts /\ post'.old = post.old
SameCount == retries' = retries /\ async' = async /\ (faulty => faulty')
\* An actor stays where it is, or is no claim's any more.
Same(a) ==
    /\ local'[a].pc = local[a].pc /\ local'[a].att = local[a].att
    /\ local'[a].out = local[a].out /\ local'[a].seen = local[a].seen
Gone(a) ==
    /\ local'[a].pc \notin {"prepare", "fail", "upload", "record", "drain"}
    /\ local'[a].pc = "undo" => faulty'
    /\ local'[a].pc \in {"look", "ask", "tell"} =>
          /\ post.handle # NoHandle \/ local[a].pc \in {"look", "ask", "tell"}
          /\ local'[a].seen \in Uploads
Aside == local' \in [Actors -> Locals] /\ \A a \in Actors : Same(a) \/ Gone(a)
Alone(a) == local' \in [Actors -> Locals] /\ \A b \in Actors : b # a => local'[b] = local[b]

\* Nothing happens to the row.
Bystands == SameRow /\ SameCount /\ platform' = platform /\ Aside
\* The status changes: from one that is not claimed, after the claim is lost, or by
\* a coroutine that writes what it has learnt.
Rewrites ==
    /\ post.status # "deleted" /\ post' \in Rows
    /\ post'.attempts = post.attempts /\ (post'.old => post.old) /\ post'.status # "new"
    /\ (IsOpen)' => IsOpen
    /\ post'.handle \in {post.handle, NoHandle} \/ async
    /\ \/ IsOpen /\ post'.status \in {"scheduled", "queued", "cancelled"}
       \/ post.status = "publishing" /\ post.old
       \/ \E a \in Actors : local[a].pc \in {"fail", "record", "look", "tell", "undo"} /\ Gone(a)
    /\ SameCount /\ platform' = platform /\ Aside
Opens ==
    /\ post' \in Rows /\ post'.status = "queued" /\ post'.handle = post.handle
    /\ post'.attempts = post.attempts /\ post'.old = post.old
    /\ platform' = platform /\ async' = async /\ (faulty => faulty') /\ Aside
\* The user retries, or a claim does.
Requeues == Opens /\ post.status \in Retryable /\ retries < MaxRetries /\ retries' = retries + 1
Retries(w) ==
    /\ Opens /\ retries' = retries /\ post.status # "deleted"
    /\ local[w].pc = "record" /\ local[w].out = "retry" /\ local[w].att < MaxAttempts /\ Gone(w)
Claims(w) ==
    /\ post.status = "queued" /\ post' \in Rows /\ post'.status = "publishing"
    /\ post'.attempts = post.attempts + 1 /\ post'.handle = post.handle /\ ~post'.old
    /\ Alone(w) /\ local'[w].att = post.attempts + 1
    /\ \/ local'[w].pc \in {"prepare", "fail"}
       \/ local'[w].pc = "look" /\ post.handle # NoHandle /\ local'[w].seen \in Uploads
    /\ SameCount /\ platform' = platform
\* A claim goes on; if it may have created a copy, it does not any more.
Works(a) ==
    /\ SameRow /\ SameCount /\ Alone(a)
    /\ \/ Gone(a)
       \/ /\ Holding(a) /\ Holding(a)' /\ local'[a].att = local[a].att
          /\ Trying(a)' => Trying(a)
          /\ Pending(a)' => Pending(a)
          /\ Claiming(a)' => Claiming(a)
          /\ local'[a].pc \notin {"undo", "look", "ask", "tell"}
    /\ \/ platform' = platform
       \/ /\ Pending(a) /\ ~Pending(a)'
          /\ \E v \in {"pending", "live"} : platform' = [platform EXCEPT ![local[a].att] = v]
Deletes ==
    /\ post.status \notin {"queued", "publishing", "new", "deleted"}
    /\ post' \in Rows /\ post'.status = "deleted" /\ post'.handle = NoHandle /\ post'.attempts = 0
    /\ ~post'.old /\ local' = local /\ local \in [Actors -> Locals] /\ SameCount /\ platform' = platform
Decides(u) ==
    /\ platform[u] = "pending" /\ \E v \in {"live", "refused"} : platform' = [platform EXCEPT ![u] = v]
    /\ SameRow /\ local' = local /\ local \in [Actors -> Locals] /\ SameCount
Ages ==
    /\ post' \in Rows /\ post'.status = post.status /\ post'.handle = post.handle
    /\ post'.attempts = post.attempts /\ \A w \in Workers : ~Working(w)
    /\ local' = local /\ local \in [Actors -> Locals] /\ SameCount /\ platform' = platform

Kind ==
    \/ Bystands \/ Rewrites \/ Requeues \/ Deletes \/ Ages
    \/ \E w \in Workers : Retries(w) \/ Claims(w)
    \/ \E a \in Actors : Works(a)
    \/ \E u \in Uploads : Decides(u)

USE DEF Actors

-----------------------------------------------------------------------------
(* Counting.                                                                *)

LEMMA Constants ==
    /\ MaxAttempts \in Nat \ {0} /\ MaxTries \in Nat \ {0} /\ MaxRetries \in Nat /\ MaxCrashes \in Nat
    /\ MaxClaims \in Nat /\ MaxClaims = MaxAttempts + MaxRetries
    /\ 0 \in JobIds /\ 0 \in 0..MaxClaims /\ JobIds = 0..MaxClaims
    /\ Workers \cap Crons = {} /\ Workers \cap Requests = {} /\ Crons \cap Requests = {}
  BY SocialAssumption DEF SocialAssumption, MaxClaims, JobIds

\* Uploads and tries are finitely many, and fewer of them count for less.
LEMMA Counts ==
    /\ \A S \in SUBSET Uploads : IsFiniteSet(S) /\ Cardinality(S) \in Nat
    /\ \A S \in SUBSET Uploads : \A T \in SUBSET S : Cardinality(T) <= Cardinality(S)
    /\ \A S \in SUBSET Tries : IsFiniteSet(S) /\ Cardinality(S) \in Nat /\ Cardinality(S) <= MaxAttempts - 1
    /\ \A S \in SUBSET Tries : \A T \in SUBSET S : Cardinality(T) <= Cardinality(S)
<1>1. IsFiniteSet(Uploads) /\ IsFiniteSet(Tries) /\ Cardinality(Tries) = MaxAttempts - 1
  <2>1. MaxAttempts - 1 \in Int /\ MaxClaims \in Int /\ 1 \in Int /\ MaxAttempts >= 1
    BY Constants
  <2>2. IsFiniteSet(Uploads)
    BY <2>1, FS_Interval DEF Uploads
  <2>3. IsFiniteSet(Tries) /\ Cardinality(Tries) = MaxAttempts - 1
    <3> DEFINE k == MaxAttempts - 1
    <3>1. k \in Int /\ k >= 0
      BY Constants
    <3> HIDE DEF k
    <3>2. IsFiniteSet(1..k) /\ Cardinality(1..k) = k
      BY <2>1, <3>1, FS_Interval
    <3> QED  BY <3>2 DEF k, Tries
  <2> QED  BY <2>2, <2>3
<1>2. \A S : IsFiniteSet(S) => \A T \in SUBSET S : IsFiniteSet(T) /\ Cardinality(T) <= Cardinality(S)
  BY FS_Subset
<1>3. \A S : IsFiniteSet(S) => Cardinality(S) \in Nat
  BY FS_CardinalityType
<1> QED  BY <1>1, <1>2, <1>3

\* One member more or less.
LEMMA CountOne ==
    ASSUME NEW S, IsFiniteSet(S), NEW x
    PROVE  /\ x \notin S => Cardinality(S \cup {x}) = Cardinality(S) + 1
           /\ x \in S => Cardinality(S \cup {x}) = Cardinality(S)
           /\ x \in S => Cardinality(S \ {x}) = Cardinality(S) - 1
  BY FS_AddElement, FS_RemoveElement
-----------------------------------------------------------------------------
(* What the assignments of the actions do.                                  *)

LEMMA TypedRows == TypeOK <=> Typed /\ Others
  BY DEF TypeOK, Typed, Others, Rows, Locals, Jobs

LEMMA TypedAfter == TypeOK' => Typed' /\ Others'
  BY DEF TypeOK, Typed, Others, Rows, Locals, Jobs

LEMMA IdleTyped == Idle \in Locals
  BY Constants DEF Idle, Locals, NoHandle, PCs, Outcomes

\* One actor goes on with the record r.
LEMMA SetDoes ==
    ASSUME Typed, NEW a \in Actors, NEW r \in Locals, local' = [local EXCEPT ![a] = r]
    PROVE  Alone(a) /\ local'[a] = r
  BY DEF Typed, Alone

LEMMA GotoDoes ==
    ASSUME Typed, NEW a \in Actors, NEW p \in PCs, Goto(a, p)
    PROVE  /\ Alone(a) /\ local'[a].pc = p /\ local'[a].att = local[a].att
           /\ local'[a].out = local[a].out /\ local'[a].seen = local[a].seen
  BY DEF Typed, Locals, Goto, Alone

LEMMA OutDoes ==
    ASSUME Typed, NEW a \in Actors, NEW p \in PCs, NEW o \in Outcomes,
           local' = [local EXCEPT ![a].pc = p, ![a].out = o]
    PROVE  /\ Alone(a) /\ local'[a].pc = p /\ local'[a].att = local[a].att
           /\ local'[a].out = o /\ local'[a].seen = local[a].seen
  BY DEF Typed, Locals, Alone

LEMMA RestDoes ==
    ASSUME Typed, NEW a \in Actors, Rest(a)
    PROVE  Alone(a) /\ local'[a].pc = "idle"
<1>1. local' = [local EXCEPT ![a] = Idle]
  BY DEF Rest
<1>2. Idle.pc = "idle"
  BY DEF Idle
<1> QED  BY <1>1, <1>2, IdleTyped, SetDoes

LEMMA LeaveDoes ==
    ASSUME Typed, NEW a \in Actors, Leave(a)
    PROVE  Alone(a) /\ local'[a].pc \in {"finish", "sweep"}
<1> DEFINE r == IF a \in Workers THEN [Idle EXCEPT !.pc = "finish", !.job = local[a].job]
                                 ELSE [Idle EXCEPT !.pc = "sweep"]
<1>1. local[a].job \in JobIds
  BY DEF Typed, Locals
<1>2. r \in Locals /\ r.pc \in {"finish", "sweep"}
  BY <1>1, IdleTyped DEF Locals, PCs
<1>3. local' = [local EXCEPT ![a] = r]
  BY DEF Leave
<1> HIDE DEF r
<1> QED  BY <1>2, <1>3, SetDoes

LEMMA SeeDoes ==
    ASSUME Typed, NEW a \in Actors, SeeHandle(a)
    PROVE  Alone(a) /\ local'[a].pc = "look" /\ local'[a].seen = post.handle
<1> DEFINE r == [local[a] EXCEPT !.pc = "look", !.seen = post.handle, !.age = post.age]
<1>1. local[a] \in Locals /\ post.handle \in Uploads \cup {NoHandle} /\ post.age \in 0..2
  BY DEF Typed, Rows
<1>2. r \in Locals /\ r.pc = "look" /\ r.seen = post.handle
  BY <1>1 DEF Locals, PCs
<1>3. local' = [local EXCEPT ![a] = r]
  BY DEF SeeHandle, Typed
<1> HIDE DEF r
<1> QED  BY <1>2, <1>3, SetDoes

LEMMA AfterEnqueueDoes ==
    ASSUME Typed, NEW a \in Actors, AfterEnqueue(a)
    PROVE  Alone(a) /\ local'[a].pc \in {"list", "idle"}
<1>1. CASE a \in Crons
  <2> DEFINE r == [Idle EXCEPT !.pc = "list"]
  <2>1. r \in Locals /\ r.pc = "list"
    BY IdleTyped DEF Locals, PCs
  <2>2. local' = [local EXCEPT ![a] = r]
    BY <1>1 DEF AfterEnqueue
  <2> HIDE DEF r
  <2> QED  BY <2>1, <2>2, SetDoes
<1>2. CASE a \notin Crons
  BY <1>2, RestDoes DEF AfterEnqueue
<1> QED  BY <1>1, <1>2

\* An actor that moves to such a point steps aside.
LEMMA AloneAside ==
    ASSUME NEW a \in Actors, Alone(a), Same(a) \/ Gone(a)
    PROVE  Aside
  BY DEF Alone, Aside, Same

LEMMA StatusDoes ==
    ASSUME NEW row \in Rows, NEW s \in Statuses
    PROVE  LET r == [row EXCEPT !.status = s]
           IN  /\ r \in Rows /\ r.status = s /\ r.handle = row.handle
               /\ r.attempts = row.attempts /\ r.old = row.old
  BY DEF Rows

LEMMA AgeDoes ==
    ASSUME NEW row \in Rows
    PROVE  LET r == [row EXCEPT !.age = 0]
           IN  /\ r \in Rows /\ r.status = row.status /\ r.handle = row.handle
               /\ r.attempts = row.attempts /\ r.old = row.old
<1>1. 0 \in 0..2
  OBVIOUS
<1> QED  BY <1>1 DEF Rows

LEMMA NoPostDoes ==
    ASSUME NEW s \in Statuses
    PROVE  LET r == [NoPost EXCEPT !.status = s]
           IN  /\ r \in Rows /\ r.status = s /\ r.handle = NoHandle
               /\ r.attempts = 0 /\ ~r.old
<1>1. NoPost \in Rows
  <2>1. 0 \in 0..2 /\ 0 \in 0..MaxClaims /\ NoHandle \in Uploads \cup {NoHandle}
    BY Constants
  <2> QED  BY <2>1 DEF NoPost, Rows, Statuses
<1>2. NoPost.handle = NoHandle /\ NoPost.attempts = 0 /\ NoPost.old = FALSE
  BY DEF NoPost
<1> QED  BY <1>1, <1>2, StatusDoes

LEMMA MoveToDoes ==
    ASSUME Typed, NEW s \in Statuses, MoveTo(s)
    PROVE  /\ post' \in Rows /\ post'.status = s /\ post'.handle = post.handle
           /\ post'.attempts = post.attempts /\ post'.old = post.old
<1> DEFINE r == [post EXCEPT !.status = s]
<1>1. /\ r \in Rows /\ r.status = s /\ r.handle = post.handle
      /\ r.attempts = post.attempts /\ r.old = post.old
  BY StatusDoes DEF Typed
<1>2. post' = [r EXCEPT !.age = 0]
  BY DEF MoveTo, Typed, Rows
<1> HIDE DEF r
<1> QED  BY <1>1, <1>2, AgeDoes

LEMMA UpdateDoes ==
    ASSUME Typed, NEW row \in Rows, UpdatePost(row)
    PROVE  \/ post.status = "deleted" /\ post' = post
           \/ /\ post.status # "deleted" /\ post' \in Rows /\ post'.status = row.status
              /\ post'.handle = row.handle /\ post'.attempts = row.attempts /\ post'.old = row.old
<1> DEFINE r == [row EXCEPT !.age = 0]
<1>1. /\ r \in Rows /\ r.status = row.status /\ r.handle = row.handle
      /\ r.attempts = row.attempts /\ r.old = row.old
  BY AgeDoes
<1>2. post' = IF post.status = "deleted" THEN post ELSE r
  BY DEF UpdatePost
<1> HIDE DEF r
<1> QED  BY <1>1, <1>2

LEMMA FailDoes ==
    ASSUME Typed, Fail
    PROVE  \/ post.status = "deleted" /\ post' = post
           \/ /\ post.status # "deleted" /\ post' \in Rows /\ post'.status = "failed"
              /\ post'.handle = post.handle /\ post'.attempts = post.attempts /\ post'.old = post.old
<1> DEFINE r == [post EXCEPT !.status = "failed"]
<1>1. /\ r \in Rows /\ r.status = "failed" /\ r.handle = post.handle
      /\ r.attempts = post.attempts /\ r.old = post.old
  BY StatusDoes DEF Typed, Statuses
<1>2. UpdatePost(r)
  BY DEF Fail
<1> HIDE DEF r
<1> QED  BY <1>1, <1>2, UpdateDoes

\* Nothing happens to a row that is not written.
LEMMA RowStays ==
    ASSUME Typed, post' = post
    PROVE  SameRow
  BY DEF Typed, SameRow

\* Nothing happens to the coroutines.
LEMMA AllAside ==
    ASSUME Typed, local' = local
    PROVE  Aside
  BY DEF Typed, Aside, Same

LEMMA PutDoes ==
    ASSUME jobs \in Jobs, NEW j \in JobIds, NEW s \in {"none", "queued", "running"}, NEW t \in 0..MaxTries
    PROVE  [jobs EXCEPT ![j] = [state |-> s, tries |-> t]] \in Jobs
  BY DEF Jobs

LEMMA PutJobDoes ==
    ASSUME Others, NEW j \in JobIds, PutJob(j)
    PROVE  jobs' \in Jobs
<1>1. 0 \in 0..MaxTries
  BY Constants
<1> QED  BY <1>1, PutDoes DEF PutJob, Others

LEMMA AcceptDoes ==
    ASSUME Others, NEW u, Accept(u)
    PROVE  /\ platform' \in [Uploads -> {"none", "pending", "live", "refused"}]
           /\ \E v \in {"pending", "live"} : platform' = [platform EXCEPT ![u] = v]
  BY DEF Accept, Others

\* A coroutine goes on without touching the row.
LEMMA OnlyGone ==
    ASSUME Typed, NEW a \in Actors, Alone(a), Gone(a), UNCHANGED <<post, platform, retries, async>>,
           faulty => faulty'
    PROVE  Kind
  BY RowStays, AloneAside DEF Kind, Bystands, SameCount

-----------------------------------------------------------------------------
(* Every action is a step of one of these kinds and keeps the other types.  *)

Good == Kind /\ Others'

LEMMA QueueSteps ==
    ASSUME IInv, NEW a \in Actors, Enqueue(a) \/ UndoEnqueue(a)
    PROVE  Good
<1>1. Typed /\ Others
  BY TypedRows DEF IInv
<1>2. CASE Enqueue(a)
  <2>1. local[a].att \in JobIds
    BY <1>1, Constants DEF Typed, Locals
  <2>2. jobs' \in Jobs /\ faulty' \in BOOLEAN /\ (faulty => faulty')
    <3>1. PutJob(local[a].att) \/ UNCHANGED jobs
      BY <1>2 DEF Enqueue
    <3>2. faulty' = faulty \/ faulty' = TRUE
      BY <1>2 DEF Enqueue
    <3>3. jobs \in Jobs /\ faulty \in BOOLEAN
      BY <1>1 DEF Others
    <3> QED  BY <1>1, <2>1, <3>1, <3>2, <3>3, PutJobDoes
  <2>3. Others'
    BY <1>1, <1>2, <2>2 DEF Enqueue, Others, world
  <2>4. CASE AfterEnqueue(a)
    BY <1>1, <1>2, <2>2, <2>4, AfterEnqueueDoes, OnlyGone, <2>3 DEF Enqueue, Gone, world, Good
  <2>5. CASE faulty' = TRUE /\ Goto(a, "undo")
    <3>1. Alone(a) /\ local'[a].pc = "undo"
      BY <1>1, <2>5, GotoDoes DEF PCs
    <3> QED  BY <1>1, <1>2, <2>5, <3>1, OnlyGone, <2>3 DEF Enqueue, Gone, world, Good
  <2> QED  BY <1>2, <2>4, <2>5 DEF Enqueue
<1>3. CASE UndoEnqueue(a)
  <2>1. Others'
    BY <1>1, <1>3 DEF UndoEnqueue, Others, world, history
  <2>2. Alone(a) /\ Gone(a)
    BY <1>1, <1>3, AfterEnqueueDoes DEF UndoEnqueue, Gone
  <2>3. Aside /\ SameCount /\ platform' = platform
    BY <1>3, <2>2, AloneAside DEF UndoEnqueue, SameCount, world, history
  <2>4. CASE post.status = "deleted" /\ post' = post
    BY <1>1, <2>1, <2>3, <2>4, RowStays DEF Good, Kind, Bystands
  <2>5. CASE post.status # "deleted"
    <3>1. /\ post' \in Rows /\ post'.status = "failed" /\ post'.handle = post.handle
          /\ post'.attempts = post.attempts /\ post'.old = post.old
      BY <1>1, <1>3, <2>5, FailDoes DEF UndoEnqueue
    <3>2. local[a].pc = "undo"
      BY <1>3 DEF UndoEnqueue, At
    <3> QED  BY <2>1, <2>2, <2>3, <2>5, <3>1, <3>2 DEF Good, Kind, Rewrites, IsOpen
  <2> QED  BY <1>1, <1>3, <2>4, <2>5, FailDoes DEF UndoEnqueue
<1> QED  BY <1>2, <1>3

\* A conditional update out of the open states, and one that changes nothing.
LEMMA CancelSteps ==
    ASSUME Typed, Others', CancelUnpublished, local' = local, platform' = platform, SameCount
    PROVE  Good
<1>1. Aside
  BY AllAside
<1>2. CASE post.status \in Cancellable
  <2>1. /\ post' \in Rows /\ post'.status = "cancelled" /\ post'.handle = post.handle
        /\ post'.attempts = post.attempts /\ post'.old = post.old
    BY <1>2, MoveToDoes DEF CancelUnpublished, Statuses
  <2> QED  BY <1>1, <1>2, <2>1 DEF Good, Kind, Rewrites, IsOpen, Cancellable
<1>3. CASE post.status \notin Cancellable
  BY <1>1, <1>3, RowStays DEF CancelUnpublished, Good, Kind, Bystands
<1> QED  BY <1>2, <1>3

LEMMA UserSteps ==
    ASSUME IInv, UserStep
    PROVE  Good
<1>1. Typed /\ Others
  BY TypedRows DEF IInv
<1>2. CASE CancelPost
  BY <1>1, <1>2, CancelSteps DEF CancelPost, Others, SameCount, world, history
<1>3. CASE Disconnect
  BY <1>1, <1>3, CancelSteps DEF Disconnect, Others, SameCount, history
<1>4. CASE DeleteClip
  BY <1>1, <1>4, CancelSteps DEF DeleteClip, Others, SameCount, history
<1>5. CASE Connect
  <2>1. Others' /\ SameCount /\ platform' = platform
    BY <1>1, <1>5 DEF Connect, Others, SameCount, history
  <2> QED  BY <1>1, <1>5, <2>1, AllAside, RowStays DEF Connect, Good, Kind, Bystands
<1>6. CASE DeletePost
  <2>1. Others' /\ SameCount /\ platform' = platform /\ local' = local
    BY <1>1, <1>6 DEF DeletePost, Others, SameCount, world, history
  <2>2. /\ post' \in Rows /\ post'.status = "deleted" /\ post'.handle = NoHandle /\ post'.attempts = 0
        /\ ~post'.old
    BY <1>6, NoPostDoes DEF DeletePost, Statuses
  <2>3. post.status \notin {"queued", "publishing", "new", "deleted"}
    BY <1>6 DEF DeletePost
  <2> QED  BY <1>1, <2>1, <2>2, <2>3 DEF Good, Kind, Deletes, Typed
<1> QED  BY <1>2, <1>3, <1>4, <1>5, <1>6 DEF UserStep

LEMMA RequestSteps ==
    ASSUME IInv, NEW r \in Requests, RequestStep(r)
    PROVE  Good
<1>1. Typed /\ Others /\ r \in Actors
  BY TypedRows DEF IInv
<1>2. CASE CreatePost(r)
  <2>1. Others' /\ SameCount /\ platform' = platform
    BY <1>1, <1>2 DEF CreatePost, Others, SameCount, world, history
  <2>2. Aside
    <3>1. CASE local' = local
      BY <1>1, <3>1, AllAside
    <3>2. CASE Goto(r, "enqueue")
      BY <1>1, <3>2, GotoDoes, AloneAside DEF Gone, PCs
    <3> QED  BY <1>2, <3>1, <3>2 DEF CreatePost
  <2>3. /\ post' \in Rows /\ post'.status \in {"scheduled", "queued"} /\ post'.handle = NoHandle
        /\ post'.attempts = 0 /\ ~post'.old
    <3>1. PICK s \in {"scheduled", "queued"} : post' = [NoPost EXCEPT !.status = s]
      BY <1>2 DEF CreatePost
    <3> QED  BY <3>1, NoPostDoes DEF Statuses
  <2>4. post.status = "new" /\ post.attempts = 0
    BY <1>2 DEF CreatePost, IInv, NewInv
  <2> QED  BY <2>1, <2>2, <2>3, <2>4 DEF Good, Kind, Rewrites, IsOpen
<1>3. CASE RetryRead(r)
  <2>1. Others' /\ UNCHANGED <<post, platform, retries, async, faulty>>
    BY <1>1, <1>3 DEF RetryRead, Others, world, history
  <2>2. Alone(r) /\ Gone(r)
    BY <1>1, <1>3, GotoDoes DEF RetryRead, Gone, PCs
  <2> QED  BY <1>1, <2>1, <2>2, OnlyGone DEF Good
<1>4. CASE RequeuePost(r)
  <2>1. CASE post.status \in Retryable /\ retries < MaxRetries
    <3>1. Others' /\ retries' = retries + 1 /\ UNCHANGED <<platform, async, faulty>>
      BY <1>1, <1>4, <2>1, Constants DEF RequeuePost, Others, world
    <3>2. /\ post' \in Rows /\ post'.status = "queued" /\ post'.handle = post.handle
          /\ post'.attempts = post.attempts /\ post'.old = post.old
      BY <1>1, <1>4, <2>1, MoveToDoes DEF RequeuePost, Statuses
    <3>3. post.attempts \in 0..MaxClaims
      BY <1>1 DEF Typed, Rows
    <3>4. Alone(r) /\ local'[r].pc = "enqueue"
      BY <1>1, <1>4, <2>1, <3>3 DEF RequeuePost, Typed, Locals, Alone, PCs
    <3>5. Aside
      BY <1>1, <3>4, AloneAside DEF Gone
    <3> QED  BY <2>1, <3>1, <3>2, <3>5 DEF Good, Kind, Requeues, Opens
  <2>2. CASE ~(post.status \in Retryable /\ retries < MaxRetries)
    <3>1. Others' /\ UNCHANGED <<post, platform, retries, async, faulty>> /\ Rest(r)
      BY <1>1, <1>4, <2>2 DEF RequeuePost, Others, world
    <3>2. Alone(r) /\ Gone(r)
      BY <1>1, <3>1, RestDoes DEF Gone
    <3> QED  BY <1>1, <3>1, <3>2, OnlyGone DEF Good
  <2> QED  BY <2>1, <2>2
<1> QED  BY <1>1, <1>2, <1>3, <1>4, QueueSteps DEF RequestStep
\* A coroutine writes what it has learnt.
LEMMA WriteSteps ==
    ASSUME Typed, Others', SameCount, platform' = platform, NEW a \in Actors, Alone(a), Gone(a),
           local[a].pc \in {"fail", "record", "look", "tell", "undo"}, NEW row \in Rows, UpdatePost(row),
           row.attempts = post.attempts, row.old = post.old,
           row.status \notin {"new", "scheduled", "queued"},
           row.handle \in {post.handle, NoHandle} \/ async
    PROVE  Good
<1>1. Aside
  BY AloneAside
<1>2. CASE post.status = "deleted" /\ post' = post
  BY <1>1, <1>2, RowStays DEF Good, Kind, Bystands
<1>3. CASE /\ post.status # "deleted" /\ post' \in Rows /\ post'.status = row.status
           /\ post'.handle = row.handle /\ post'.attempts = row.attempts /\ post'.old = row.old
  BY <1>1, <1>3 DEF Good, Kind, Rewrites, IsOpen
<1> QED  BY <1>2, <1>3, UpdateDoes

LEMMA FailSteps ==
    ASSUME Typed, Others', SameCount, platform' = platform, NEW a \in Actors, Alone(a), Gone(a),
           local[a].pc \in {"fail", "record", "look", "tell", "undo"}, Fail
    PROVE  Good
<1> DEFINE r == [post EXCEPT !.status = "failed"]
<1>1. /\ r \in Rows /\ r.status = "failed" /\ r.handle = post.handle
      /\ r.attempts = post.attempts /\ r.old = post.old
  BY StatusDoes DEF Typed, Statuses
<1>2. UpdatePost(r)
  BY DEF Fail
<1> HIDE DEF r
<1> QED  BY <1>1, <1>2, WriteSteps

LEMMA PublishedDoes ==
    ASSUME Typed, NEW known \in BOOLEAN
    PROVE  LET r == Published(known)
           IN  /\ r \in Rows /\ r.status = "published" /\ r.handle = NoHandle
               /\ r.attempts = post.attempts /\ r.old = post.old
  BY DEF Published, Typed, Rows, Statuses

\* The claim bounds its number by the tries that are left.
LEMMA ClaimSteps ==
    ASSUME IInv, NEW w \in Workers, ClaimPost(w)
    PROVE  Good
<1>1. Typed /\ Others /\ w \in Actors
  BY TypedRows DEF IInv
<1>2. Others' /\ SameCount /\ platform' = platform
  BY <1>1 DEF ClaimPost, Others, SameCount, world, history
<1>3. CASE post.status = "queued"
  <2>1. post.attempts + 1 \in 0..MaxClaims
    <3>1. Left \in SUBSET Tries /\ Open = 1
      BY <1>3 DEF Left, Open, IsOpen
    <3>2. Cardinality(Left) \in Nat /\ retries \in 0..MaxRetries /\ post.attempts \in 0..MaxClaims
      BY <1>1, <3>1, Counts DEF Others, Typed, Rows
    <3>3. post.attempts + 1 + Cardinality(Left) <= MaxAttempts + retries
      BY <3>1 DEF IInv, TryInv
    <3> QED  BY <3>2, <3>3, Constants
  <2> DEFINE p == IF post.handle # NoHandle THEN "look" ELSE IF clip THEN "prepare" ELSE "fail"
             l == [local[w] EXCEPT !.att = post.attempts + 1, !.seen = post.handle, !.pc = p]
             r == [post EXCEPT !.status = "publishing", !.attempts = @ + 1, !.old = FALSE, !.age = 0]
  <2>2. p \in {"look", "prepare", "fail"} /\ (p = "look" => post.handle # NoHandle)
    OBVIOUS
  <2> HIDE DEF p
  <2>3. l \in Locals /\ l.att = post.attempts + 1 /\ l.pc = p /\ l.seen = post.handle
    <3>1. local[w] \in Locals /\ post.handle \in Uploads \cup {NoHandle} /\ p \in PCs
      BY <1>1, <2>2 DEF Typed, Rows, PCs
    <3> QED  BY <2>1, <3>1 DEF Locals
  <2>4. r \in Rows /\ r.status = "publishing" /\ r.attempts = post.attempts + 1
        /\ r.handle = post.handle /\ r.old = FALSE
    <3>1. post \in Rows /\ 0 \in 0..2
      BY <1>1 DEF Typed
    <3> QED  BY <2>1, <3>1 DEF Rows, Statuses
  <2>5. post' = r
    BY <1>3 DEF ClaimPost
  <2>6. local' = [local EXCEPT ![w] = l]
    <3>1. local' = [local EXCEPT ![w].att = post.attempts + 1, ![w].seen = post.handle, ![w].pc = p]
      BY <1>3 DEF ClaimPost, p
    <3> QED  BY <1>1, <3>1 DEF Typed
  <2> HIDE DEF l, r
  <2>7. Alone(w) /\ local'[w] = l
    BY <1>1, <2>3, <2>6, SetDoes
  <2>8. post.handle # NoHandle => post.handle \in Uploads
    BY <1>1 DEF Typed, Rows
  <2>9. Claims(w)
    BY <1>2, <1>3, <2>2, <2>3, <2>4, <2>5, <2>7, <2>8 DEF Claims
  <2> QED  BY <1>2, <2>9 DEF Good, Kind
<1>4. CASE post.status # "queued"
  <2>1. Leave(w) /\ UNCHANGED <<post, platform, retries, async, faulty>>
    BY <1>4 DEF ClaimPost, world, history
  <2>2. Alone(w) /\ Gone(w)
    BY <1>1, <2>1, LeaveDoes DEF Gone
  <2> QED  BY <1>1, <1>2, <2>1, <2>2, OnlyGone DEF Good
<1> QED  BY <1>3, <1>4
\* The claim goes on to what it records, or the attempt fails before the upload.
LEMMA WorkingSteps ==
    ASSUME IInv, NEW w \in Workers, Prepare(w) \/ Upload(w) \/ JobTimesOut(w) \/ Drain(w)
    PROVE  Good
<1>1. Typed /\ Others /\ w \in Actors
  BY TypedRows DEF IInv
<1>2. CASE Prepare(w)
  <2>1. Others' /\ SameRow /\ SameCount /\ platform' = platform /\ local[w].pc = "prepare"
    BY <1>1, <1>2, RowStays DEF Prepare, Others, SameCount, world, history, At
  <2>2. CASE Goto(w, "upload") \/ Goto(w, "fail")
    <3>1. Alone(w) /\ local'[w].pc \in {"upload", "fail"} /\ local'[w].att = local[w].att
      BY <1>1, <2>2, GotoDoes DEF PCs
    <3>2. Works(w)
      BY <2>1, <3>1 DEF Works, Holding, Trying, Pending, Claiming
    <3> QED  BY <1>1, <2>1, <3>2 DEF Good, Kind
  <2>3. ASSUME NEW out \in {"retry", "error", "lostAuth"},
               local' = [local EXCEPT ![w].pc = "record", ![w].out = out]
        PROVE  Good
    <3>1. Alone(w) /\ local'[w].pc = "record" /\ local'[w].att = local[w].att
      BY <1>1, <2>3, OutDoes DEF PCs, Outcomes
    <3>2. Works(w)
      BY <2>1, <3>1 DEF Works, Holding, Trying, Pending, Claiming
    <3> QED  BY <1>1, <2>1, <3>2 DEF Good, Kind
  <2> QED  BY <1>2, <2>2, <2>3 DEF Prepare
<1>3. CASE Upload(w)
  <2>1. SameRow /\ SameCount /\ local[w].pc = "upload" /\ UNCHANGED <<post, world, jobs, history>>
    BY <1>1, <1>3, RowStays DEF Upload, SameCount, world, history, At
  <2>2. PICK out \in {"accepted", "retry", "error", "lostAuth", "unknown"} :
            /\ local' = [local EXCEPT ![w].pc = "record", ![w].out = out]
            /\ \/ UNCHANGED platform
               \/ Accept(local[w].att) /\ out # "retry"
    BY <1>3 DEF Upload
  <2>3. Alone(w) /\ local'[w].pc = "record" /\ local'[w].att = local[w].att /\ local'[w].out = out
    BY <1>1, <2>2, OutDoes DEF PCs, Outcomes
  <2>4. CASE UNCHANGED platform
    <3>1. Works(w)
      BY <2>1, <2>3, <2>4 DEF Works, Holding, Trying, Pending, Claiming
    <3> QED  BY <1>1, <2>1, <2>4, <3>1 DEF Good, Kind, Others, world, history
  <2>5. CASE Accept(local[w].att) /\ out # "retry"
    <3>1. /\ platform' \in [Uploads -> {"none", "pending", "live", "refused"}]
          /\ \E v \in {"pending", "live"} : platform' = [platform EXCEPT ![local[w].att] = v]
      BY <1>1, <2>5, AcceptDoes
    <3>2. Works(w)
      BY <2>1, <2>3, <2>5, <3>1 DEF Works, Holding, Trying, Pending, Claiming
    <3> QED  BY <1>1, <2>1, <3>1, <3>2 DEF Good, Kind, Others, world, history
  <2> QED  BY <2>2, <2>4, <2>5
<1>4. CASE JobTimesOut(w)
  <2>1. SameRow /\ SameCount /\ platform' = platform /\ Others'
    BY <1>1, <1>4, RowStays, Constants DEF JobTimesOut, SameCount, Others, world
  <2>2. CASE local[w].pc = "upload"
    <3>1. Alone(w) /\ local'[w].pc = "drain" /\ local'[w].att = local[w].att
      BY <1>1, <1>4, <2>2, GotoDoes DEF JobTimesOut, At, PCs
    <3>2. Works(w)
      BY <2>1, <2>2, <3>1 DEF Works, Holding, Trying, Pending, Claiming
    <3> QED  BY <1>1, <2>1, <3>2 DEF Good, Kind
  <2>3. CASE local[w].pc # "upload"
    <3>1. Leave(w) /\ UNCHANGED <<post, platform, retries, async, faulty>>
      BY <1>4, <2>3 DEF JobTimesOut, At, world
    <3>2. Alone(w) /\ Gone(w)
      BY <1>1, <3>1, LeaveDoes DEF Gone
    <3> QED  BY <1>1, <2>1, <3>1, <3>2, OnlyGone DEF Good
  <2> QED  BY <2>2, <2>3
<1>5. CASE Drain(w)
  <2>1. SameRow /\ SameCount /\ local[w].pc = "drain" /\ UNCHANGED <<post, world, jobs, history>>
    BY <1>1, <1>5, RowStays DEF Drain, SameCount, world, history, At
  <2>2. Alone(w) /\ Gone(w) /\ local'[w].pc \in {"finish", "sweep"}
    BY <1>1, <1>5, LeaveDoes DEF Drain, Gone
  <2>3. CASE UNCHANGED platform
    <3>1. Works(w)
      BY <2>1, <2>2, <2>3 DEF Works
    <3> QED  BY <1>1, <2>1, <2>3, <3>1 DEF Good, Kind, Others, world, history
  <2>4. CASE Accept(local[w].att)
    <3>1. /\ platform' \in [Uploads -> {"none", "pending", "live", "refused"}]
          /\ \E v \in {"pending", "live"} : platform' = [platform EXCEPT ![local[w].att] = v]
      BY <1>1, <2>4, AcceptDoes
    <3>2. Works(w)
      BY <2>1, <2>2, <3>1 DEF Works, Pending
    <3> QED  BY <1>1, <2>1, <3>1, <3>2 DEF Good, Kind, Others, world, history
  <2> QED  BY <1>5, <2>3, <2>4 DEF Drain
<1> QED  BY <1>2, <1>3, <1>4, <1>5

LEMMA RecordSteps ==
    ASSUME IInv, NEW w \in Workers, Record(w)
    PROVE  Good
<1>1. Typed /\ Others /\ w \in Actors
  BY TypedRows DEF IInv
<1>2. local[w].pc = "record" /\ local[w].att \in Uploads
  BY <1>1 DEF Record, At, IInv, ClaimInv, Holding
<1>3. Others' /\ SameCount /\ platform' = platform
  <2>1. recorded' \in SUBSET Uploads
    BY <1>1, <1>2 DEF Record, Others
  <2>2. account' \in {"active", "reauth", "revoked"}
    BY <1>1 DEF Record, LoseAuth, Others
  <2>3. UNCHANGED <<clip, async, jobs, platform, retries, crashes, told, faulty>>
    BY DEF Record
  <2> QED  BY <1>1, <2>1, <2>2, <2>3 DEF Others, SameCount
<1>4. CASE local[w].out = "accepted"
  <2>1. Alone(w) /\ Gone(w)
    BY <1>1, <1>4, LeaveDoes DEF Record, Gone
  <2>2. CASE async
    <3> DEFINE r == [post EXCEPT !.status = "publishing", !.handle = local[w].att]
    <3>1. /\ r \in Rows /\ r.status = "publishing"
          /\ r.attempts = post.attempts /\ r.old = post.old
      <4>1. post \in Rows /\ "publishing" \in Statuses /\ local[w].att \in Uploads \cup {NoHandle}
        BY <1>1, <1>2 DEF Typed, Statuses
      <4> QED  BY <4>1 DEF Rows
    <3>2. UpdatePost(r)
      BY <1>4, <2>2 DEF Record
    <3> HIDE DEF r
    <3> QED  BY <1>1, <1>2, <1>3, <2>1, <2>2, <3>1, <3>2, WriteSteps
  <2>3. CASE ~async
    <3> DEFINE r == Published(TRUE)
    <3>1. /\ r \in Rows /\ r.status = "published" /\ r.handle = NoHandle
          /\ r.attempts = post.attempts /\ r.old = post.old
      BY <1>1, PublishedDoes
    <3>2. UpdatePost(r)
      BY <1>4, <2>3 DEF Record
    <3> HIDE DEF r
    <3> QED  BY <1>1, <1>2, <1>3, <2>1, <3>1, <3>2, WriteSteps
  <2> QED  BY <2>2, <2>3
<1>5. CASE local[w].out # "accepted" /\ MayRetry(w)
  <2> DEFINE r == [post EXCEPT !.status = "queued"]
  <2>1. /\ r \in Rows /\ r.status = "queued" /\ r.handle = post.handle
        /\ r.attempts = post.attempts /\ r.old = post.old
    BY <1>1, StatusDoes DEF Typed, Statuses
  <2>2. UpdatePost(r) /\ Goto(w, "retry")
    BY <1>5 DEF Record
  <2> HIDE DEF r
  <2>3. Alone(w) /\ Gone(w)
    BY <1>1, <2>2, GotoDoes DEF Gone, PCs
  <2>4. Aside
    BY <1>1, <2>3, AloneAside
  <2>5. CASE post.status = "deleted" /\ post' = post
    BY <1>1, <1>3, <2>4, <2>5, RowStays DEF Good, Kind, Bystands
  <2>6. CASE post.status # "deleted"
    <3>1. /\ post' \in Rows /\ post'.status = "queued" /\ post'.handle = post.handle
          /\ post'.attempts = post.attempts /\ post'.old = post.old
      BY <1>1, <2>1, <2>2, <2>6, UpdateDoes
    <3>2. Retries(w)
      BY <1>2, <1>3, <1>5, <2>3, <2>4, <2>6, <3>1 DEF Retries, Opens, MayRetry, SameCount
    <3> QED  BY <1>3, <3>2 DEF Good, Kind
  <2> QED  BY <1>1, <2>1, <2>2, <2>5, <2>6, UpdateDoes
<1>6. CASE local[w].out # "accepted" /\ ~MayRetry(w)
  <2>1. Fail /\ Leave(w)
    BY <1>6 DEF Record
  <2>2. Alone(w) /\ Gone(w)
    BY <1>1, <2>1, LeaveDoes DEF Gone
  <2> QED  BY <1>1, <1>2, <1>3, <2>1, <2>2, FailSteps
<1> QED  BY <1>4, <1>5, <1>6

LEMMA PollSteps ==
    ASSUME IInv, NEW a \in Actors, Poll(a)
    PROVE  Good
<1>1. Typed /\ Others
  BY TypedRows DEF IInv
<1>2. CASE Look(a)
  <2>1. Others' /\ SameCount /\ platform' = platform /\ local[a].pc = "look"
    BY <1>1, <1>2 DEF Look, Others, SameCount, world, history, At
  <2>2. CASE Fail /\ Leave(a)
    <3>1. Alone(a) /\ Gone(a)
      BY <1>1, <2>2, LeaveDoes DEF Gone
    <3> QED  BY <1>1, <2>1, <2>2, <3>1, FailSteps
  <2>3. CASE Goto(a, "ask") /\ UNCHANGED post
    <3>1. local[a].seen \in Uploads
      BY <2>1 DEF IInv, SeenInv
    <3>2. Alone(a) /\ Gone(a)
      BY <1>1, <2>1, <2>3, <3>1, GotoDoes DEF Gone, PCs
    <3> QED  BY <1>1, <2>1, <2>3, <3>2, OnlyGone DEF Good, SameCount
  <2> QED  BY <1>2, <2>2, <2>3 DEF Look
<1>3. CASE Ask(a)
  <2>1. local[a].pc = "ask" /\ UNCHANGED <<post, world, jobs, platform, retries, crashes, recorded, faulty>>
    BY <1>3 DEF Ask, At
  <2>2. PICK out \in Answers(local[a].seen) :
            /\ IF out = "none" THEN Leave(a)
               ELSE local' = [local EXCEPT ![a].pc = "tell", ![a].out = out]
            /\ told' = IF out = "rejected" THEN told \cup {local[a].seen} ELSE told
    BY <1>3 DEF Ask
  <2>3. out \in Outcomes
    BY <2>2 DEF Answers, Outcomes
  <2>4. local[a].seen \in Uploads
    BY <2>1 DEF IInv, SeenInv
  <2>5. told' \in SUBSET Uploads
    BY <1>1, <2>2, <2>4 DEF Others
  <2>6. Others'
    BY <1>1, <2>1, <2>5 DEF Others, world
  <2>7. Alone(a) /\ Gone(a)
    <3>1. CASE out = "none"
      BY <1>1, <2>2, <3>1, LeaveDoes DEF Gone
    <3>2. CASE out # "none"
      BY <1>1, <2>1, <2>2, <2>3, <2>4, <3>2, OutDoes DEF Gone, PCs
    <3> QED  BY <3>1, <3>2
  <2> QED  BY <1>1, <2>1, <2>6, <2>7, OnlyGone DEF Good, world
<1>4. CASE Tell(a)
  <2>1. local[a].pc = "tell" /\ UNCHANGED <<clip, async, jobs, platform, history>>
    BY <1>4 DEF Tell, At
  <2>2. account' \in {"active", "reauth", "revoked"}
    BY <1>1, <1>4 DEF Tell, LoseAuth, Others
  <2>3. Others' /\ SameCount /\ platform' = platform
    BY <1>1, <2>1, <2>2 DEF Others, SameCount, history
  <2>4. Alone(a) /\ Gone(a)
    BY <1>1, <1>4, LeaveDoes DEF Tell, Gone
  <2>5. CASE local[a].out = "published"
    <3>1. PICK known \in BOOLEAN : UpdatePost(Published(known))
      BY <1>4, <2>5 DEF Tell
    <3> DEFINE r == Published(known)
    <3>2. /\ r \in Rows /\ r.status = "published" /\ r.handle = NoHandle
          /\ r.attempts = post.attempts /\ r.old = post.old
      BY <1>1, PublishedDoes
    <3> HIDE DEF r
    <3>3. UpdatePost(r)
      BY <3>1 DEF r
    <3> QED  BY <1>1, <2>1, <2>3, <2>4, <3>2, <3>3, WriteSteps
  <2>6. CASE local[a].out = "rejected"
    <3> DEFINE r == [post EXCEPT !.status = "failed", !.handle = NoHandle]
    <3>1. /\ r \in Rows /\ r.status = "failed" /\ r.handle = NoHandle
          /\ r.attempts = post.attempts /\ r.old = post.old
      <4>1. post \in Rows /\ "failed" \in Statuses /\ NoHandle \in Uploads \cup {NoHandle}
        BY <1>1 DEF Typed, Statuses
      <4> QED  BY <4>1 DEF Rows
    <3>2. UpdatePost(r)
      BY <1>4, <2>6 DEF Tell
    <3> HIDE DEF r
    <3> QED  BY <1>1, <2>1, <2>3, <2>4, <3>1, <3>2, WriteSteps
  <2>7. CASE local[a].out \notin {"published", "rejected"}
    <3>1. Fail
      BY <1>4, <2>7 DEF Tell
    <3> QED  BY <1>1, <2>1, <2>3, <2>4, <3>1, FailSteps
  <2> QED  BY <2>5, <2>6, <2>7
<1> QED  BY <1>2, <1>3, <1>4 DEF Poll

LEMMA LeaveSteps ==
    ASSUME Typed, NEW a \in Actors, Leave(a), UNCHANGED <<post, platform, retries, async>>,
           faulty => faulty'
    PROVE  Kind
<1>1. Alone(a) /\ Gone(a)
  BY LeaveDoes DEF Gone
<1> QED  BY <1>1, OnlyGone

LEMMA SeeSteps ==
    ASSUME Typed, NEW a \in Actors, SeeHandle(a), post.handle # NoHandle,
           UNCHANGED <<post, platform, retries, async, faulty>>
    PROVE  Kind
<1>1. post.handle \in Uploads
  BY DEF Typed, Rows
<1>2. Alone(a) /\ Gone(a)
  BY <1>1, SeeDoes DEF Gone
<1> QED  BY <1>2, OnlyGone

LEMMA JobSteps ==
    ASSUME IInv, NEW w \in Workers, JobStep(w)
    PROVE  Good
<1>1. Typed /\ Others /\ w \in Actors
  BY TypedRows DEF IInv
<1>2. CASE ReadPost(w)
  <2>1. Others' /\ UNCHANGED <<post, platform, retries, async, faulty>>
    BY <1>1, <1>2 DEF ReadPost, Others, world, history
  <2>2. CASE SeeHandle(w) /\ post.handle # NoHandle
    BY <1>1, <2>1, <2>2, SeeSteps DEF Good
  <2>3. CASE Goto(w, "claim")
    <3>1. Alone(w) /\ Gone(w)
      BY <1>1, <2>3, GotoDoes DEF Gone, PCs
    <3> QED  BY <1>1, <2>1, <3>1, OnlyGone DEF Good
  <2>4. CASE Leave(w)
    BY <1>1, <2>1, <2>4, LeaveSteps DEF Good
  <2> QED  BY <1>2, <2>2, <2>3, <2>4 DEF ReadPost
<1>3. CASE FailClaimed(w)
  <2>1. Others' /\ SameCount /\ platform' = platform /\ local[w].pc = "fail"
    BY <1>1, <1>3 DEF FailClaimed, Others, SameCount, world, history, At
  <2>2. Alone(w) /\ Gone(w)
    BY <1>1, <1>3, LeaveDoes DEF FailClaimed, Gone
  <2>3. Fail
    BY <1>3 DEF FailClaimed
  <2> QED  BY <1>1, <2>1, <2>2, <2>3, FailSteps
<1>4. CASE EnqueueRetry(w)
  <2>1. local[w].att \in JobIds
    BY <1>1, Constants DEF Typed, Locals
  <2>2. PutJob(local[w].att) \/ UNCHANGED jobs
    BY <1>4 DEF EnqueueRetry
  <2>3. faulty' = faulty \/ faulty' = TRUE
    BY <1>4 DEF EnqueueRetry
  <2>4. jobs' \in Jobs /\ faulty' \in BOOLEAN
    <3>1. jobs \in Jobs /\ faulty \in BOOLEAN
      BY <1>1 DEF Others
    <3> QED  BY <1>1, <2>1, <2>2, <2>3, <3>1, PutJobDoes
  <2>5. Leave(w) /\ UNCHANGED <<post, world, platform, retries, crashes, recorded, told>>
    BY <1>4 DEF EnqueueRetry
  <2>6. Others'
    BY <1>1, <2>4, <2>5 DEF Others, world
  <2> QED  BY <1>1, <2>3, <2>5, <2>6, LeaveSteps DEF Good, world
<1>5. CASE JobEnds(w)
  <2>1. Alone(w) /\ Gone(w)
    BY <1>1, <1>5, RestDoes DEF JobEnds, Gone
  <2>2. jobs' \in Jobs
    <3>1. local[w].job \in JobIds /\ 0 \in 0..MaxTries /\ jobs \in Jobs
      BY <1>1, Constants DEF Typed, Locals, Others
    <3> QED  BY <1>5, <3>1, PutDoes DEF JobEnds
  <2>3. Others' /\ UNCHANGED <<post, platform, retries, async, faulty>>
    BY <1>1, <1>5, <2>2 DEF JobEnds, Others, world, history
  <2> QED  BY <1>1, <2>1, <2>3, OnlyGone DEF Good
<1> QED  BY <1>1, <1>2, <1>3, <1>4, <1>5, ClaimSteps, WorkingSteps, RecordSteps, PollSteps DEF JobStep

LEMMA DeliverSteps ==
    ASSUME IInv, NEW w \in Workers, NEW j \in JobIds, Deliver(w, j)
    PROVE  Good
<1>1. Typed /\ Others /\ w \in Actors /\ jobs \in Jobs
  BY TypedRows DEF IInv, Others
<1>2. UNCHANGED <<post, platform, retries, async, faulty>> /\ UNCHANGED <<world, platform, history>>
  BY DEF Deliver, world, history
<1>3. CASE jobs[j].tries < MaxTries
  <2>1. jobs' \in Jobs
    <3>1. jobs[j].tries + 1 \in 0..MaxTries
      BY <1>1, <1>3, Constants DEF Jobs
    <3> QED  BY <1>1, <1>3, <3>1 DEF Deliver, Jobs
  <2> DEFINE l == [Idle EXCEPT !.pc = "read", !.job = j]
  <2>2. l \in Locals /\ l.pc = "read"
    BY IdleTyped DEF Locals, PCs
  <2>3. local' = [local EXCEPT ![w] = l]
    BY <1>3 DEF Deliver
  <2> HIDE DEF l
  <2>4. Alone(w) /\ Gone(w)
    BY <1>1, <2>2, <2>3, SetDoes DEF Gone
  <2> QED  BY <1>1, <1>2, <2>1, <2>4, OnlyGone DEF Good, Others, world, history
<1>4. CASE ~(jobs[j].tries < MaxTries)
  <2>1. jobs' \in Jobs
    <3>1. 0 \in 0..MaxTries
      BY Constants
    <3> QED  BY <1>1, <1>4, <3>1, PutDoes DEF Deliver
  <2>2. local' = local
    BY <1>4 DEF Deliver
  <2>3. Bystands
    BY <1>1, <1>2, <2>2, AllAside, RowStays DEF Bystands, SameCount
  <2> QED  BY <1>1, <1>2, <2>1, <2>3 DEF Good, Kind, Others, world, history
<1> QED  BY <1>3, <1>4

LEMMA CronSteps ==
    ASSUME IInv, NEW c \in Crons, CronStep(c)
    PROVE  Good
<1>1. Typed /\ Others /\ c \in Actors
  BY TypedRows DEF IInv
<1>2. CASE DispatchScheduled(c)
  <2>1. Others' /\ SameCount /\ UNCHANGED <<platform, retries, async, faulty>>
    BY <1>1, <1>2 DEF DispatchScheduled, Others, SameCount, world, history
  <2>2. CASE post.status = "scheduled" /\ MoveTo("queued")
             /\ local' = [local EXCEPT ![c].pc = "enqueue", ![c].att = 0]
    <3>1. /\ post' \in Rows /\ post'.status = "queued" /\ post'.handle = post.handle
          /\ post'.attempts = post.attempts /\ post'.old = post.old
      BY <1>1, <2>2, MoveToDoes DEF Statuses
    <3>2. Alone(c) /\ local'[c].pc = "enqueue"
      <4> DEFINE l == [local[c] EXCEPT !.pc = "enqueue", !.att = 0]
      <4>1. l \in Locals /\ l.pc = "enqueue"
        <5>1. 0 \in 0..MaxClaims /\ local[c] \in Locals
          BY <1>1, Constants DEF Typed
        <5> QED  BY <5>1 DEF Locals, PCs
      <4>2. local' = [local EXCEPT ![c] = l]
        BY <1>1, <2>2 DEF Typed
      <4> HIDE DEF l
      <4> QED  BY <1>1, <4>1, <4>2, SetDoes
    <3>3. Aside
      BY <1>1, <3>2, AloneAside DEF Gone
    <3> QED  BY <2>1, <2>2, <3>1, <3>3 DEF Good, Kind, Rewrites, IsOpen
  <2>3. CASE Goto(c, "list") /\ UNCHANGED post
    <3>1. Alone(c) /\ Gone(c)
      BY <1>1, <2>3, GotoDoes DEF Gone, PCs
    <3> QED  BY <1>1, <2>1, <2>3, <3>1, OnlyGone DEF Good
  <2> QED  BY <1>2, <2>2, <2>3 DEF DispatchScheduled
<1>3. CASE ListPending(c)
  <2>1. Others' /\ UNCHANGED <<post, platform, retries, async, faulty>>
    BY <1>1, <1>3 DEF ListPending, Others, world, history
  <2>2. CASE SeeHandle(c) /\ post.handle # NoHandle
    BY <1>1, <2>1, <2>2, SeeSteps DEF Good
  <2>3. CASE Goto(c, "sweep")
    <3>1. Alone(c) /\ Gone(c)
      BY <1>1, <2>3, GotoDoes DEF Gone, PCs
    <3> QED  BY <1>1, <2>1, <3>1, OnlyGone DEF Good
  <2> QED  BY <1>3, <2>2, <2>3 DEF ListPending
<1>4. CASE SweepStale(c)
  <2>1. Others' /\ SameCount /\ UNCHANGED <<platform, retries, async, faulty>>
    BY <1>1, <1>4 DEF SweepStale, Others, SameCount, world, history
  <2>2. Alone(c) /\ Gone(c)
    BY <1>1, <1>4, RestDoes DEF SweepStale, Gone
  <2>3. CASE post.status = "publishing" /\ post.handle = NoHandle /\ post.old
    <3>1. /\ post' \in Rows /\ post'.status = "failed" /\ post'.handle = post.handle
          /\ post'.attempts = post.attempts /\ post'.old = post.old
      BY <1>1, <1>4, <2>3, MoveToDoes DEF SweepStale, Statuses
    <3>2. Aside
      BY <1>1, <2>2, AloneAside
    <3> QED  BY <2>1, <2>3, <3>1, <3>2 DEF Good, Kind, Rewrites, IsOpen
  <2>4. CASE ~(post.status = "publishing" /\ post.handle = NoHandle /\ post.old)
    <3>1. UNCHANGED post
      BY <1>4, <2>4 DEF SweepStale
    <3> QED  BY <1>1, <2>1, <2>2, <3>1, OnlyGone DEF Good
  <2> QED  BY <2>3, <2>4
<1> QED  BY <1>1, <1>2, <1>3, <1>4, QueueSteps, PollSteps DEF CronStep

LEMMA CrashSteps ==
    ASSUME IInv, NEW a \in Actors, Crash(a)
    PROVE  Good
<1>1. Typed /\ Others
  BY TypedRows DEF IInv
<1>2. jobs' \in Jobs
  <2>1. jobs \in Jobs /\ local[a].job \in JobIds
    BY <1>1 DEF Others, Typed, Locals
  <2>3. CASE a \in Workers
    <3> DEFINE r == [jobs[local[a].job] EXCEPT !.state = "queued"]
    <3>1. r \in [state : {"none", "queued", "running"}, tries : 0..MaxTries]
      BY <2>1 DEF Jobs
    <3>2. jobs' = [jobs EXCEPT ![local[a].job] = r]
      BY <2>3 DEF Crash
    <3> HIDE DEF r
    <3> QED  BY <2>1, <3>1, <3>2 DEF Jobs
  <2>4. CASE a \notin Workers
    BY <2>1, <2>4 DEF Crash
  <2> QED  BY <2>3, <2>4
<1>3. /\ UNCHANGED <<post, world, retries, recorded, told, faulty>>
      /\ crashes' \in 0..MaxCrashes /\ SameRow /\ SameCount
  BY <1>1, RowStays, Constants DEF Crash, SameCount, world, Others
<1>4. Alone(a) /\ Gone(a) /\ local'[a].pc = "idle"
  BY <1>1, RestDoes DEF Crash, Gone
<1>5. CASE UNCHANGED platform
  BY <1>1, <1>2, <1>3, <1>4, <1>5 DEF Good, Kind, Works, Others, world
<1>6. CASE local[a].pc = "upload" /\ Accept(local[a].att)
  <2>1. /\ platform' \in [Uploads -> {"none", "pending", "live", "refused"}]
        /\ \E v \in {"pending", "live"} : platform' = [platform EXCEPT ![local[a].att] = v]
    BY <1>1, <1>6, AcceptDoes
  <2>2. Works(a)
    BY <1>3, <1>4, <1>6, <2>1 DEF Works, Pending
  <2> QED  BY <1>1, <1>2, <1>3, <2>1, <2>2 DEF Good, Kind, Others, world
<1> QED  BY <1>5, <1>6 DEF Crash, MayBeAccepted, At

LEMMA DecideSteps ==
    ASSUME IInv, NEW u \in Uploads, PlatformDecides(u)
    PROVE  Good
<1>1. Typed /\ Others
  BY TypedRows DEF IInv
<1>2. PICK fate \in {"live", "refused"} : platform' = [platform EXCEPT ![u] = fate]
  BY DEF PlatformDecides
<1>3. Others'
  BY <1>1, <1>2 DEF PlatformDecides, Others, world, history
<1>4. SameRow /\ SameCount /\ local' = local /\ platform[u] = "pending"
  BY <1>1, RowStays DEF PlatformDecides, SameCount, world, history
<1> QED  BY <1>1, <1>2, <1>3, <1>4 DEF Good, Kind, Decides, Typed

LEMMA OlderDoes ==
    ASSUME Typed, NEW a \in Actors
    PROVE  /\ Older(a) \in Locals /\ Older(a).pc = local[a].pc /\ Older(a).att = local[a].att
           /\ Older(a).out = local[a].out /\ Older(a).seen = local[a].seen
<1>1. local[a] \in Locals /\ (IF local[a].age = 1 THEN 2 ELSE local[a].age) \in 0..2
  BY DEF Typed, Locals
<1>2. Older(a) = [local[a] EXCEPT !.age = IF local[a].age = 1 THEN 2 ELSE local[a].age]
  BY DEF Older
<1> QED  BY <1>1, <1>2 DEF Locals

LEMMA AgingDoes ==
    ASSUME Typed, NEW k \in 0..2, post' = [post EXCEPT !.age = k]
    PROVE  SameRow
  BY DEF Typed, Rows, SameRow

LEMMA TimeSteps ==
    ASSUME IInv, Time
    PROVE  Good
<1>1. Typed /\ Others
  BY TypedRows DEF IInv
<1>2. CASE ClaimAges
  <2>1. Others' /\ SameCount /\ platform' = platform /\ local' = local /\ \A w \in Workers : ~Working(w)
    BY <1>1, <1>2 DEF ClaimAges, Others, SameCount, world, history
  <2>2. /\ post' \in Rows /\ post'.status = post.status /\ post'.handle = post.handle
        /\ post'.attempts = post.attempts
    BY <1>1, <1>2 DEF ClaimAges, Typed, Rows
  <2> QED  BY <1>1, <2>1, <2>2 DEF Good, Kind, Ages, Typed
<1>3. CASE WaitGrows
  <2>1. Others' /\ SameCount /\ platform' = platform /\ local' = local
    BY <1>1, <1>3 DEF WaitGrows, Others, SameCount, world, history
  <2>2. SameRow
    BY <1>1, <1>3, AgingDoes DEF WaitGrows
  <2> QED  BY <1>1, <2>1, <2>2, AllAside DEF Good, Kind, Bystands
<1>4. CASE WaitIsOver
  <2>1. Others' /\ SameCount /\ platform' = platform /\ local' = [a \in Actors |-> Older(a)]
    BY <1>1, <1>4 DEF WaitIsOver, Others, SameCount, world, history
  <2>2. SameRow
    BY <1>1, <1>4, AgingDoes DEF WaitIsOver
  <2>3. local' \in [Actors -> Locals] /\ \A a \in Actors : Same(a)
    BY <1>1, <2>1, OlderDoes DEF Same
  <2> QED  BY <2>1, <2>2, <2>3 DEF Good, Kind, Bystands, Aside
<1>5. ASSUME NEW a \in Actors, CopyIsOver(a)
      PROVE  Good
  <2>1. Others' /\ SameCount /\ platform' = platform /\ local' = [local EXCEPT ![a] = Older(a)]
    BY <1>1, <1>5 DEF CopyIsOver, Others, SameCount, world, history
  <2>2. SameRow
    BY <1>1, <1>5, RowStays DEF CopyIsOver
  <2>3. Alone(a) /\ Same(a)
    BY <1>1, <2>1, OlderDoes, SetDoes DEF Same
  <2> QED  BY <2>1, <2>2, <2>3, AloneAside DEF Good, Kind, Bystands
<1> QED  BY <1>2, <1>3, <1>4, <1>5 DEF Time

LEMMA Steps ==
    ASSUME IInv, [Next]_vars
    PROVE  Good
<1>1. CASE UNCHANGED vars
  <2>1. Typed /\ Others
    BY TypedRows DEF IInv
  <2>2. Others' /\ SameCount /\ SameRow /\ platform' = platform /\ local' = local
    BY <1>1, <2>1, RowStays DEF vars, Others, SameCount
  <2> QED  BY <2>1, <2>2, AllAside DEF Good, Kind, Bystands
<1>2. ASSUME NEW w \in Workers, JobStep(w) \/ JobTimesOut(w) \/ \E j \in JobIds : Deliver(w, j)
      PROVE  Good
  BY <1>2, JobSteps, WorkingSteps, DeliverSteps
<1> QED  BY <1>1, <1>2, RequestSteps, UserSteps, CronSteps, CrashSteps, DecideSteps, TimeSteps DEF Next

-----------------------------------------------------------------------------
(* What the kinds of steps keep.                                            *)

Calm == Bystands \/ Rewrites \/ Requeues \/ \E w \in Workers : Retries(w)

\* The steps that move claims nowhere.
LEMMA CalmSteps ==
    ASSUME Calm
    PROVE  /\ platform' = platform /\ post'.attempts = post.attempts /\ async' = async
           /\ post' \in Rows /\ local' \in [Actors -> Locals] /\ (post'.old => post.old)
           /\ \A a \in Actors : Same(a) \/ Gone(a)
           /\ post'.status # "deleted" => post.status # "deleted"
           /\ post'.status = "new" => post.status = "new"
           /\ faulty => faulty'
  BY DEF Calm, Bystands, Rewrites, Requeues, Retries, Opens, SameRow, SameCount, Aside, Retryable

LEMMA KindCases ==
    ASSUME Kind
    PROVE  \/ Calm \/ Deletes \/ Ages
           \/ \E w \in Workers : Claims(w)
           \/ \E a \in Actors : Works(a)
           \/ \E u \in Uploads : Decides(u)
  BY DEF Kind, Calm

LEMMA TypeKept ==
    ASSUME IInv, Good
    PROVE  TypeOK'
<1>1. CASE Calm
  BY <1>1, CalmSteps, TypedRows DEF Good, Typed, TypeOK, Others, Rows, Locals, Jobs
<1>2. CASE Deletes \/ Ages
  BY <1>2 DEF Deletes, Ages, Good, TypeOK, Others, Rows, Locals, Jobs
<1>3. ASSUME NEW w \in Actors, Claims(w) \/ Works(w)
      PROVE  TypeOK'
  BY <1>3 DEF Claims, Works, Alone, SameRow, Good, TypeOK, Others, Rows, Locals, Jobs
<1>4. ASSUME NEW u \in Uploads, Decides(u)
      PROVE  TypeOK'
  BY <1>4 DEF Decides, SameRow, Good, TypeOK, Others, Rows, Locals, Jobs
<1> QED  BY <1>1, <1>2, <1>3, <1>4, KindCases DEF Good

LEMMA NewKept ==
    ASSUME IInv, Kind
    PROVE  NewInv'
<1>1. CASE Calm
  BY <1>1, CalmSteps DEF IInv, NewInv
<1>2. CASE Deletes \/ Ages
  BY <1>2 DEF Deletes, Ages, IInv, NewInv
<1>3. ASSUME NEW w \in Actors, Claims(w) \/ Works(w)
      PROVE  NewInv'
  BY <1>3 DEF Claims, Works, SameRow, IInv, NewInv
<1>4. ASSUME NEW u \in Uploads, Decides(u)
      PROVE  NewInv'
  BY <1>4 DEF Decides, SameRow, IInv, NewInv
<1> QED  BY <1>1, <1>2, <1>3, <1>4, KindCases

LEMMA ClaimKept ==
    ASSUME IInv, Good
    PROVE  ClaimInv'
<1>1. Typed /\ Others /\ Typed' /\ Others'
  BY TypedRows, TypedAfter, TypeKept DEF IInv
<1> USE DEF IInv, ClaimInv
<1>2. CASE Calm
  BY <1>2, CalmSteps DEF Same, Gone, Holding
<1>3. CASE Deletes \/ Ages
  BY <1>3 DEF Deletes, Ages, Holding
<1>4. ASSUME NEW w \in Workers, Claims(w)
      PROVE  ClaimInv'
  <2>1. post.attempts + 1 \in Uploads /\ post.attempts \in Nat
    BY <1>1, <1>4, Constants DEF Typed, Rows, Uploads, Claims
  <2>2. \A a \in Actors : Holding(a)' =>
           \/ a = w /\ local'[a].att = post.attempts + 1
           \/ a # w /\ Holding(a) /\ local'[a].att = local[a].att /\ local[a].att <= post.attempts
    BY <1>4 DEF Claims, Alone, Holding
  <2>3. \A a \in Actors : Holding(a) => local[a].att \in Uploads
    OBVIOUS
  <2>4. Uploads \subseteq Nat
    BY DEF Uploads
  <2>5. \A a \in Actors : Holding(a)' => a \in Workers /\ local'[a].att \in Uploads
    BY <2>1, <2>2
  <2>6. \A a, b \in Actors : Holding(a)' /\ Holding(b)' /\ local'[a].att = local'[b].att => a = b
    BY <2>1, <2>2, <2>3, <2>4
  <2>7. post'.attempts = post.attempts + 1 /\ platform' = platform /\ post.status = "queued"
    BY <1>4 DEF Claims
  <2>8. \A a \in Actors : Holding(a)' => local'[a].att <= post'.attempts
    <3>1. \A n, k \in Nat : n <= k => n <= k + 1
      OBVIOUS
    <3>2. ASSUME NEW a \in Actors, Holding(a)'
          PROVE  local'[a].att <= post.attempts + 1
      <4>1. CASE local'[a].att = post.attempts + 1
        <5>1. \A n \in Nat : n + 1 <= n + 1
          OBVIOUS
        <5> QED  BY <2>1, <4>1, <5>1
      <4>2. CASE Holding(a) /\ local'[a].att = local[a].att /\ local[a].att <= post.attempts
        <5>1. local[a].att \in Nat
          BY <2>3, <2>4, <4>2
        <5> QED  BY <2>1, <3>1, <4>2, <5>1
      <4> QED  BY <2>2, <3>2, <4>1, <4>2
    <3> QED  BY <2>7, <3>2
  <2>9. \A u \in Uploads : platform'[u] # "none" => u <= post'.attempts
    BY <2>1, <2>4, <2>7
  <2> QED  BY <2>5, <2>6, <2>8, <2>9
<1>5. ASSUME NEW a \in Actors, Works(a)
      PROVE  ClaimInv'
  <2>1. \A b \in Actors : Holding(b)' => Holding(b) /\ local'[b].att = local[b].att
    BY <1>5 DEF Works, Alone, Gone, Holding
  <2>2. post'.attempts = post.attempts /\ post'.status = post.status
    BY <1>5 DEF Works, SameRow
  <2>3. \A u \in Uploads : platform'[u] # "none" =>
            platform[u] # "none" \/ (Holding(a) /\ u = local[a].att)
    <3>1. CASE platform' = platform
      BY <3>1
    <3>2. CASE Pending(a) /\ \E v \in {"pending", "live"} : platform' = [platform EXCEPT ![local[a].att] = v]
      BY <1>1, <3>2 DEF Pending, Holding, Others
    <3> QED  BY <1>5, <3>1, <3>2 DEF Works
  <2> QED  BY <2>1, <2>2, <2>3
<1>6. ASSUME NEW u \in Uploads, Decides(u)
      PROVE  ClaimInv'
  <2>1. \A v \in Uploads : platform'[v] # "none" => platform[v] # "none"
    BY <1>1, <1>6 DEF Decides, Others
  <2> QED  BY <1>6, <2>1 DEF Decides, SameRow, Holding
<1> QED  BY <1>2, <1>3, <1>4, <1>5, <1>6, KindCases DEF Good

LEMMA PlatformKept ==
    ASSUME IInv, Good
    PROVE  PlatformInv'
<1>1. Typed /\ Others /\ \A a \in Actors : Pending(a) => Holding(a)
  BY TypedRows DEF IInv, Pending, Holding
<1> USE DEF IInv, PlatformInv
<1>2. CASE Calm
  BY <1>2, CalmSteps DEF Same, Gone, Pending
<1>3. CASE Deletes \/ Ages
  BY <1>3 DEF Deletes, Ages, Pending
<1>4. ASSUME NEW w \in Workers, Claims(w)
      PROVE  PlatformInv'
  <2>1. \A b \in Actors : b # w /\ Pending(b)' => Pending(b) /\ local'[b] = local[b]
    BY <1>4 DEF Claims, Alone, Pending
  <2>2. platform'[post.attempts + 1] = "none"
    <3>1. post.attempts \in Nat /\ post.attempts + 1 \in Uploads
      BY <1>1, <1>4, Constants DEF Claims, Typed, Rows, Uploads
    <3>2. post.status # "deleted" /\ platform' = platform
      BY <1>4 DEF Claims
    <3>3. ~(post.attempts + 1 <= post.attempts)
      BY <3>1
    <3> QED  BY <3>1, <3>2, <3>3 DEF ClaimInv
  <2>3. platform' = platform /\ local'[w].att = post.attempts + 1
    BY <1>4 DEF Claims
  <2> QED  BY <2>1, <2>2, <2>3
<1>5. ASSUME NEW a \in Actors, Works(a)
      PROVE  PlatformInv'
  <2>1. \A b \in Actors : Pending(b)' => Pending(b) /\ local'[b].att = local[b].att
    BY <1>5 DEF Works, Alone, Gone, Pending
  <2>2. CASE platform' = platform
    BY <2>1, <2>2
  <2>3. CASE Pending(a) /\ ~Pending(a)' /\ \E v \in {"pending", "live"} : platform' = [platform EXCEPT ![local[a].att] = v]
    <3>1. \A b \in Actors : Pending(b)' => local[b].att # local[a].att
      BY <1>1, <2>1, <2>3 DEF ClaimInv
    <3> QED  BY <1>1, <2>1, <2>3, <3>1 DEF Others
  <2> QED  BY <1>5, <2>2, <2>3 DEF Works
<1>6. ASSUME NEW u \in Uploads, Decides(u)
      PROVE  PlatformInv'
  BY <1>1, <1>6 DEF Decides, Pending, Others
<1> QED  BY <1>2, <1>3, <1>4, <1>5, <1>6, KindCases DEF Good

LEMMA PollKept ==
    ASSUME IInv, Kind
    PROVE  SyncInv' /\ SeenInv' /\ UndoInv'
<1> USE DEF IInv, SyncInv, SeenInv, UndoInv
<1>1. CASE Calm
  <2>1. SeenInv' /\ UndoInv'
    BY <1>1, CalmSteps DEF Same, Gone
  <2>2. ~async => post'.handle = NoHandle
    BY <1>1 DEF Calm, Bystands, Rewrites, Requeues, Retries, Opens, SameRow
  <2>3. SyncInv'
    BY <1>1, <2>2, CalmSteps DEF Same, Gone
  <2> QED  BY <2>1, <2>3
<1>2. CASE Deletes \/ Ages
  BY <1>2 DEF Deletes, Ages, SameCount
<1>3. ASSUME NEW w \in Workers, Claims(w)
      PROVE  SyncInv' /\ SeenInv' /\ UndoInv'
  BY <1>3 DEF Claims, Alone, SameCount
<1>4. ASSUME NEW a \in Actors, Works(a)
      PROVE  SyncInv' /\ SeenInv' /\ UndoInv'
  BY <1>4 DEF Works, Alone, Gone, SameCount, SameRow
<1>5. ASSUME NEW u \in Uploads, Decides(u)
      PROVE  SyncInv' /\ SeenInv' /\ UndoInv'
  BY <1>5 DEF Decides, SameCount, SameRow
<1> QED  BY <1>1, <1>2, <1>3, <1>4, <1>5, KindCases

LEMMA WorkKept ==
    ASSUME IInv, Kind
    PROVE  WorkInv'
<1> USE DEF IInv, WorkInv
<1>1. SUFFICES ASSUME ~async', ~faulty', NEW b \in Actors, Claiming(b)'
               PROVE  local'[b].att = post'.attempts /\ post'.status = "publishing" /\ ~post'.old
  OBVIOUS
<1>2. \A a \in Actors : Claiming(a) => Holding(a)
  BY DEF Claiming, Holding
<1>3. ~async /\ ~faulty
  BY <1>1, KindCases, CalmSteps DEF Deletes, Ages, Claims, Works, Decides, SameCount
<1>4. CASE Calm
  <2>1. Same(b) /\ Claiming(b) /\ ~Gone(b)
    BY <1>1, <1>4, CalmSteps DEF Same, Gone, Claiming
  <2>2. local[b].att = post.attempts /\ post.status = "publishing" /\ ~post.old
    BY <1>3, <2>1
  <2>3. post'.status = post.status
    <3>1. CASE Bystands
      BY <3>1 DEF Bystands, SameRow
    <3>2. CASE Rewrites
      <4>1. ~IsOpen
        BY <2>2 DEF IsOpen
      <4>2. ASSUME NEW a \in Actors, local[a].pc \in {"fail", "record", "look", "tell", "undo"}, Gone(a)
            PROVE  FALSE
        <5>1. Claiming(a)
          BY <1>3, <4>2 DEF Claiming, SyncInv, UndoInv
        <5>2. local[a].att = local[b].att
          BY <1>3, <2>2, <5>1
        <5>3. a = b
          BY <1>2, <2>1, <5>1, <5>2 DEF ClaimInv
        <5> QED  BY <2>1, <4>2, <5>3
      <4> QED  BY <2>2, <3>2, <4>1, <4>2 DEF Rewrites
    <3>3. ASSUME Requeues
          PROVE  FALSE
      BY <2>2, <3>3 DEF Requeues, Retryable
    <3>4. ASSUME NEW w \in Workers, Retries(w)
          PROVE  FALSE
      <4>1. Claiming(w) /\ Gone(w)
        BY <3>4 DEF Retries, Claiming
      <4>2. local[w].att = local[b].att
        BY <1>3, <2>2, <4>1
      <4>3. w = b
        BY <1>2, <2>1, <4>1, <4>2 DEF ClaimInv
      <4> QED  BY <2>1, <4>1, <4>3
    <3> QED  BY <1>4, <3>1, <3>2, <3>3, <3>4 DEF Calm
  <2> QED  BY <1>4, <2>1, <2>2, <2>3, CalmSteps DEF Same
<1>5. CASE Deletes
  BY <1>1, <1>3, <1>5 DEF Deletes, Claiming
<1>6. CASE Ages
  <2>1. Claiming(b) /\ local' = local /\ \A w \in Workers : ~Working(w)
    BY <1>1, <1>6 DEF Ages, Claiming
  <2>2. b \in Workers /\ local[b].att = post.attempts
    BY <1>2, <1>3, <2>1 DEF ClaimInv
  <2> QED  BY <2>1, <2>2 DEF Working, Claiming
<1>7. ASSUME NEW w \in Workers, Claims(w)
      PROVE  local'[b].att = post'.attempts /\ post'.status = "publishing" /\ ~post'.old
  <2>1. CASE b = w
    BY <1>7, <2>1 DEF Claims
  <2>2. ASSUME b # w
        PROVE  FALSE
    BY <1>1, <1>3, <1>7, <2>2 DEF Claims, Alone, Claiming
  <2> QED  BY <2>1, <2>2
<1>8. ASSUME NEW a \in Actors, Works(a)
      PROVE  local'[b].att = post'.attempts /\ post'.status = "publishing" /\ ~post'.old
  <2>1. Claiming(b) /\ local'[b].att = local[b].att
    BY <1>1, <1>8 DEF Works, Alone, Gone, Claiming
  <2> QED  BY <1>3, <1>8, <2>1 DEF Works, SameRow
<1>9. ASSUME NEW u \in Uploads, Decides(u)
      PROVE  local'[b].att = post'.attempts /\ post'.status = "publishing" /\ ~post'.old
  BY <1>1, <1>3, <1>9 DEF Decides, SameRow, Claiming
<1> QED  BY <1>4, <1>5, <1>6, <1>7, <1>8, <1>9, KindCases

LEMMA OpenDoes ==
    /\ Open \in {0, 1} /\ Open' \in {0, 1}
    /\ ((IsOpen)' => IsOpen) => Open' <= Open
    /\ IsOpen => Open = 1
    /\ ~(IsOpen)' => Open' = 0
  BY DEF Open

\* Steps that open nothing and claim nothing.
Quiet ==
    \/ Bystands \/ Rewrites \/ Deletes \/ Ages
    \/ (\E a \in Actors : Works(a)) \/ (\E u \in Uploads : Decides(u))

LEMMA QuietCases ==
    /\ Kind => Quiet \/ Requeues \/ \E w \in Workers : Retries(w) \/ Claims(w)
    /\ Quiet => Open' <= Open /\ retries' = retries
<1>1. Quiet => ((IsOpen)' => IsOpen) /\ retries' = retries
  BY DEF Quiet, Bystands, Rewrites, Deletes, Ages, Works, Decides, SameRow, SameCount, IsOpen
<1> QED  BY <1>1, OpenDoes DEF Kind, Quiet

\* Only a claim adds a number to those that may have a copy.
LEMMA SpentKept ==
    ASSUME IInv, Quiet \/ Requeues \/ \E w \in Workers : Retries(w)
    PROVE  Spent' \subseteq Spent
<1>1. Typed /\ Others
  BY TypedRows DEF IInv
<1>2. CASE Calm \/ Deletes \/ Ages
  <2>1. \A a \in Actors : Pending(a)' => Pending(a) /\ local'[a].att = local[a].att
    BY <1>2, CalmSteps DEF Deletes, Ages, Same, Gone, Pending
  <2>2. platform' = platform
    BY <1>2, CalmSteps DEF Deletes, Ages
  <2> QED  BY <2>1, <2>2 DEF Spent
<1>3. ASSUME NEW a \in Actors, Works(a)
      PROVE  Spent' \subseteq Spent
  <2>1. \A b \in Actors : Pending(b)' => Pending(b) /\ local'[b].att = local[b].att
    BY <1>3 DEF Works, Alone, Gone, Pending
  <2>2. \A u \in Uploads : platform'[u] \in {"pending", "live"} =>
            platform[u] \in {"pending", "live"} \/ (Pending(a) /\ local[a].att = u)
    <3>1. CASE platform' = platform
      BY <3>1
    <3>2. CASE Pending(a) /\ \E v \in {"pending", "live"} : platform' = [platform EXCEPT ![local[a].att] = v]
      BY <1>1, <3>2 DEF Others
    <3> QED  BY <1>3, <3>1, <3>2 DEF Works
  <2> QED  BY <2>1, <2>2 DEF Spent
<1>4. ASSUME NEW u \in Uploads, Decides(u)
      PROVE  Spent' \subseteq Spent
  <2>1. \A v \in Uploads : platform'[v] \in {"pending", "live"} => platform[v] \in {"pending", "live"}
    BY <1>1, <1>4 DEF Decides, Others
  <2>2. \A b \in Actors : Pending(b)' => Pending(b) /\ local'[b].att = local[b].att
    BY <1>4 DEF Decides, Pending
  <2> QED  BY <2>1, <2>2 DEF Spent
<1> QED  BY <1>2, <1>3, <1>4 DEF Quiet, Calm

LEMMA CopyKept ==
    ASSUME IInv, Good
    PROVE  CopyInv'
<1>1. Typed /\ Others /\ retries \in Nat /\ retries' \in Nat
  BY TypedRows, Constants DEF IInv, Good, Others
<1>2. /\ Spent \in SUBSET Uploads /\ Spent' \in SUBSET Uploads /\ IsFiniteSet(Spent)
      /\ Cardinality(Spent) \in Nat /\ Cardinality(Spent') \in Nat
  <2>1. Spent \in SUBSET Uploads /\ Spent' \in SUBSET Uploads
    BY DEF Spent
  <2> QED  BY <2>1, Counts
<1>3. Cardinality(Spent) + Open <= 1 + retries
  BY DEF IInv, CopyInv
<1>4. SUFFICES Cardinality(Spent') + Open' <= 1 + retries'
  BY DEF CopyInv
<1>5. CASE Quiet
  <2>1. Cardinality(Spent') <= Cardinality(Spent)
    BY <1>2, <1>5, SpentKept, Counts
  <2> QED  BY <1>1, <1>2, <1>3, <1>5, <2>1, OpenDoes, QuietCases
<1>6. CASE Requeues
  <2>1. Cardinality(Spent') <= Cardinality(Spent)
    BY <1>2, <1>6, SpentKept, Counts
  <2>2. retries' = retries + 1
    BY <1>6 DEF Requeues
  <2>3. Open = 0
    BY <1>6 DEF Requeues, Open, IsOpen, Retryable
  <2> QED  BY <1>1, <1>2, <1>3, <2>1, <2>2, <2>3, OpenDoes
<1>7. ASSUME NEW w \in Workers, Retries(w)
      PROVE  Cardinality(Spent') + Open' <= 1 + retries'
  <2> DEFINE n == local[w].att
  <2>1. Pending(w) /\ n \in Uploads /\ platform[n] = "none" /\ platform' = platform /\ retries' = retries
    BY <1>7 DEF Retries, Opens, Pending, Holding, IInv, ClaimInv, PlatformInv
  <2>2. n \in Spent
    BY <2>1 DEF Spent
  <2>3. \A a \in Actors : Pending(a)' => local'[a].att # n
    <3>1. \A a \in Actors : Pending(a)' => Pending(a) /\ local'[a].att = local[a].att /\ a # w
      BY <1>7 DEF Retries, Opens, Aside, Same, Gone, Pending
    <3> QED  BY <2>1, <3>1 DEF IInv, ClaimInv, Pending, Holding
  <2>4. n \notin Spent'
    BY <2>1, <2>3 DEF Spent
  <2>5. Spent' \subseteq Spent \ {n}
    BY <1>7, <2>4, SpentKept
  <2>6. Cardinality(Spent') <= Cardinality(Spent \ {n}) /\ Cardinality(Spent \ {n}) = Cardinality(Spent) - 1
    <3>1. Spent \ {n} \in SUBSET Uploads
      BY <1>2
    <3> QED  BY <1>2, <2>2, <2>5, <3>1, Counts, CountOne
  <2> QED  BY <1>1, <1>2, <1>3, <2>1, <2>6, OpenDoes
<1>8. ASSUME NEW w \in Workers, Claims(w)
      PROVE  Cardinality(Spent') + Open' <= 1 + retries'
  <2> DEFINE n == post.attempts + 1
  <2>1. retries' = retries /\ Open = 1 /\ Open' = 0
    BY <1>8 DEF Claims, SameCount, Open, IsOpen
  <2>2. Spent' \subseteq Spent \cup {n}
    <3>1. \A a \in Actors : Pending(a)' => local'[a].att = n \/ (Pending(a) /\ local'[a].att = local[a].att)
      BY <1>8 DEF Claims, Alone, Pending
    <3>2. platform' = platform
      BY <1>8 DEF Claims
    <3> QED  BY <3>1, <3>2 DEF Spent
  <2>3. n \in Uploads
    BY <1>1, <1>8, Constants DEF Claims, Typed, Rows, Uploads
  <2> HIDE DEF n
  <2>4. Cardinality(Spent') <= Cardinality(Spent \cup {n})
    <3>1. Spent \cup {n} \in SUBSET Uploads
      BY <1>2, <2>3
    <3> QED  BY <2>2, <3>1, Counts
  <2>5. Cardinality(Spent \cup {n}) \in {Cardinality(Spent), Cardinality(Spent) + 1}
    BY <1>2, CountOne
  <2> QED  BY <1>1, <1>2, <1>3, <2>1, <2>4, <2>5
<1> QED  BY <1>5, <1>6, <1>7, <1>8, QuietCases DEF Good

\* Nor do the tries grow that a claim may still be followed by.
LEMMA TryKept ==
    ASSUME IInv, Good
    PROVE  TryInv'
<1>1. Typed /\ Others /\ Typed' /\ Others' /\ retries \in Nat /\ retries' \in Nat
  BY TypedRows, TypedAfter, TypeKept, Constants DEF IInv, Good, Others
<1>2. post.attempts \in Nat /\ post'.attempts \in Nat
  BY <1>1, Constants DEF Typed, Rows
<1>3. /\ Left \in SUBSET Tries /\ Left' \in SUBSET Tries /\ IsFiniteSet(Left)
      /\ Cardinality(Left) \in Nat /\ Cardinality(Left') \in Nat /\ Cardinality(Left') <= MaxAttempts - 1
  <2>1. Left \in SUBSET Tries /\ Left' \in SUBSET Tries
    BY DEF Left
  <2> QED  BY <2>1, Counts
<1>4. post.attempts + Open + Cardinality(Left) <= MaxAttempts + retries
  BY DEF IInv, TryInv
<1>5. SUFFICES post'.attempts + Open' + Cardinality(Left') <= MaxAttempts + retries'
  BY DEF TryInv
<1>6. CASE Deletes
  <2>1. post'.attempts = 0 /\ Open' = 0
    BY <1>6 DEF Deletes, Open, IsOpen
  <2> QED  BY <1>1, <1>3, <2>1, Constants
<1>7. CASE Calm \/ Ages \/ (\E a \in Actors : Works(a)) \/ (\E u \in Uploads : Decides(u))
  <2>1. post'.attempts = post.attempts
    BY <1>7, CalmSteps DEF Ages, Works, Decides, SameRow
  <2>2. \A a \in Actors : Trying(a)' => Trying(a) /\ local'[a].att = local[a].att
    BY <1>7, CalmSteps DEF Ages, Works, Decides, Same, Gone, Alone, Trying
  <2>3. Left' \subseteq Left
    BY <2>1, <2>2 DEF Left
  <2>4. Cardinality(Left') <= Cardinality(Left)
    BY <1>3, <2>3, Counts
  <2>5. CASE Quiet
    BY <1>1, <1>2, <1>3, <1>4, <2>1, <2>4, <2>5, OpenDoes, QuietCases, Constants
  <2>6. CASE Requeues
    <3>1. retries' = retries + 1 /\ Open = 0
      BY <2>6 DEF Requeues, Open, IsOpen, Retryable
    <3> QED  BY <1>1, <1>2, <1>3, <1>4, <2>1, <2>4, <3>1, OpenDoes, Constants
  <2>7. ASSUME NEW w \in Workers, Retries(w)
        PROVE  post'.attempts + Open' + Cardinality(Left') <= MaxAttempts + retries'
    <3> DEFINE n == local[w].att
    <3>1. Trying(w) /\ Holding(w) /\ n \in Uploads /\ n < MaxAttempts /\ retries' = retries
          /\ post.status # "deleted" /\ n <= post.attempts
      BY <2>7 DEF Retries, Opens, Trying, Holding, IInv, ClaimInv
    <3>2. n \in Tries
      BY <3>1, Constants DEF Uploads, Tries
    <3>3. n \in Left
      BY <3>1, <3>2 DEF Left
    <3>4. \A a \in Actors : Trying(a)' => local'[a].att # n
      <4>1. \A a \in Actors : Trying(a)' => Trying(a) /\ local'[a].att = local[a].att /\ a # w
        BY <2>7 DEF Retries, Opens, Aside, Same, Gone, Trying
      <4> QED  BY <3>1, <4>1 DEF IInv, ClaimInv, Trying, Holding
    <3>5. n \notin Left'
      <4>1. ~(n > post'.attempts)
        BY <1>2, <2>1, <3>1, <3>2, Constants DEF Tries
      <4> QED  BY <3>4, <4>1 DEF Left
    <3>6. Left' \subseteq Left \ {n}
      BY <2>3, <3>5
    <3>7. Cardinality(Left') <= Cardinality(Left \ {n}) /\ Cardinality(Left \ {n}) = Cardinality(Left) - 1
      <4>1. Left \ {n} \in SUBSET Tries
        BY <1>3
      <4> QED  BY <1>3, <3>3, <3>6, <4>1, Counts, CountOne
    <3> QED  BY <1>1, <1>2, <1>3, <1>4, <2>1, <3>1, <3>7, OpenDoes, Constants
  <2> QED  BY <1>7, <2>5, <2>6, <2>7 DEF Quiet, Calm
<1>8. ASSUME NEW w \in Workers, Claims(w)
      PROVE  post'.attempts + Open' + Cardinality(Left') <= MaxAttempts + retries'
  <2>1. post'.attempts = post.attempts + 1 /\ retries' = retries /\ Open = 1 /\ Open' = 0
    BY <1>8 DEF Claims, SameCount, Open, IsOpen
  <2>2. \A a \in Actors : Trying(a)' => local'[a].att = post.attempts + 1 \/ (Trying(a) /\ local'[a].att = local[a].att)
    BY <1>8 DEF Claims, Alone, Trying
  <2>3. Left' \subseteq Left
    <3>1. \A n \in Tries : n > post.attempts + 1 => n > post.attempts
      BY <1>2, Constants DEF Tries
    <3>2. post.attempts + 1 > post.attempts
      BY <1>2
    <3> QED  BY <2>1, <2>2, <3>1, <3>2 DEF Left
  <2>4. Cardinality(Left') <= Cardinality(Left)
    BY <1>3, <2>3, Counts
  <2> QED  BY <1>1, <1>2, <1>3, <1>4, <2>1, <2>4, Constants
<1> QED  BY <1>6, <1>7, <1>8, KindCases DEF Good

-----------------------------------------------------------------------------
(* The inductive invariant.                                                 *)

LEMMA InitIInv == Init => IInv
<1> SUFFICES ASSUME Init PROVE IInv
  OBVIOUS
<1>1. post = NoPost /\ platform = [u \in Uploads |-> "none"] /\ retries = 0 /\ faulty = FALSE
      /\ \A a \in Actors : local[a] = Idle
  BY DEF Init
<1>2. post.status = "new" /\ post.handle = NoHandle /\ post.attempts = 0
  BY <1>1 DEF NoPost
<1>3. \A a \in Actors : local[a].pc = "idle"
  BY <1>1 DEF Idle
<1>4. TypeOK
  <2>1. post \in Rows
    <3>1. 0 \in 0..2 /\ 0 \in 0..MaxClaims
      BY Constants
    <3> QED  BY <1>1, <3>1 DEF NoPost, Rows, Statuses
  <2>2. local \in [Actors -> Locals]
    BY IdleTyped DEF Init
  <2>3. jobs \in Jobs
    <3>1. 0 \in 0..MaxTries
      BY Constants
    <3> QED  BY <3>1 DEF Init, Jobs
  <2>4. Others
    <3>1. 0 \in 0..MaxRetries /\ 0 \in 0..MaxCrashes
      BY Constants
    <3> QED  BY <2>3, <3>1 DEF Init, Others
  <2> QED  BY <2>1, <2>2, <2>4, TypedRows DEF Typed
<1>5. NewInv /\ ClaimInv /\ PlatformInv /\ SyncInv /\ SeenInv /\ UndoInv /\ WorkInv
  BY <1>1, <1>2, <1>3 DEF NewInv, ClaimInv, PlatformInv, SyncInv, SeenInv, UndoInv, WorkInv,
                          Holding, Pending, Claiming
<1>6. CopyInv
  <2>1. Spent = {}
    BY <1>1, <1>3 DEF Spent, Pending
  <2>2. Cardinality(Spent) = 0
    BY <2>1, FS_EmptySet
  <2> QED  BY <1>1, <2>2, OpenDoes DEF CopyInv
<1>7. TryInv
  <2>1. Left \in SUBSET Tries
    BY DEF Left
  <2>2. Cardinality(Left) \in Nat /\ Cardinality(Left) <= MaxAttempts - 1
    BY <2>1, Counts
  <2> QED  BY <1>1, <1>2, <2>2, OpenDoes, Constants DEF TryInv
<1> QED  BY <1>4, <1>5, <1>6, <1>7 DEF IInv

LEMMA NextIInv == IInv /\ [Next]_vars => IInv'
<1> SUFFICES ASSUME IInv, [Next]_vars PROVE IInv'
  OBVIOUS
<1>1. Good /\ Kind
  BY Steps DEF Good
<1> QED  BY <1>1, TypeKept, NewKept, ClaimKept, PlatformKept, CopyKept, TryKept, PollKept, WorkKept DEF IInv

THEOREM Inductive == Spec => []IInv
<1> QED  BY InitIInv, NextIInv, PTL DEF Spec

\* The row, ARQ's records and the coroutines' variables keep to their domains: the
\* attempts stay within one claim for each retry there may be.
THEOREM TypeCorrect == Spec => []TypeOK
<1>1. IInv => TypeOK
  BY DEF IInv
<1> QED  BY <1>1, Inductive, PTL

\* The platform holds no more copies of the clip than the user asked for, whatever
\* is redelivered, timed out, swept, or retried automatically.
THEOREM CopiesCorrect == Spec => []AutomaticNeverDuplicates
<1>1. IInv => AutomaticNeverDuplicates
  <2> SUFFICES ASSUME IInv PROVE Cardinality(Copies) <= 1 + retries
    BY DEF AutomaticNeverDuplicates
  <2>1. Spent \in SUBSET Uploads /\ Copies \in SUBSET Spent
    BY DEF Spent, Copies
  <2>2. Copies \in SUBSET Uploads
    BY <2>1
  <2>3. /\ Cardinality(Copies) <= Cardinality(Spent)
        /\ Cardinality(Copies) \in Nat /\ Cardinality(Spent) \in Nat
    BY <2>1, <2>2, Counts
  <2>4. retries \in Nat
    BY Constants DEF IInv, TypeOK
  <2> QED  BY <2>3, <2>4, OpenDoes DEF IInv, CopyInv
<1> QED  BY <1>1, Inductive, PTL

\* On a platform that answers at once, and unless an enqueue has raised, no two
\* publish jobs upload the clip at the same time.
THEOREM OneUploaderCorrect == Spec => []OneUploader
<1>1. IInv => OneUploader
  <2> DEFINE S == {w \in Workers : At(w, "upload")}
  <2> SUFFICES ASSUME IInv, ~faulty, ~async PROVE Cardinality(S) <= 1
    BY DEF OneUploader
  <2>1. \A v, w \in S : v = w
    <3>1. \A w \in S : w \in Actors /\ Holding(w) /\ Claiming(w)
      BY DEF At, Holding, Claiming
    <3> QED  BY <3>1 DEF IInv, WorkInv, ClaimInv
  <2>2. CASE S = {}
    BY <2>2, FS_EmptySet
  <2>3. CASE S # {}
    <3>1. PICK w : w \in S
      BY <2>3
    <3>2. S = {w}
      BY <2>1, <3>1
    <3> HIDE DEF S
    <3> QED  BY <3>2, FS_Singleton
  <2> QED  BY <2>2, <2>3
<1> QED  BY <1>1, Inductive, PTL

\* There a published post stays published until it is deleted, and a cancelled one
\* cancelled until the user retries or deletes it.
THEOREM OutcomesCorrect == Spec => OutcomesStand
<1> DEFINE Final == post.status = "published" /\ ~async /\ ~faulty =>
                        post'.status \in {"published", "deleted"}
           Sticks == post.status = "cancelled" /\ ~async /\ ~faulty =>
                        post'.status \in {"cancelled", "deleted"} \/ retries' = retries + 1
<1>1. IInv /\ [Next]_vars => Final /\ Sticks
  <2> SUFFICES ASSUME IInv, [Next]_vars, post.status \in {"published", "cancelled"}, ~async, ~faulty
               PROVE  \/ post'.status \in {post.status, "deleted"}
                      \/ post.status = "cancelled" /\ retries' = retries + 1
    OBVIOUS
  <2>1. Kind
    BY Steps DEF Good
  <2>2. \A a \in Actors : ~Claiming(a) /\ local[a].pc \notin {"look", "ask", "tell", "undo"}
    BY DEF IInv, WorkInv, SyncInv, UndoInv
  <2>3. ~Rewrites /\ \A w \in Workers : ~Retries(w) /\ ~Claims(w)
    BY <2>2 DEF Rewrites, Retries, Claims, IsOpen, Claiming
  <2>4. CASE Requeues
    BY <2>4 DEF Requeues, Retryable
  <2>5. CASE Bystands \/ Deletes \/ Ages \/ (\E a \in Actors : Works(a)) \/ (\E u \in Uploads : Decides(u))
    BY <2>5 DEF Bystands, Deletes, Ages, Works, Decides, SameRow
  <2> QED  BY <2>1, <2>3, <2>4, <2>5 DEF Kind
<1>2. Spec => [][Final /\ Sticks]_vars
  BY <1>1, Inductive, PTL DEF Spec
<1>3. [][Final /\ Sticks]_vars => [][Final]_vars /\ [][Sticks]_vars
  BY PTL
<1> QED  BY <1>2, <1>3, PTL DEF OutcomesStand, PublishedIsFinal, CancelSticks
=============================================================================
