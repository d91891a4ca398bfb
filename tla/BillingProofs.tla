------------------------ MODULE BillingProofs ------------------------
(***************************************************************************)
(* Proofs about MinuteAllowance, for every calendar, plan and set of tasks *)
(* and handlers.  A charge is fresh if it is active and lies in the window *)
(* that was checked for it.  The argument: no fresh charge is younger than *)
(* the end of the period, the start of the window (cut at that end) never  *)
(* moves back, and the handler that has compared keeps the lock until it   *)
(* charges, so that what it counted is an upper bound of what there is.    *)
(***************************************************************************)
EXTENDS MCBilling, Sequences, FiniteSetTheorems, TLAPS

Fresh == {t \in Tasks : charge[t].state = "active" /\ t \notin late}
FreshSince(first) == {t \in Fresh : first <= charge[t].at}
Base == IF WindowStart(plan, now) <= plan.end THEN WindowStart(plan, now) ELSE plan.end

\* Whoever is past taking the lock holds it.
LockInv == \A h \in Handlers : local[h].pc \notin {"idle", "lock"} => lock = h
\* Nothing lies in the future.
ClockInv ==
    /\ plan.start <= now
    /\ \A t \in Tasks : charge[t].at <= now
    /\ \A h \in Handlers : local[h].since <= now
OnTime == \A t \in Fresh : charge[t].at <= plan.end
\* What a handler knows between reading the plan and charging.
LastInv == \A h \in Handlers, t \in Fresh : local[h].pc = "count" => charge[t].at <= local[h].last
FirstInv ==
    \A h \in Handlers :
        local[h].pc \in {"count", "lookup", "charge"} /\ local[h].first <= local[h].last =>
            local[h].first <= Base
RoomInv ==
    \A h \in Handlers :
        local[h].pc \in {"lookup", "charge"} =>
            Minutes(FreshSince(local[h].first)) + Cost[local[h].task] <= Limit
BaseInv == Minutes(FreshSince(Base)) <= Limit
\* A handler has a task; only a submission's is new, and it has no twin.
TaskInv ==
    \A h \in Handlers :
        /\ local[h].pc # "idle" => local[h].task \in Tasks
        /\ local[h].pc # "idle" /\ local[h].kind # "create" => status[local[h].task] # "none"
        /\ local[h].pc \in {"begin", "requeue"} => local[h].kind # "create"
TwinInv ==
    \A h \in Handlers :
        local[h].pc = "charge" /\ local[h].kind = "create" => SameUpload(local[h].task, Active) = {}

-----------------------------------------------------------------------------
(* The calendar and the window.                                             *)

\* The current month exists and is the one CHOOSE finds.
LEMMA MonthIsCurrent ==
    ASSUME NEW p, p.start \in Times, NEW n \in Times, p.start <= n
    PROVE  /\ Month(p, n) \in 0..n
           /\ AddMonths(p.start, Month(p, n)) <= n
           /\ n < AddMonths(p.start, Month(p, n) + 1)
<1>1. \E k \in 0..n : AddMonths(p.start, k) <= n /\ n < AddMonths(p.start, k + 1)
  BY CalendarAssumption
<1> QED  BY <1>1 DEF Month

\* The window starts within the period and ends with it, or later than now.
LEMMA WindowBounds ==
    ASSUME NEW p, p.start \in Times, p.end \in Nat, NEW n \in Times, p.start <= n
    PROVE  /\ WindowStart(p, n) \in Nat /\ p.start <= WindowStart(p, n) /\ WindowStart(p, n) <= n
           /\ WindowEnd(p, n) \in Nat /\ WindowEnd(p, n) <= p.end
           /\ n <= WindowEnd(p, n) \/ WindowEnd(p, n) = p.end
<1>0. MaxTime \in Nat /\ n \in Nat /\ n <= MaxTime /\ p.start \in Nat
  BY AllowanceAssumption DEF Times
<1> DEFINE m == Month(p, n)
<1>1. m \in 0..n /\ AddMonths(p.start, m) <= n /\ n < AddMonths(p.start, m + 1)
  BY MonthIsCurrent
<1>2. 0 \in Spans /\ m \in Spans /\ m + 1 \in Spans
  BY <1>1, <1>0 DEF Spans, Times
<1>3. AddMonths(p.start, m) \in Nat /\ AddMonths(p.start, m + 1) \in Nat
  BY <1>2, CalendarAssumption
<1>4. p.start <= AddMonths(p.start, m)
  <2>1. AddMonths(p.start, 0) = p.start
    BY CalendarAssumption
  <2>2. CASE m = 0
    BY <2>1, <2>2, <1>0
  <2>3. CASE 0 < m
    <3>1. AddMonths(p.start, 0) < AddMonths(p.start, m)
      BY <2>3, <1>2, CalendarAssumption
    <3> QED  BY <3>1, <2>1, <1>3, <1>0
  <2> QED  BY <2>2, <2>3, <1>1
<1>5. WindowStart(p, n) = IF Monthly(p) THEN p.start ELSE AddMonths(p.start, m)
  BY DEF WindowStart
<1>6. WindowEnd(p, n) = IF Monthly(p) \/ p.end < AddMonths(p.start, m + 1) THEN p.end
                        ELSE AddMonths(p.start, m + 1)
  BY DEF WindowEnd, NextMonth
<1> HIDE DEF m
<1>8. WindowStart(p, n) \in Nat /\ p.start <= WindowStart(p, n) /\ WindowStart(p, n) <= n
  BY <1>1, <1>3, <1>4, <1>5, <1>0
<1>9. /\ WindowEnd(p, n) \in Nat /\ WindowEnd(p, n) <= p.end
      /\ n <= WindowEnd(p, n) \/ WindowEnd(p, n) = p.end
  BY <1>1, <1>3, <1>6, <1>0
<1> QED  BY <1>8, <1>9

\* As time goes by, the window of a period does not move back.
LEMMA WindowAdvances ==
    ASSUME NEW p, p.start \in Times, NEW n \in Times, NEW u \in Times, p.start <= n, n <= u
    PROVE  WindowStart(p, n) <= WindowStart(p, u)
<1>0. /\ MaxTime \in Nat /\ n \in Nat /\ u \in Nat /\ n <= MaxTime /\ u <= MaxTime
      /\ p.start \in Nat /\ p.start <= u
  BY AllowanceAssumption DEF Times
<1> DEFINE j == Month(p, n)  k == Month(p, u)
<1>1. j \in 0..n /\ AddMonths(p.start, j) <= n
  BY MonthIsCurrent
<1>2. k \in 0..u /\ u < AddMonths(p.start, k + 1)
  BY MonthIsCurrent, <1>0
<1>3. j \in Spans /\ k \in Spans /\ k + 1 \in Spans
  BY <1>1, <1>2, <1>0 DEF Spans, Times
<1>4. /\ AddMonths(p.start, j) \in Nat /\ AddMonths(p.start, k) \in Nat
      /\ AddMonths(p.start, k + 1) \in Nat
  BY <1>3, CalendarAssumption
<1>5. WindowStart(p, n) = IF Monthly(p) THEN p.start ELSE AddMonths(p.start, j)
  BY DEF WindowStart
<1>6. WindowStart(p, u) = IF Monthly(p) THEN p.start ELSE AddMonths(p.start, k)
  BY DEF WindowStart
<1> HIDE DEF j, k
<1>7. AddMonths(p.start, j) <= AddMonths(p.start, k)
  <2>1. CASE k + 1 < j
    <3>1. AddMonths(p.start, k + 1) < AddMonths(p.start, j)
      BY <2>1, <1>3, CalendarAssumption
    <3> QED  BY <3>1, <1>1, <1>2, <1>4, <1>0
  <2>2. CASE k + 1 = j
    BY <2>2, <1>1, <1>2, <1>4, <1>0
  <2>3. CASE j = k
    BY <2>3, <1>4
  <2>4. CASE j < k
    <3>1. AddMonths(p.start, j) < AddMonths(p.start, k)
      BY <2>4, <1>3, CalendarAssumption
    <3> QED  BY <3>1, <1>4
  <2> QED  BY <2>1, <2>2, <2>3, <2>4, <1>1, <1>2
<1> QED  BY <1>4, <1>5, <1>6, <1>7, <1>0

\* A new period starts where it should and is not empty.
LEMMA NewPlanBounds ==
    ASSUME NEW s \in Times, NEW m \in Terms
    PROVE  /\ NewPlan(s, m).start = s /\ NewPlan(s, m).paid = TRUE
           /\ NewPlan(s, m).end \in Nat /\ s < NewPlan(s, m).end
           /\ NewPlan(s, m) \in [paid : BOOLEAN, start : Times, end : Nat]
<1>1. m \in Spans /\ 0 \in Spans /\ 0 < m
  BY AllowanceAssumption DEF Spans
<1>2. AddMonths(s, 0) < AddMonths(s, m) /\ AddMonths(s, 0) = s /\ AddMonths(s, m) \in Nat
  BY <1>1, CalendarAssumption
<1> QED  BY <1>2 DEF NewPlan

-----------------------------------------------------------------------------
(* Sums of minutes.                                                         *)

Tokens(Q) == {x \in Q \X (1..LongestVideo) : x[2] <= Cost[x[1]]}

LEMMA TokensFinite ==
    ASSUME NEW Q \in SUBSET Tasks
    PROVE  IsFiniteSet(Tokens(Q)) /\ Minutes(Q) = Cardinality(Tokens(Q)) /\ Minutes(Q) \in Nat
<1>1. IsFiniteSet(Q)
  BY FS_Subset, AllowanceAssumption
<1>2. IsFiniteSet(1..LongestVideo)
  BY FS_Interval, AllowanceAssumption
<1>3. IsFiniteSet(Q \X (1..LongestVideo))
  BY <1>1, <1>2, FS_Product
<1>4. IsFiniteSet(Tokens(Q))
  BY <1>3, FS_Subset DEF Tokens
<1> QED  BY <1>4, FS_CardinalityType DEF Minutes, Tokens

\* Fewer tasks, fewer minutes.
LEMMA MinutesMonotone ==
    ASSUME NEW T \in SUBSET Tasks, NEW Q \in SUBSET T
    PROVE  Minutes(Q) <= Minutes(T)
<1>1. Tokens(Q) \subseteq Tokens(T)
  BY DEF Tokens
<1>2. Q \in SUBSET Tasks
  OBVIOUS
<1> QED  BY <1>1, <1>2, TokensFinite, FS_Subset

\* One more task adds at most its minutes.
LEMMA MinutesAdd ==
    ASSUME NEW Q \in SUBSET Tasks, NEW t \in Tasks
    PROVE  Minutes(Q \cup {t}) <= Minutes(Q) + Cost[t]
<1>1. Tokens(Q \cup {t}) = Tokens(Q) \cup Tokens({t})
  BY DEF Tokens
<1>2. Cost[t] \in 1..LongestVideo /\ LongestVideo \in Nat
  BY AllowanceAssumption
<1>3. Tokens({t}) = {t} \X (1..Cost[t])
  BY <1>2 DEF Tokens
<1>4. /\ IsFiniteSet({t}) /\ Cardinality({t}) = 1
      /\ IsFiniteSet(1..Cost[t]) /\ Cardinality(1..Cost[t]) = Cost[t]
  <2>1. IsFiniteSet({t}) /\ Cardinality({t}) = 1
    BY FS_Singleton
  <2>2. 1 \in Int /\ Cost[t] \in Int /\ ~(1 > Cost[t]) /\ Cost[t] - 1 + 1 = Cost[t]
    BY <1>2
  <2>3. IsFiniteSet(1..Cost[t]) /\ Cardinality(1..Cost[t]) = Cost[t]
    BY <2>2, FS_Interval
  <2> QED  BY <2>1, <2>3
<1>5. IsFiniteSet(Tokens({t})) /\ Cardinality(Tokens({t})) = 1 * Cost[t]
  BY <1>3, <1>4, FS_Product
<1>6. /\ IsFiniteSet(Tokens(Q)) /\ Minutes(Q) = Cardinality(Tokens(Q)) /\ Minutes(Q) \in Nat
      /\ Minutes(Q \cup {t}) = Cardinality(Tokens(Q \cup {t}))
  BY TokensFinite
<1>7. /\ IsFiniteSet(Tokens(Q) \cap Tokens({t}))
      /\ Cardinality(Tokens(Q) \cap Tokens({t})) \in Nat
  BY <1>6, FS_Intersection, FS_CardinalityType
<1>8. Cardinality(Tokens(Q) \cup Tokens({t})) =
        Cardinality(Tokens(Q)) + Cardinality(Tokens({t})) - Cardinality(Tokens(Q) \cap Tokens({t}))
  BY <1>5, <1>6, FS_Union
<1>9. Cost[t] \in Nat
  BY <1>2
<1> DEFINE c == Cardinality(Tokens(Q) \cap Tokens({t}))
<1>10. Minutes(Q \cup {t}) = Minutes(Q) + Cost[t] - c
  <2>1. Cardinality(Tokens({t})) = Cost[t]
    BY <1>5, <1>9
  <2>2. Minutes(Q \cup {t}) = Cardinality(Tokens(Q) \cup Tokens({t}))
    BY <1>1, <1>6
  <2> QED  BY <2>1, <2>2, <1>6, <1>8
<1>11. c \in Nat
  BY <1>7
<1> HIDE DEF c
<1> QED  BY <1>6, <1>9, <1>10, <1>11
-----------------------------------------------------------------------------
(* Types, the lock, the clock and the tasks of the handlers.                *)

Basic == TypeOK /\ LockInv /\ ClockInv /\ TaskInv

\* Points of a handler that holds the lock.
Inside == {"begin", "look", "count", "lookup", "charge", "key", "requeue", "enqueue"}

LEMMA TimesFacts == MaxTime \in Nat /\ 0 \in Times /\ Times \subseteq Nat
  BY AllowanceAssumption DEF Times

LEMMA IdleTyped == Idle \in Locals
  BY TimesFacts DEF Idle, Locals

LEMMA BasicInit == Init => Basic
<1> SUFFICES ASSUME Init PROVE Basic
  OBVIOUS
<1>1. now \in Times /\ now = 0
  BY TimesFacts DEF Init
<1>2. plan \in [paid : BOOLEAN, start : Times, end : Nat] /\ plan.start = 0
  <2>1. PICK m \in Terms : plan = NewPlan(0, m)
    BY DEF Init
  <2> QED  BY <2>1, TimesFacts, NewPlanBounds
<1>3. TypeOK
  BY <1>1, <1>2, TimesFacts, IdleTyped, AllowanceAssumption DEF Init, TypeOK, Statuses, Active
<1>4. LockInv /\ TaskInv
  BY DEF Init, LockInv, TaskInv, Idle
<1>5. ClockInv
  BY <1>1, <1>2 DEF Init, ClockInv, Idle
<1> QED  BY <1>3, <1>4, <1>5 DEF Basic

\* What a step of h does to the local variables and to the lock: it starts,
\* goes on with the lock, or returns.
Starts(h) ==
    /\ local'[h].pc = "lock" /\ local'[h].task \in Tasks /\ lock' = lock /\ local[h].pc = "idle"
    /\ local'[h].kind # "create" => status[local'[h].task] # "none"
GoesOn(h) ==
    /\ local[h].pc # "idle" /\ local'[h].pc \in Inside /\ lock' = h /\ lock \in {h, NoHandler}
    /\ local'[h].task = local[h].task /\ local'[h].kind = local[h].kind
    /\ local'[h].pc \in {"begin", "requeue"} => local[h].kind # "create"
Returns(h) == local'[h] = Idle /\ lock' = IF lock = h THEN NoHandler ELSE lock
Moves(h) ==
    /\ local' \in [Handlers -> Locals]
    /\ \A g \in Handlers : g # h => local'[g] = local[g]
    /\ local'[h].since \in {0, now, local[h].since}
    /\ Starts(h) \/ GoesOn(h) \/ Returns(h)

LEMMA LeaveMoves == ASSUME Basic, NEW h \in Handlers, Leave(h) PROVE Moves(h)
<1>1. local \in [Handlers -> Locals] /\ local' = [local EXCEPT ![h] = Idle]
  BY DEF Basic, TypeOK, Leave
<1>2. Idle.since = 0
  BY DEF Idle
<1> QED  BY <1>1, <1>2, IdleTyped DEF Moves, Returns, Leave

\* A handler goes on with the record r.
LEMMA RecordMoves ==
    ASSUME Basic, NEW h \in Handlers, NEW r \in Locals, local' = [local EXCEPT ![h] = r],
           local[h].pc # "idle", r.pc \in Inside, lock' = h, lock \in {h, NoHandler},
           r.task = local[h].task, r.kind = local[h].kind, r.since \in {0, now, local[h].since},
           r.pc \in {"begin", "requeue"} => local[h].kind # "create"
    PROVE  Moves(h)
<1>1. local \in [Handlers -> Locals]
  BY DEF Basic, TypeOK
<1> QED  BY <1>1 DEF Moves, GoesOn

LEMMA GotoMoves ==
    ASSUME Basic, NEW h \in Handlers, NEW pc \in Inside, local[h].pc # "idle",
           lock' = h, lock \in {h, NoHandler},
           pc \in {"begin", "requeue"} => local[h].kind # "create",
           Goto(h, pc) \/ GoOn(h, pc)
    PROVE  Moves(h)
<1>1. local \in [Handlers -> Locals] /\ local[h] \in Locals
  BY DEF Basic, TypeOK
<1>2. CASE Goto(h, pc)
  <2> DEFINE r == [local[h] EXCEPT !.pc = pc]
  <2>1. /\ r \in Locals /\ r.pc = pc /\ r.task = local[h].task
        /\ r.kind = local[h].kind /\ r.since = local[h].since
    BY <1>1 DEF Locals, Inside
  <2>2. local' = [local EXCEPT ![h] = r]
    BY <1>1, <1>2 DEF Goto
  <2> HIDE DEF r
  <2> QED  BY <2>1, <2>2, RecordMoves
<1>3. CASE GoOn(h, pc)
  <2> DEFINE r == [local[h] EXCEPT !.pc = pc, !.since = 0, !.first = 0, !.last = 0]
  <2>1. /\ r \in Locals /\ r.pc = pc /\ r.task = local[h].task
        /\ r.kind = local[h].kind /\ r.since = 0
    BY <1>1, TimesFacts DEF Locals, Inside
  <2>2. local' = [local EXCEPT ![h] = r]
    BY <1>1, <1>3 DEF GoOn
  <2> HIDE DEF r
  <2> QED  BY <2>1, <2>2, RecordMoves
<1> QED  BY <1>2, <1>3

LEMMA StartMoves ==
    ASSUME Basic, NEW h \in Handlers, NEW t \in Tasks, Submit(h, t) \/ Resume(h, t) \/ Work(h, t)
    PROVE  Moves(h)
<1>1. local \in [Handlers -> Locals]
  BY DEF Basic, TypeOK
<1>2. \E k \in {"create", "resume", "work"} :
        /\ local' = [local EXCEPT ![h] = [Idle EXCEPT !.pc = "lock", !.kind = k, !.task = t]]
        /\ k # "create" => status[t] # "none"
  <2>1. CASE Submit(h, t)
    BY <2>1 DEF Submit
  <2>2. CASE Resume(h, t)
    BY <2>2 DEF Resume
  <2>3. CASE Work(h, t)
    BY <2>3 DEF Work, Active
  <2> QED  BY <2>1, <2>2, <2>3
<1>3. PICK k \in {"create", "resume", "work"} :
        /\ local' = [local EXCEPT ![h] = [Idle EXCEPT !.pc = "lock", !.kind = k, !.task = t]]
        /\ k # "create" => status[t] # "none"
  BY <1>2
<1> DEFINE r == [Idle EXCEPT !.pc = "lock", !.kind = k, !.task = t]
<1>4. r \in Locals /\ r.pc = "lock" /\ r.kind = k /\ r.task = t /\ r.since = 0
  BY <1>3, TimesFacts DEF Locals, Idle
<1>5. local' = [local EXCEPT ![h] = r] /\ (k # "create" => status[t] # "none")
  BY <1>3
<1>6. local[h].pc = "idle" /\ lock' = lock
  BY DEF Submit, Resume, Work, At
<1> HIDE DEF r
<1> QED  BY <1>1, <1>4, <1>5, <1>6 DEF Moves, Starts

\* Such a step keeps what concerns the handlers, if tasks stay known.
LEMMA MovesKeep ==
    ASSUME Basic, NEW h \in Handlers, Moves(h), now' = now,
           \A t \in Tasks : status[t] # "none" => status'[t] # "none"
    PROVE  /\ local' \in [Handlers -> Locals] /\ lock' \in Handlers \cup {NoHandler}
           /\ \A g \in Handlers : lock' = g => local'[g].pc \notin {"idle", "lock"}
           /\ LockInv' /\ TaskInv'
           /\ \A g \in Handlers : local'[g].since <= now
<1> USE AllowanceAssumption
<1>0. TypeOK /\ LockInv /\ TaskInv /\ ClockInv
  BY DEF Basic
<1>1. local' \in [Handlers -> Locals] /\ lock' \in Handlers \cup {NoHandler}
  BY <1>0 DEF TypeOK, Moves, Starts, GoesOn, Returns
<1>2. Idle.pc = "idle"
  BY DEF Idle
<1>3. \A g \in Handlers : lock' = g => local'[g].pc \notin {"idle", "lock"}
  BY <1>0 DEF TypeOK, Moves, Starts, GoesOn, Returns, Inside
<1>4. LockInv'
  <2> SUFFICES ASSUME NEW g \in Handlers, local'[g].pc \notin {"idle", "lock"} PROVE lock' = g
    BY DEF LockInv
  <2>1. CASE g = h
    BY <2>1, <1>2 DEF Moves, Starts, GoesOn, Returns
  <2>2. CASE g # h
    BY <2>2, <1>0 DEF LockInv, Moves, Starts, GoesOn, Returns
  <2> QED  BY <2>1, <2>2
<1>5. TaskInv'
  <2> SUFFICES ASSUME NEW g \in Handlers
               PROVE  /\ local'[g].pc # "idle" => local'[g].task \in Tasks
                      /\ local'[g].pc # "idle" /\ local'[g].kind # "create" =>
                            status'[local'[g].task] # "none"
                      /\ local'[g].pc \in {"begin", "requeue"} => local'[g].kind # "create"
    BY DEF TaskInv
  <2>1. CASE g = h
    BY <2>1, <1>0, <1>2 DEF TaskInv, Moves, Starts, GoesOn, Returns
  <2>2. CASE g # h
    BY <2>2, <1>0 DEF TaskInv, Moves
  <2> QED  BY <2>1, <2>2
<1>6. now \in Nat /\ \A g \in Handlers : local[g].since <= now
  BY <1>0, TimesFacts DEF TypeOK, ClockInv
<1> QED  BY <1>1, <1>3, <1>4, <1>5, <1>6 DEF Moves

\* It keeps the invariant, if it keeps the rows in their domains.
LEMMA HandlerBasic ==
    ASSUME Basic, NEW h \in Handlers, Moves(h), now' = now /\ plan' = plan,
           /\ status' \in [Tasks -> Statuses]
           /\ \A u \in Tasks : status[u] # "none" => status'[u] # "none",
           /\ keyed' \subseteq Tasks /\ late' \subseteq Tasks
           /\ charge' \in [Tasks -> [state : {"none", "active", "refunded"}, at : Times]]
           /\ \A u \in Tasks : charge'[u].at <= now
    PROVE  Basic'
<1>1. TypeOK /\ ClockInv
  BY DEF Basic
<1>2. /\ local' \in [Handlers -> Locals] /\ lock' \in Handlers \cup {NoHandler}
      /\ \A g \in Handlers : lock' = g => local'[g].pc \notin {"idle", "lock"}
      /\ LockInv' /\ TaskInv'
      /\ \A g \in Handlers : local'[g].since <= now
  BY MovesKeep
<1>3. TypeOK'
  BY <1>1, <1>2 DEF TypeOK
<1>4. ClockInv'
  BY <1>1, <1>2 DEF ClockInv
<1> QED  BY <1>2, <1>3, <1>4 DEF Basic

\* Every step keeps them.
LEMMA BasicNext == Basic /\ [Next]_vars => Basic'
<1> SUFFICES ASSUME Basic, [Next]_vars PROVE Basic'
  OBVIOUS
<1>0. TypeOK /\ LockInv /\ ClockInv /\ TaskInv
  BY DEF Basic
<1> USE AllowanceAssumption
<1>1. ASSUME NEW h \in Handlers, NEW t \in Tasks, Submit(h, t) PROVE Basic'
  <2>1. Moves(h)
    BY <1>0, <1>1, StartMoves DEF Basic
  <2>2. now' = now /\ plan' = plan
    BY <1>1 DEF Submit
  <2>3. /\ status' \in [Tasks -> Statuses]
        /\ \A u \in Tasks : status[u] # "none" => status'[u] # "none"
    BY <1>0, <1>1 DEF Submit, TypeOK, Statuses, Active
  <2>4. /\ keyed' \subseteq Tasks /\ late' \subseteq Tasks
        /\ charge' \in [Tasks -> [state : {"none", "active", "refunded"}, at : Times]]
        /\ \A u \in Tasks : charge'[u].at <= now
    BY <1>0, <1>1 DEF Submit, TypeOK, ClockInv
  <2> QED  BY <2>1, <2>2, <2>3, <2>4, HandlerBasic
<1>2. ASSUME NEW h \in Handlers, NEW t \in Tasks, Resume(h, t) PROVE Basic'
  <2>1. Moves(h)
    BY <1>0, <1>2, StartMoves DEF Basic
  <2>2. now' = now /\ plan' = plan
    BY <1>2 DEF Resume
  <2>3. /\ status' \in [Tasks -> Statuses]
        /\ \A u \in Tasks : status[u] # "none" => status'[u] # "none"
    BY <1>0, <1>2 DEF Resume, TypeOK, Statuses, Active
  <2>4. /\ keyed' \subseteq Tasks /\ late' \subseteq Tasks
        /\ charge' \in [Tasks -> [state : {"none", "active", "refunded"}, at : Times]]
        /\ \A u \in Tasks : charge'[u].at <= now
    BY <1>0, <1>2 DEF Resume, TypeOK, ClockInv
  <2> QED  BY <2>1, <2>2, <2>3, <2>4, HandlerBasic
<1>3. ASSUME NEW h \in Handlers, NEW t \in Tasks, Work(h, t) PROVE Basic'
  <2>1. Moves(h)
    BY <1>0, <1>3, StartMoves DEF Basic
  <2>2. now' = now /\ plan' = plan
    BY <1>3 DEF Work
  <2>3. /\ status' \in [Tasks -> Statuses]
        /\ \A u \in Tasks : status[u] # "none" => status'[u] # "none"
    BY <1>0, <1>3 DEF Work, TypeOK, Statuses, Active
  <2>4. /\ keyed' \subseteq Tasks /\ late' \subseteq Tasks
        /\ charge' \in [Tasks -> [state : {"none", "active", "refunded"}, at : Times]]
        /\ \A u \in Tasks : charge'[u].at <= now
    BY <1>0, <1>3 DEF Work, TypeOK, ClockInv
  <2> QED  BY <2>1, <2>2, <2>3, <2>4, HandlerBasic
<1>4. ASSUME NEW h \in Handlers, Lock(h) PROVE Basic'
  <2>1. Moves(h)
    <3>1. CASE lock = NoHandler
      <4> DEFINE pc == IF local[h].kind = "create" THEN "look" ELSE "begin"
      <4>1. pc \in Inside /\ (pc \in {"begin", "requeue"} => local[h].kind # "create")
        BY DEF Inside
      <4>2. Goto(h, pc) /\ lock' = h /\ local[h].pc = "lock"
        BY <1>4, <3>1 DEF Lock, At
      <4> HIDE DEF pc
      <4> QED  BY <3>1, <4>1, <4>2, GotoMoves
    <3>2. CASE lock # NoHandler
      BY <1>4, <3>2, LeaveMoves DEF Lock
    <3> QED  BY <3>1, <3>2
  <2>2. now' = now /\ plan' = plan
    BY <1>4 DEF Lock
  <2>3. /\ status' \in [Tasks -> Statuses]
        /\ \A u \in Tasks : status[u] # "none" => status'[u] # "none"
    BY <1>0, <1>4 DEF Lock, TypeOK, Statuses, Active
  <2>4. /\ keyed' \subseteq Tasks /\ late' \subseteq Tasks
        /\ charge' \in [Tasks -> [state : {"none", "active", "refunded"}, at : Times]]
        /\ \A u \in Tasks : charge'[u].at <= now
    BY <1>0, <1>4 DEF Lock, TypeOK, ClockInv
  <2> QED  BY <2>1, <2>2, <2>3, <2>4, HandlerBasic
<1>5. ASSUME NEW h \in Handlers, Begin(h) PROVE Basic'
  <2>a. local[h].pc = "begin" /\ lock = h /\ local[h].kind # "create" /\ local[h] \in Locals
        /\ local \in [Handlers -> Locals] /\ now \in Times
    BY <1>0, <1>5 DEF Begin, At, LockInv, TaskInv, TypeOK
  <2>1. Moves(h)
    <3>1. CASE Goto(h, "requeue") /\ UNCHANGED lock
      BY <2>a, <3>1, GotoMoves DEF Inside
    <3>2. CASE local' = [local EXCEPT ![h].pc = "look", ![h].since = now] /\ UNCHANGED lock
      <4> DEFINE r == [local[h] EXCEPT !.pc = "look", !.since = now]
      <4>1. /\ r \in Locals /\ r.pc = "look" /\ r.task = local[h].task
            /\ r.kind = local[h].kind /\ r.since = now
        BY <2>a DEF Locals
      <4>2. local' = [local EXCEPT ![h] = r]
        BY <2>a, <3>2
      <4> HIDE DEF r
      <4> QED  BY <2>a, <3>2, <4>1, <4>2, RecordMoves DEF Inside
    <3>3. CASE Leave(h)
      BY <3>3, LeaveMoves
    <3> QED  BY <1>5, <3>1, <3>2, <3>3 DEF Begin
  <2>2. now' = now /\ plan' = plan
    BY <1>5 DEF Begin
  <2>3. /\ status' \in [Tasks -> Statuses]
        /\ \A u \in Tasks : status[u] # "none" => status'[u] # "none"
    BY <1>0, <1>5 DEF Begin, TypeOK, Statuses, Active
  <2>4. /\ keyed' \subseteq Tasks /\ late' \subseteq Tasks
        /\ charge' \in [Tasks -> [state : {"none", "active", "refunded"}, at : Times]]
        /\ \A u \in Tasks : charge'[u].at <= now
    BY <1>0, <1>5 DEF Begin, TypeOK, ClockInv
  <2> QED  BY <2>1, <2>2, <2>3, <2>4, HandlerBasic
<1>6. ASSUME NEW h \in Handlers, Look(h) PROVE Basic'
  <2>a. local[h].pc = "look" /\ lock = h /\ local[h] \in Locals /\ local \in [Handlers -> Locals]
    BY <1>0, <1>6 DEF Look, At, LockInv, TypeOK
  <2>b. WindowStart(plan, now) \in Nat /\ WindowEnd(plan, now) \in Nat
    BY <1>0, WindowBounds DEF TypeOK, ClockInv
  <2>1. Moves(h)
    <3>1. CASE plan.paid
      <4> DEFINE r == [local[h] EXCEPT !.pc = "count", !.first = WindowStart(plan, now),
                                       !.last = WindowEnd(plan, now)]
      <4>1. /\ r \in Locals /\ r.pc = "count" /\ r.task = local[h].task
            /\ r.kind = local[h].kind /\ r.since = local[h].since
        BY <2>a, <2>b DEF Locals
      <4>2. local' = [local EXCEPT ![h] = r] /\ lock' = lock
        BY <1>6, <2>a, <3>1 DEF Look
      <4> HIDE DEF r
      <4> QED  BY <2>a, <4>1, <4>2, RecordMoves DEF Inside
    <3>2. CASE ~plan.paid
      BY <1>6, <3>2, LeaveMoves DEF Look
    <3> QED  BY <3>1, <3>2
  <2>2. now' = now /\ plan' = plan
    BY <1>6 DEF Look
  <2>3. /\ status' \in [Tasks -> Statuses]
        /\ \A u \in Tasks : status[u] # "none" => status'[u] # "none"
    BY <1>0, <1>6 DEF Look, TypeOK, Statuses, Active
  <2>4. /\ keyed' \subseteq Tasks /\ late' \subseteq Tasks
        /\ charge' \in [Tasks -> [state : {"none", "active", "refunded"}, at : Times]]
        /\ \A u \in Tasks : charge'[u].at <= now
    BY <1>0, <1>6 DEF Look, TypeOK, ClockInv
  <2> QED  BY <2>1, <2>2, <2>3, <2>4, HandlerBasic
<1>7. ASSUME NEW h \in Handlers, Count(h) PROVE Basic'
  <2>a. local[h].pc = "count" /\ lock = h
    BY <1>0, <1>7 DEF Count, At, LockInv
  <2>1. Moves(h)
    <3>1. CASE Fits(h)
      <4> DEFINE pc == IF local[h].kind = "create" THEN "lookup" ELSE "charge"
      <4>1. pc \in Inside /\ pc \notin {"begin", "requeue"}
        BY DEF Inside
      <4>2. Goto(h, pc) /\ lock' = lock
        BY <1>7, <3>1 DEF Count
      <4> HIDE DEF pc
      <4> QED  BY <2>a, <4>1, <4>2, GotoMoves
    <3>2. CASE ~Fits(h)
      BY <1>7, <3>2, LeaveMoves DEF Count
    <3> QED  BY <3>1, <3>2
  <2>2. now' = now /\ plan' = plan
    BY <1>7 DEF Count
  <2>3. /\ status' \in [Tasks -> Statuses]
        /\ \A u \in Tasks : status[u] # "none" => status'[u] # "none"
    BY <1>0, <1>7 DEF Count, TypeOK, Statuses, Active
  <2>4. /\ keyed' \subseteq Tasks /\ late' \subseteq Tasks
        /\ charge' \in [Tasks -> [state : {"none", "active", "refunded"}, at : Times]]
        /\ \A u \in Tasks : charge'[u].at <= now
    BY <1>0, <1>7 DEF Count, TypeOK, ClockInv
  <2> QED  BY <2>1, <2>2, <2>3, <2>4, HandlerBasic
<1>8. ASSUME NEW h \in Handlers, Lookup(h) PROVE Basic'
  <2>a. local[h].pc = "lookup" /\ lock = h
    BY <1>0, <1>8 DEF Lookup, At, LockInv
  <2>1. Moves(h)
    <3>1. CASE Leave(h)
      BY <3>1, LeaveMoves
    <3>2. CASE Goto(h, "charge") /\ UNCHANGED lock
      BY <2>a, <3>2, GotoMoves DEF Inside
    <3> QED  BY <1>8, <3>1, <3>2 DEF Lookup
  <2>2. now' = now /\ plan' = plan
    BY <1>8 DEF Lookup
  <2>3. /\ status' \in [Tasks -> Statuses]
        /\ \A u \in Tasks : status[u] # "none" => status'[u] # "none"
    BY <1>0, <1>8 DEF Lookup, TypeOK, Statuses, Active
  <2>4. /\ keyed' \subseteq Tasks /\ late' \subseteq Tasks
        /\ charge' \in [Tasks -> [state : {"none", "active", "refunded"}, at : Times]]
        /\ \A u \in Tasks : charge'[u].at <= now
    BY <1>0, <1>8 DEF Lookup, TypeOK, ClockInv
  <2> QED  BY <2>1, <2>2, <2>3, <2>4, HandlerBasic
<1>9. ASSUME NEW h \in Handlers, ChargeNew(h) PROVE Basic'
  <2>c. local[h].pc = "charge" /\ lock = h
    BY <1>0, <1>9 DEF ChargeNew, At, LockInv
  <2>1. Moves(h)
    <3> DEFINE pc == IF KeyOf[local[h].task] = NoKey THEN "enqueue" ELSE "key"
    <3>1. pc \in Inside /\ pc \notin {"begin", "requeue"}
      BY DEF Inside
    <3>2. GoOn(h, pc) /\ lock' = lock
      BY <1>9 DEF ChargeNew
    <3> HIDE DEF pc
    <3> QED  BY <2>c, <3>1, <3>2, GotoMoves
  <2>2. now' = now /\ plan' = plan
    BY <1>9 DEF ChargeNew
  <2>3. /\ status' \in [Tasks -> Statuses]
        /\ \A u \in Tasks : status[u] # "none" => status'[u] # "none"
    BY <1>0, <1>9 DEF ChargeNew, TypeOK, Statuses, Active
  <2>a. local[h].task \in Tasks /\ local[h] \in Locals /\ local[h].since \in Times
        /\ now \in Times /\ now <= now /\ local[h].since <= now
    BY <1>0, <1>9, TimesFacts DEF ChargeNew, At, TaskInv, TypeOK, Locals, ClockInv
  <2>b. keyed' = keyed /\ (UNCHANGED <<charge, late>> \/ \E at \in {now, local[h].since} : Record(h, local[h].task, at))
    BY <1>9 DEF ChargeNew
  <2>4. /\ keyed' \subseteq Tasks /\ late' \subseteq Tasks
        /\ charge' \in [Tasks -> [state : {"none", "active", "refunded"}, at : Times]]
        /\ \A u \in Tasks : charge'[u].at <= now
    BY <1>0, <2>a, <2>b DEF Record, TypeOK, ClockInv
  <2> QED  BY <2>1, <2>2, <2>3, <2>4, HandlerBasic
<1>10. ASSUME NEW h \in Handlers, ChargeAgain(h) PROVE Basic'
  <2>c. local[h].pc = "charge" /\ lock = h /\ local[h].kind # "create"
    BY <1>0, <1>10 DEF ChargeAgain, At, LockInv
  <2>1. Moves(h)
    <3>1. CASE Leave(h)
      BY <3>1, LeaveMoves
    <3>2. CASE GoOn(h, "requeue") /\ UNCHANGED lock
      BY <2>c, <3>2, GotoMoves DEF Inside
    <3> QED  BY <1>10, <3>1, <3>2 DEF ChargeAgain
  <2>2. now' = now /\ plan' = plan
    BY <1>10 DEF ChargeAgain
  <2>3. /\ status' \in [Tasks -> Statuses]
        /\ \A u \in Tasks : status[u] # "none" => status'[u] # "none"
    BY <1>0, <1>10 DEF ChargeAgain, TypeOK, Statuses, Active
  <2>a. local[h].task \in Tasks /\ local[h] \in Locals /\ local[h].since \in Times
        /\ now \in Times /\ now <= now /\ local[h].since <= now
    BY <1>0, <1>10, TimesFacts DEF ChargeAgain, At, TaskInv, TypeOK, Locals, ClockInv
  <2>b. keyed' = keyed /\ (UNCHANGED <<charge, late>> \/ \E at \in {now, local[h].since} : Record(h, local[h].task, at))
    BY <1>10 DEF ChargeAgain
  <2>4. /\ keyed' \subseteq Tasks /\ late' \subseteq Tasks
        /\ charge' \in [Tasks -> [state : {"none", "active", "refunded"}, at : Times]]
        /\ \A u \in Tasks : charge'[u].at <= now
    BY <1>0, <2>a, <2>b DEF Record, TypeOK, ClockInv
  <2> QED  BY <2>1, <2>2, <2>3, <2>4, HandlerBasic
<1>11. ASSUME NEW h \in Handlers, SaveKey(h) PROVE Basic'
  <2>c. local[h].pc # "idle" /\ lock = h
    BY <1>0, <1>11 DEF SaveKey, At, LockInv
  <2>1. Moves(h)
    BY <1>11, <2>c, GotoMoves DEF SaveKey, Inside
  <2>2. now' = now /\ plan' = plan
    BY <1>11 DEF SaveKey
  <2>3. /\ status' \in [Tasks -> Statuses]
        /\ \A u \in Tasks : status[u] # "none" => status'[u] # "none"
    BY <1>0, <1>11 DEF SaveKey, TypeOK, Statuses, Active
  <2>a. local[h].task \in Tasks
    BY <1>0, <1>11 DEF SaveKey, At, TaskInv
  <2>4. /\ keyed' \subseteq Tasks /\ late' \subseteq Tasks
        /\ charge' \in [Tasks -> [state : {"none", "active", "refunded"}, at : Times]]
        /\ \A u \in Tasks : charge'[u].at <= now
    BY <1>0, <1>11, <2>a DEF SaveKey, TypeOK, ClockInv
  <2> QED  BY <2>1, <2>2, <2>3, <2>4, HandlerBasic
<1>12. ASSUME NEW h \in Handlers, Requeue(h) PROVE Basic'
  <2>c. local[h].pc # "idle" /\ lock = h
    BY <1>0, <1>12 DEF Requeue, At, LockInv
  <2>1. Moves(h)
    BY <1>12, <2>c, GotoMoves DEF Requeue, Inside
  <2>2. now' = now /\ plan' = plan
    BY <1>12 DEF Requeue
  <2>3. /\ status' \in [Tasks -> Statuses]
        /\ \A u \in Tasks : status[u] # "none" => status'[u] # "none"
    BY <1>0, <1>12 DEF Requeue, TypeOK, Statuses, Active
  <2>4. /\ keyed' \subseteq Tasks /\ late' \subseteq Tasks
        /\ charge' \in [Tasks -> [state : {"none", "active", "refunded"}, at : Times]]
        /\ \A u \in Tasks : charge'[u].at <= now
    BY <1>0, <1>12 DEF Requeue, TypeOK, ClockInv
  <2> QED  BY <2>1, <2>2, <2>3, <2>4, HandlerBasic
<1>13. ASSUME NEW h \in Handlers, Enqueue(h) \/ Unqueue(h) PROVE Basic'
  <2>1. Moves(h)
    BY <1>13, LeaveMoves DEF Enqueue, Unqueue
  <2>2. now' = now /\ plan' = plan
    BY <1>13 DEF Enqueue, Unqueue
  <2>3. /\ status' \in [Tasks -> Statuses]
        /\ \A u \in Tasks : status[u] # "none" => status'[u] # "none"
    BY <1>0, <1>13 DEF Enqueue, Unqueue, TypeOK, Statuses, Active, FailTask
  <2>4. /\ keyed' \subseteq Tasks /\ late' \subseteq Tasks
        /\ charge' \in [Tasks -> [state : {"none", "active", "refunded"}, at : Times]]
        /\ \A u \in Tasks : charge'[u].at <= now
    <3>1. keyed' = keyed
      BY <1>13 DEF Enqueue, Unqueue
    <3>2. CASE UNCHANGED <<charge, late>>
      BY <1>0, <3>1, <3>2 DEF TypeOK, ClockInv
    <3>3. CASE /\ charge' = [charge EXCEPT ![local[h].task] = [state |-> "refunded", at |-> 0]]
               /\ late' \subseteq late
      <4>1. PICK t \in Tasks : t = local[h].task
        BY <1>0, <1>13 DEF Enqueue, Unqueue, At, TaskInv
      <4>2. charge' = [charge EXCEPT ![t] = [state |-> "refunded", at |-> 0]]
        BY <3>3, <4>1
      <4>3. 0 \in Times /\ 0 <= now
        BY <1>0, AllowanceAssumption DEF Times, TypeOK
      <4>4. /\ charge' \in [Tasks -> [state : {"none", "active", "refunded"}, at : Times]]
            /\ \A u \in Tasks : charge'[u].at = charge[u].at \/ charge'[u].at = 0
        BY <1>0, <4>2, <4>3 DEF TypeOK
      <4> QED  BY <1>0, <3>1, <3>3, <4>3, <4>4 DEF TypeOK, ClockInv
    <3> QED  BY <1>13, <3>2, <3>3 DEF Enqueue, Unqueue, FailTask
  <2> QED  BY <2>1, <2>2, <2>3, <2>4, HandlerBasic
<1>14. ASSUME NEW h \in Handlers, Crash(h) PROVE Basic'
  <2>1. Moves(h)
    BY <1>14, LeaveMoves DEF Crash
  <2>2. now' = now /\ plan' = plan
    BY <1>14 DEF Crash
  <2>3. /\ status' \in [Tasks -> Statuses]
        /\ \A u \in Tasks : status[u] # "none" => status'[u] # "none"
    BY <1>0, <1>14 DEF Crash, TypeOK, Statuses, Active
  <2>4. /\ keyed' \subseteq Tasks /\ late' \subseteq Tasks
        /\ charge' \in [Tasks -> [state : {"none", "active", "refunded"}, at : Times]]
        /\ \A u \in Tasks : charge'[u].at <= now
    BY <1>0, <1>14 DEF Crash, TypeOK, ClockInv
  <2> QED  BY <2>1, <2>2, <2>3, <2>4, HandlerBasic
<1>15. ASSUME NEW t \in Tasks, StartRun(t) PROVE Basic'
  <2>1. TypeOK'
    BY <1>0, <1>15 DEF StartRun, TypeOK, Locals, Active, Statuses, Times, TaskInv
  <2>2. LockInv'
    BY <1>0, <1>15 DEF StartRun, TypeOK, Locals, LockInv
  <2>3. ClockInv'
    BY <1>0, <1>15 DEF StartRun, TypeOK, Locals, ClockInv, Times, TaskInv
  <2>4. TaskInv'
    BY <1>0, <1>15 DEF StartRun, TypeOK, Locals, TaskInv, Active, Statuses
  <2> QED  BY <2>1, <2>2, <2>3, <2>4 DEF Basic
<1>16. ASSUME NEW t \in Tasks, FinishRun(t) PROVE Basic'
  <2>1. TypeOK'
    BY <1>0, <1>16 DEF FinishRun, TypeOK, Locals, Active, Statuses, Times, TaskInv
  <2>2. LockInv'
    BY <1>0, <1>16 DEF FinishRun, TypeOK, Locals, LockInv
  <2>3. ClockInv'
    BY <1>0, <1>16 DEF FinishRun, TypeOK, Locals, ClockInv, Times, TaskInv
  <2>4. TaskInv'
    BY <1>0, <1>16 DEF FinishRun, TypeOK, Locals, TaskInv, Active, Statuses
  <2> QED  BY <2>1, <2>2, <2>3, <2>4 DEF Basic
<1>17. ASSUME NEW t \in Tasks, Stop(t) PROVE Basic'
  <2>0. 0 \in Times /\ 0 <= now
    BY <1>0, AllowanceAssumption DEF Times, TypeOK
  <2>1. TypeOK'
    BY <1>0, <1>17, <2>0 DEF Stop, FailTask, TypeOK, Locals, Active, Statuses, TaskInv
  <2>2. LockInv'
    BY <1>0, <1>17 DEF Stop, FailTask, TypeOK, Locals, LockInv
  <2>3. ClockInv'
    BY <1>0, <1>17, <2>0 DEF Stop, FailTask, TypeOK, Locals, ClockInv, TaskInv
  <2>4. TaskInv'
    BY <1>0, <1>17 DEF Stop, FailTask, TypeOK, Locals, TaskInv, Active, Statuses
  <2> QED  BY <2>1, <2>2, <2>3, <2>4 DEF Basic
<1>18. ASSUME NEW t \in Tasks, DeleteTask(t) PROVE Basic'
  <2>1. TypeOK'
    BY <1>0, <1>18 DEF DeleteTask, TypeOK, Locals, Active, Statuses, Times, TaskInv
  <2>2. LockInv'
    BY <1>0, <1>18 DEF DeleteTask, TypeOK, Locals, LockInv
  <2>3. ClockInv'
    BY <1>0, <1>18 DEF DeleteTask, TypeOK, Locals, ClockInv, Times, TaskInv
  <2>4. TaskInv'
    BY <1>0, <1>18 DEF DeleteTask, TypeOK, Locals, TaskInv, Active, Statuses
  <2> QED  BY <2>1, <2>2, <2>3, <2>4 DEF Basic
<1>19. ASSUME Tick PROVE Basic'
  <2>1. TypeOK'
    BY <1>0, <1>19 DEF Tick, TypeOK, Locals, Active, Statuses, Times, TaskInv
  <2>2. LockInv'
    BY <1>0, <1>19 DEF Tick, TypeOK, Locals, LockInv
  <2>3. ClockInv'
    BY <1>0, <1>19 DEF Tick, TypeOK, Locals, ClockInv, Times, TaskInv
  <2>4. TaskInv'
    BY <1>0, <1>19 DEF Tick, TypeOK, Locals, TaskInv, Active, Statuses
  <2> QED  BY <2>1, <2>2, <2>3, <2>4 DEF Basic
<1>20. ASSUME Renew PROVE Basic'
  <2>0. /\ plan' \in [paid : BOOLEAN, start : Times, end : Nat] /\ plan'.start <= now
        /\ now' = now /\ now \in Nat
    <3>1. PICK m \in Terms : plan' = NewPlan(plan.end, m)
      BY <1>20 DEF Renew
    <3>2. plan.end \in Times /\ plan.end <= now /\ now \in Nat /\ now' = now
      BY <1>0, <1>20 DEF Renew, TypeOK, Times
    <3> QED  BY <3>1, <3>2, NewPlanBounds
  <2>1. TypeOK'
    BY <1>0, <1>20, <2>0 DEF Renew, TypeOK, Locals, Active, Statuses, Times, TaskInv
  <2>2. LockInv'
    BY <1>0, <1>20, <2>0 DEF Renew, TypeOK, Locals, LockInv
  <2>3. ClockInv'
    BY <1>0, <1>20, <2>0 DEF Renew, TypeOK, Locals, ClockInv, Times, TaskInv
  <2>4. TaskInv'
    BY <1>0, <1>20, <2>0 DEF Renew, TypeOK, Locals, TaskInv, Active, Statuses
  <2> QED  BY <2>1, <2>2, <2>3, <2>4 DEF Basic
<1>21. ASSUME Extend PROVE Basic'
  <2>1. TypeOK'
    BY <1>0, <1>21 DEF Extend, TypeOK, Locals, Active, Statuses, Times, TaskInv
  <2>2. LockInv'
    BY <1>0, <1>21 DEF Extend, TypeOK, Locals, LockInv
  <2>3. ClockInv'
    BY <1>0, <1>21 DEF Extend, TypeOK, Locals, ClockInv, Times, TaskInv
  <2>4. TaskInv'
    BY <1>0, <1>21 DEF Extend, TypeOK, Locals, TaskInv, Active, Statuses
  <2> QED  BY <2>1, <2>2, <2>3, <2>4 DEF Basic
<1>22. ASSUME Lapse PROVE Basic'
  <2>1. TypeOK'
    BY <1>0, <1>22 DEF Lapse, TypeOK, Locals, Active, Statuses, Times, TaskInv
  <2>2. LockInv'
    BY <1>0, <1>22 DEF Lapse, TypeOK, Locals, LockInv
  <2>3. ClockInv'
    BY <1>0, <1>22 DEF Lapse, TypeOK, Locals, ClockInv, Times, TaskInv
  <2>4. TaskInv'
    BY <1>0, <1>22 DEF Lapse, TypeOK, Locals, TaskInv, Active, Statuses
  <2> QED  BY <2>1, <2>2, <2>3, <2>4 DEF Basic
<1>23. ASSUME Subscribe PROVE Basic'
  <2>0. /\ plan' \in [paid : BOOLEAN, start : Times, end : Nat] /\ plan'.start <= now
        /\ now' = now /\ now \in Nat
    <3>1. PICK m \in Terms : plan' = NewPlan(now, m)
      BY <1>23 DEF Subscribe
    <3>2. now \in Times /\ now <= now /\ now \in Nat /\ now' = now
      BY <1>0, <1>23 DEF Subscribe, TypeOK, Times
    <3> QED  BY <3>1, <3>2, NewPlanBounds
  <2>1. TypeOK'
    BY <1>0, <1>23, <2>0 DEF Subscribe, TypeOK, Locals, Active, Statuses, Times, TaskInv
  <2>2. LockInv'
    BY <1>0, <1>23, <2>0 DEF Subscribe, TypeOK, Locals, LockInv
  <2>3. ClockInv'
    BY <1>0, <1>23, <2>0 DEF Subscribe, TypeOK, Locals, ClockInv, Times, TaskInv
  <2>4. TaskInv'
    BY <1>0, <1>23, <2>0 DEF Subscribe, TypeOK, Locals, TaskInv, Active, Statuses
  <2> QED  BY <2>1, <2>2, <2>3, <2>4 DEF Basic
<1>24. ASSUME UNCHANGED vars PROVE Basic'
  BY <1>0, <1>24 DEF vars, Basic, TypeOK, Locals, LockInv, ClockInv, TaskInv
<1> QED
  BY <1>1, <1>2, <1>3, <1>4, <1>5, <1>6, <1>7, <1>8, <1>9, <1>10, <1>11, <1>12, <1>13, <1>14, <1>15, <1>16, <1>17, <1>18, <1>19, <1>20, <1>21, <1>22, <1>23, <1>24 DEF Next, HandlerStep

-----------------------------------------------------------------------------
(* The start of the window, cut at the end of the period.                   *)

\* Whatever happens to the clock and the plan, the counted time never starts
\* earlier, and a period that ended in the past is prolonged or replaced by
\* one that ends in the future.
LEMMA BaseGrows ==
    ASSUME Basic, [Next]_vars
    PROVE  /\ Base \in Nat /\ Base' \in Nat /\ Base <= Base'
           /\ plan.end <= plan'.end \/ now <= plan'.end
<1>1. /\ now \in Times /\ now \in Nat /\ plan.start \in Times /\ plan.start \in Nat
      /\ plan.end \in Nat /\ plan.start <= now
      /\ plan \in [paid : BOOLEAN, start : Times, end : Nat]
  BY TimesFacts DEF Basic, TypeOK, ClockInv
<1>2. /\ now' \in Times /\ now' \in Nat /\ plan'.start \in Times /\ plan'.start \in Nat
      /\ plan'.end \in Nat /\ plan'.start <= now'
  BY BasicNext, TimesFacts DEF Basic, TypeOK, ClockInv
<1> DEFINE s == WindowStart(plan, now)  u == WindowStart(plan', now')
<1>3. s \in Nat /\ plan.start <= s /\ s <= now
  BY <1>1, WindowBounds
<1>4. u \in Nat /\ plan'.start <= u
  BY <1>2, WindowBounds
<1>5. Base = (IF s <= plan.end THEN s ELSE plan.end) /\ Base' = (IF u <= plan'.end THEN u ELSE plan'.end)
  BY DEF Base
<1>6. CASE Tick
  <2>1. plan' = plan /\ now <= now'
    BY <1>1, <1>6 DEF Tick
  <2>2. s <= u
    BY <1>1, <1>2, <2>1, WindowAdvances
  <2> HIDE DEF s, u
  <2> QED  BY <1>1, <1>3, <1>4, <1>5, <2>1, <2>2
<1>7. CASE Renew
  <2>1. PICK m \in Terms : plan' = NewPlan(plan.end, m)
    BY <1>7 DEF Renew
  <2>2. plan.end \in Times
    BY <1>1, <1>7, TimesFacts DEF Renew, Times
  <2>3. plan'.start = plan.end /\ plan.end < plan'.end
    BY <2>1, <2>2, NewPlanBounds
  <2> HIDE DEF s, u
  <2> QED  BY <1>1, <1>2, <1>3, <1>4, <1>5, <2>3
<1>8. CASE Subscribe
  <2>1. PICK m \in Terms : plan' = NewPlan(now, m)
    BY <1>8 DEF Subscribe
  <2>2. plan'.start = now /\ now < plan'.end
    BY <1>1, <2>1, NewPlanBounds
  <2> HIDE DEF s, u
  <2> QED  BY <1>1, <1>2, <1>3, <1>4, <1>5, <2>2
<1>9. CASE Extend
  <2>1. PICK e \in (now + 1)..MaxTime : plan.end < e /\ plan' = [plan EXCEPT !.end = e]
    BY <1>9 DEF Extend
  <2>2. plan'.end = e /\ plan'.start = plan.start /\ plan.end < plan'.end /\ now' = now
    BY <1>1, <1>9, <2>1 DEF Extend
  <2>3. s <= u
    <3>1. CASE Monthly(plan)
      BY <1>1, <1>3, <1>4, <2>2, <3>1 DEF WindowStart
    <3>2. CASE ~Monthly(plan)
      <4>1. ~Monthly(plan')
        BY <1>1, <1>2, <2>2, <3>2, AllowanceAssumption DEF Monthly
      <4>2. Month(plan', now') = Month(plan, now)
        BY <2>2 DEF Month
      <4>3. s = u
        BY <2>2, <3>2, <4>1, <4>2 DEF WindowStart
      <4> QED  BY <1>3, <4>3
    <3> QED  BY <3>1, <3>2
  <2> HIDE DEF s, u
  <2> QED  BY <1>1, <1>2, <1>3, <1>4, <1>5, <2>2, <2>3
<1>10. CASE now' = now /\ plan'.start = plan.start /\ plan'.end = plan.end
  <2>1. Month(plan', now') = Month(plan, now) /\ Monthly(plan') = Monthly(plan)
    BY <1>10 DEF Month, Monthly
  <2>2. u = s
    BY <1>10, <2>1 DEF WindowStart
  <2> HIDE DEF s, u
  <2> QED  BY <1>1, <1>3, <1>5, <1>10, <2>2
<1>11. CASE Lapse
  BY <1>1, <1>10, <1>11 DEF Lapse
<1>12. CASE UNCHANGED <<now, plan>>
  BY <1>10, <1>12
<1>13. Tick \/ Renew \/ Subscribe \/ Extend \/ Lapse \/ UNCHANGED <<now, plan>>
  BY DEF Next, vars, HandlerStep, Submit, Resume, Work, Lock, Begin, Look, Count, Lookup,
         ChargeNew, ChargeAgain, SaveKey, Requeue, Enqueue, Unqueue, Crash, StartRun, FinishRun,
         Stop, DeleteTask
<1> QED  BY <1>6, <1>7, <1>8, <1>9, <1>11, <1>12, <1>13

-----------------------------------------------------------------------------
(* What a step does to the charges, the uploads and what handlers know.     *)

Knowing == {"count", "lookup", "charge"}
SameKnowledge(g) ==
    /\ local'[g].first = local[g].first /\ local'[g].last = local[g].last
    /\ local'[g].task = local[g].task /\ local'[g].kind = local[g].kind

\* A handler that knows something knew it before, or has just found it out.
Knows(g) ==
    \/ local'[g].pc \notin Knowing
    \/ local'[g].pc = local[g].pc /\ SameKnowledge(g)
    \/ /\ local[g].pc = "look" /\ local'[g].pc = "count"
       /\ local'[g].first = WindowStart(plan, now) /\ local'[g].last = WindowEnd(plan, now)
    \/ /\ local[g].pc = "count" /\ local'[g].pc \in {"lookup", "charge"}
       /\ local'[g].kind = "create" => local'[g].pc = "lookup"
       /\ Fits(g) /\ SameKnowledge(g)
    \/ /\ local[g].pc = "lookup" /\ local'[g].pc = "charge"
       /\ SameUpload(local[g].task, Active) = {} /\ SameKnowledge(g)

NoNewCharge ==
    \A t \in Tasks :
        charge'[t].state = "active" =>
            /\ charge[t].state = "active" /\ charge'[t].at = charge[t].at
            /\ t \in late => t \in late'
\* Nothing is charged, and no unfinished upload appears.
Quiet ==
    /\ NoNewCharge
    /\ keyed' \subseteq keyed
    /\ \A t \in Tasks : status'[t] \in Active => status[t] \in Active
\* The holder of the lock admits a task, and knows nothing any more.
Admits(h) ==
    /\ lock = h /\ now' = now /\ plan' = plan
    /\ local'[h].pc \notin Knowing
    /\ \A g \in Handlers : g # h => local'[g] = local[g]
    /\ \/ NoNewCharge
       \/ /\ local[h].pc = "charge" /\ local[h].task \in Tasks
          /\ \E at \in {now, local[h].since} : Record(h, local[h].task, at)

LEMMA LeaveKnows ==
    ASSUME Basic, NEW h \in Handlers, Leave(h)
    PROVE  \A g \in Handlers : Knows(g)
<1>1. local \in [Handlers -> Locals] /\ local' = [local EXCEPT ![h] = Idle] /\ Idle.pc = "idle"
  BY DEF Basic, TypeOK, Leave, Idle
<1> QED  BY <1>1 DEF Knows, Knowing, SameKnowledge

\* A handler goes on to a point where it knows nothing of use.
LEMMA ForgetKnows ==
    ASSUME Basic, NEW h \in Handlers, NEW pc, pc \notin Knowing, Goto(h, pc) \/ GoOn(h, pc)
    PROVE  /\ \A g \in Handlers : Knows(g)
           /\ local'[h].pc \notin Knowing
           /\ \A g \in Handlers : g # h => local'[g] = local[g]
<1>1. local \in [Handlers -> Locals] /\ local[h] \in Locals
  BY DEF Basic, TypeOK
<1>2. local'[h].pc = pc /\ \A g \in Handlers : g # h => local'[g] = local[g]
  BY <1>1 DEF Goto, GoOn, Locals
<1> QED  BY <1>2 DEF Knows, SameKnowledge

\* Every step that is not an admission is quiet.
LEMMA Steps ==
    ASSUME Basic, [Next]_vars
    PROVE  /\ \A g \in Handlers : Knows(g)
           /\ Quiet \/ \E h \in Handlers : Admits(h)
<1> USE AllowanceAssumption
<1>0. TypeOK /\ LockInv /\ ClockInv /\ TaskInv /\ local \in [Handlers -> Locals]
  BY DEF Basic, TypeOK
<1>1. ASSUME NEW h \in Handlers, NEW t \in Tasks, Submit(h, t) \/ Resume(h, t) \/ Work(h, t)
      PROVE  Quiet /\ \A g \in Handlers : Knows(g)
  <2>1. Quiet
    BY <1>1 DEF Submit, Resume, Work, Quiet, NoNewCharge
  <2>2. PICK k \in {"create", "resume", "work"} :
          local' = [local EXCEPT ![h] = [Idle EXCEPT !.pc = "lock", !.kind = k, !.task = t]]
    BY <1>1 DEF Submit, Resume, Work
  <2>3. local'[h].pc = "lock" /\ \A g \in Handlers : g # h => local'[g] = local[g]
    BY <1>0, <2>2 DEF Idle
  <2> QED  BY <2>1, <2>3 DEF Knows, Knowing, SameKnowledge
<1>2. ASSUME NEW h \in Handlers, Lock(h) PROVE Quiet /\ \A g \in Handlers : Knows(g)
  <2>1. Quiet
    BY <1>2 DEF Lock, Quiet, NoNewCharge
  <2>2. CASE Goto(h, IF local[h].kind = "create" THEN "look" ELSE "begin")
    BY <2>1, <2>2, ForgetKnows DEF Knowing
  <2> QED  BY <1>2, <2>1, <2>2, LeaveKnows DEF Lock
<1>3. ASSUME NEW h \in Handlers, Begin(h) PROVE Quiet /\ \A g \in Handlers : Knows(g)
  <2>1. Quiet
    BY <1>3 DEF Begin, Quiet, NoNewCharge
  <2>2. CASE Goto(h, "requeue")
    BY <2>1, <2>2, ForgetKnows DEF Knowing
  <2>3. CASE local' = [local EXCEPT ![h].pc = "look", ![h].since = now]
    <3>1. local'[h].pc = "look" /\ \A g \in Handlers : g # h => local'[g] = local[g]
      BY <1>0, <2>3 DEF Locals
    <3> QED  BY <2>1, <3>1 DEF Knows, Knowing, SameKnowledge
  <2> QED  BY <1>3, <2>1, <2>2, <2>3, LeaveKnows DEF Begin
<1>4. ASSUME NEW h \in Handlers, Look(h) PROVE Quiet /\ \A g \in Handlers : Knows(g)
  <2>1. Quiet
    BY <1>4 DEF Look, Quiet, NoNewCharge
  <2>2. CASE plan.paid
    <3>1. local' = [local EXCEPT ![h].pc = "count", ![h].first = WindowStart(plan, now),
                                 ![h].last = WindowEnd(plan, now)]
      BY <1>4, <2>2 DEF Look
    <3>2. /\ local'[h].pc = "count" /\ local'[h].first = WindowStart(plan, now)
          /\ local'[h].last = WindowEnd(plan, now)
          /\ \A g \in Handlers : g # h => local'[g] = local[g]
      BY <1>0, <3>1 DEF Locals
    <3>3. local[h].pc = "look"
      BY <1>4 DEF Look, At
    <3> QED  BY <2>1, <3>2, <3>3 DEF Knows, SameKnowledge
  <2> QED  BY <1>4, <2>1, <2>2, LeaveKnows DEF Look
<1>5. ASSUME NEW h \in Handlers, Count(h) PROVE Quiet /\ \A g \in Handlers : Knows(g)
  <2>1. Quiet
    BY <1>5 DEF Count, Quiet, NoNewCharge
  <2>2. CASE Fits(h)
    <3>1. Goto(h, IF local[h].kind = "create" THEN "lookup" ELSE "charge")
      BY <1>5, <2>2 DEF Count
    <3>2. /\ local'[h].pc = (IF local[h].kind = "create" THEN "lookup" ELSE "charge")
          /\ SameKnowledge(h)
          /\ \A g \in Handlers : g # h => local'[g] = local[g]
      BY <1>0, <3>1 DEF Locals, Goto, SameKnowledge
    <3>3. local[h].pc = "count" /\ local'[h].kind = local[h].kind
      BY <1>5, <3>2 DEF Count, At, SameKnowledge
    <3>4. Knows(h)
      BY <2>2, <3>2, <3>3 DEF Knows
    <3> QED  BY <2>1, <3>2, <3>4 DEF Knows, SameKnowledge
  <2> QED  BY <1>5, <2>1, <2>2, LeaveKnows DEF Count
<1>6. ASSUME NEW h \in Handlers, Lookup(h) PROVE Quiet /\ \A g \in Handlers : Knows(g)
  <2>1. Quiet
    BY <1>6 DEF Lookup, Quiet, NoNewCharge
  <2>2. CASE SameUpload(local[h].task, Active) = {} /\ Goto(h, "charge")
    <3>1. /\ local'[h].pc = "charge" /\ SameKnowledge(h)
          /\ \A g \in Handlers : g # h => local'[g] = local[g]
      BY <1>0, <2>2 DEF Locals, Goto, SameKnowledge
    <3>2. local[h].pc = "lookup"
      BY <1>6 DEF Lookup, At
    <3>3. Knows(h)
      BY <2>2, <3>1, <3>2 DEF Knows
    <3> QED  BY <2>1, <3>1, <3>3 DEF Knows, SameKnowledge
  <2> QED  BY <1>6, <2>1, <2>2, LeaveKnows DEF Lookup
<1>7. ASSUME NEW h \in Handlers, ChargeNew(h) PROVE Admits(h) /\ \A g \in Handlers : Knows(g)
  <2>1. /\ local[h].pc = "charge" /\ lock = h /\ now' = now /\ plan' = plan
        /\ local[h].task \in Tasks /\ Record(h, local[h].task, now)
    BY <1>0, <1>7 DEF ChargeNew, At, LockInv, TaskInv
  <2> DEFINE pc == IF KeyOf[local[h].task] = NoKey THEN "enqueue" ELSE "key"
  <2>2. GoOn(h, pc) /\ pc \notin Knowing
    BY <1>7 DEF ChargeNew, Knowing
  <2> HIDE DEF pc
  <2> QED  BY <2>1, <2>2, ForgetKnows DEF Admits
<1>8. ASSUME NEW h \in Handlers, ChargeAgain(h)
      PROVE  (Quiet \/ Admits(h)) /\ \A g \in Handlers : Knows(g)
  <2>1. local[h].pc = "charge" /\ lock = h /\ now' = now /\ plan' = plan /\ local[h].task \in Tasks
    BY <1>0, <1>8 DEF ChargeAgain, At, LockInv, TaskInv
  <2>2. CASE UNCHANGED <<charge, late>> /\ Leave(h)
    <3>1. Quiet
      BY <1>8, <2>2 DEF ChargeAgain, Quiet, NoNewCharge
    <3> QED  BY <2>2, <3>1, LeaveKnows
  <2>3. CASE Record(h, local[h].task, local[h].since) /\ Leave(h)
    <3>1. local'[h].pc \notin Knowing /\ \A g \in Handlers : g # h => local'[g] = local[g]
      BY <1>0, <2>3 DEF Leave, Idle, Knowing
    <3> QED  BY <2>1, <2>3, <3>1, LeaveKnows DEF Admits
  <2>4. CASE Record(h, local[h].task, local[h].since) /\ GoOn(h, "requeue")
    <3>1. "requeue" \notin Knowing
      BY DEF Knowing
    <3> QED  BY <2>1, <2>4, <3>1, ForgetKnows DEF Admits
  <2> QED  BY <1>8, <2>2, <2>3, <2>4 DEF ChargeAgain
<1>9. ASSUME NEW h \in Handlers, SaveKey(h) \/ Requeue(h)
      PROVE  Admits(h) /\ \A g \in Handlers : Knows(g)
  <2>1. lock = h /\ now' = now /\ plan' = plan
    BY <1>0, <1>9 DEF SaveKey, Requeue, At, LockInv
  <2>2. Goto(h, "enqueue") /\ "enqueue" \notin Knowing /\ UNCHANGED <<charge, late>>
    BY <1>9 DEF SaveKey, Requeue, Knowing
  <2>3. NoNewCharge
    BY <2>2 DEF NoNewCharge
  <2> QED  BY <2>1, <2>2, <2>3, ForgetKnows DEF Admits
<1>10. ASSUME NEW h \in Handlers, Enqueue(h) \/ Unqueue(h) PROVE Quiet /\ \A g \in Handlers : Knows(g)
  <2>1. Leave(h) /\ local[h].task \in Tasks
    BY <1>0, <1>10 DEF Enqueue, Unqueue, At, TaskInv
  <2>2. CASE UNCHANGED <<status, charge, late>>
    <3>1. Quiet
      BY <1>10, <2>2 DEF Enqueue, Unqueue, Quiet, NoNewCharge
    <3> QED  BY <2>1, <3>1, LeaveKnows
  <2>3. CASE \E refund \in BOOLEAN : FailTask(local[h].task, refund)
    <3>1. PICK t \in Tasks, refund \in BOOLEAN : FailTask(t, refund)
      BY <2>1, <2>3
    <3>2. keyed' = keyed
      BY <1>10 DEF Enqueue, Unqueue
    <3>3. Quiet
      BY <1>0, <3>1, <3>2 DEF FailTask, Quiet, NoNewCharge, TypeOK, Active
    <3> QED  BY <2>1, <3>3, LeaveKnows
  <2> QED  BY <1>10, <2>2, <2>3 DEF Enqueue, Unqueue
<1>11. ASSUME NEW h \in Handlers, Crash(h) PROVE Quiet /\ \A g \in Handlers : Knows(g)
  BY <1>11, LeaveKnows DEF Crash, Quiet, NoNewCharge
<1>12. ASSUME NEW t \in Tasks, StartRun(t) \/ FinishRun(t) \/ Stop(t) \/ DeleteTask(t)
       PROVE  Quiet /\ \A g \in Handlers : Knows(g)
  <2>1. Quiet
    BY <1>0, <1>12 DEF StartRun, FinishRun, Stop, DeleteTask, FailTask, Quiet, NoNewCharge,
                       TypeOK, Active
  <2>2. local' = local
    BY <1>12 DEF StartRun, FinishRun, Stop, DeleteTask
  <2> QED  BY <2>1, <2>2 DEF Knows, SameKnowledge
<1>13. CASE Tick \/ Renew \/ Extend \/ Lapse \/ Subscribe \/ UNCHANGED vars
  <2>1. Quiet /\ local' = local
    BY <1>13 DEF Tick, Renew, Extend, Lapse, Subscribe, vars, Quiet, NoNewCharge
  <2> QED  BY <2>1 DEF Knows, SameKnowledge
<1> QED
  BY <1>1, <1>2, <1>3, <1>4, <1>5, <1>6, <1>7, <1>8, <1>9, <1>10, <1>11, <1>12, <1>13
  DEF Next, HandlerStep

-----------------------------------------------------------------------------
(* The room that was found is still there when it is used.                  *)

Room == OnTime /\ LastInv /\ FirstInv /\ RoomInv /\ BaseInv

\* Without new charges, fewer of them are fresh.
LEMMA QuietFresh ==
    ASSUME NoNewCharge
    PROVE  /\ \A t \in Fresh' : t \in Fresh /\ charge'[t].at = charge[t].at
           /\ \A first : FreshSince(first)' \subseteq {t \in Fresh : first <= charge[t].at}
  BY DEF NoNewCharge, Fresh, FreshSince

LEMMA RoomInit == Init => Room
<1> SUFFICES ASSUME Init PROVE Room
  OBVIOUS
<1>1. Fresh = {} /\ \A h \in Handlers : local[h].pc = "idle"
  BY DEF Init, Fresh, Idle
<1>2. FreshSince(Base) = {}
  BY <1>1 DEF FreshSince
<1>3. Minutes({}) = 0
  <2>1. {} \in SUBSET Tasks /\ Tokens({}) = {}
    BY DEF Tokens
  <2> QED  BY <2>1, TokensFinite, FS_EmptySet
<1>4. BaseInv
  BY <1>2, <1>3, AllowanceAssumption DEF BaseInv
<1> QED  BY <1>1, <1>4 DEF Room, OnTime, LastInv, FirstInv, RoomInv

LEMMA RoomNext ==
    ASSUME Basic, Room, [Next]_vars
    PROVE  Room'
<1>0. TypeOK /\ LockInv /\ ClockInv /\ TaskInv /\ OnTime /\ LastInv /\ FirstInv /\ RoomInv /\ BaseInv
  BY DEF Basic, Room
<1>1. /\ Base \in Nat /\ Base' \in Nat /\ Base <= Base'
      /\ plan.end <= plan'.end \/ now <= plan'.end
  BY BaseGrows
<1>2. /\ \A t \in Tasks : charge[t].at \in Nat /\ charge[t].at <= now
      /\ now \in Times /\ now \in Nat /\ plan.end \in Nat /\ plan.start \in Times
      /\ plan.start <= now /\ Fresh \subseteq Tasks /\ local \in [Handlers -> Locals]
  BY <1>0, TimesFacts DEF TypeOK, ClockInv, Fresh
<1>3. /\ plan'.end \in Nat /\ local' \in [Handlers -> Locals] /\ now' \in Nat
      /\ \A t \in Tasks : charge'[t].at \in Nat
      /\ \A h \in Handlers : local'[h].pc \notin {"idle", "lock"} => lock' = h /\ local'[h].task \in Tasks
  BY BasicNext, TimesFacts DEF Basic, TypeOK, LockInv, TaskInv
<1>4. CASE Quiet
  <2>1. NoNewCharge
    BY <1>4 DEF Quiet
  <2>2. \A t \in Fresh' : t \in Fresh /\ charge'[t].at = charge[t].at
    BY <2>1, QuietFresh
  <2>3. OnTime'
    BY <1>0, <1>1, <1>2, <1>3, <2>2 DEF OnTime
  <2>4. LastInv'
    <3> SUFFICES ASSUME NEW h \in Handlers, NEW t \in Fresh', local'[h].pc = "count"
                 PROVE  charge'[t].at <= local'[h].last
      BY DEF LastInv
    <3>1. t \in Fresh /\ charge'[t].at = charge[t].at
      BY <2>2
    <3>2. CASE local[h].pc = "count" /\ local'[h].last = local[h].last
      BY <1>0, <3>1, <3>2 DEF LastInv
    <3>3. CASE local'[h].last = WindowEnd(plan, now)
      <4>1. charge[t].at <= now /\ charge[t].at <= plan.end /\ charge[t].at \in Nat
        BY <1>0, <1>2, <3>1 DEF OnTime
      <4>2. WindowEnd(plan, now) \in Nat /\ (now <= WindowEnd(plan, now) \/ WindowEnd(plan, now) = plan.end)
        BY <1>2, WindowBounds
      <4> QED  BY <1>2, <3>1, <3>3, <4>1, <4>2
    <3>4. Knows(h)
      BY Steps
    <3> QED  BY <3>2, <3>3, <3>4 DEF Knows, Knowing, SameKnowledge
  <2>5. FirstInv'
    <3> SUFFICES ASSUME NEW h \in Handlers, local'[h].pc \in Knowing, local'[h].first <= local'[h].last
                 PROVE  local'[h].first <= Base'
      BY DEF FirstInv, Knowing
    <3>0. local'[h].first \in Nat /\ local'[h].last \in Nat
      BY <1>3 DEF Locals
    <3>1. CASE local[h].pc \in Knowing /\ SameKnowledge(h)
      <4>1. local'[h].first <= Base
        BY <1>0, <3>1 DEF FirstInv, Knowing, SameKnowledge
      <4> QED  BY <1>1, <3>0, <4>1
    <3>2. CASE local'[h].first = WindowStart(plan, now) /\ local'[h].last = WindowEnd(plan, now)
      <4>1. WindowEnd(plan, now) <= plan.end
        BY <1>2, WindowBounds
      <4>2. WindowStart(plan, now) <= plan.end
        BY <1>2, <3>0, <3>2, <4>1
      <4> QED  BY <1>1, <3>0, <3>2, <4>2 DEF Base
    <3>3. Knows(h)
      BY Steps
    <3> QED  BY <3>1, <3>2, <3>3 DEF Knows, Knowing
  <2>6. RoomInv'
    <3> DEFINE T(g) == {t \in Fresh' : local'[g].first <= charge'[t].at}
    <3> SUFFICES ASSUME NEW h \in Handlers, local'[h].pc \in {"lookup", "charge"}
                 PROVE  Minutes(T(h)) + Cost[local'[h].task] <= Limit
      BY DEF RoomInv, FreshSince
    <3> DEFINE Q == FreshSince(local[h].first)
    <3>1. SameKnowledge(h) /\ ((Fits(h) /\ local[h].pc = "count") \/ local[h].pc \in {"lookup", "charge"})
      <4>1. Knows(h)
        BY Steps
      <4> QED  BY <4>1 DEF Knows, Knowing
    <3>2. T(h) \subseteq Q /\ Q \in SUBSET Tasks
      BY <1>2, <2>2, <3>1 DEF FreshSince, SameKnowledge
    <3>3. Minutes(Q) + Cost[local[h].task] <= Limit
      <4>1. CASE local[h].pc \in {"lookup", "charge"}
        BY <1>0, <3>1, <4>1 DEF RoomInv, SameKnowledge
      <4>2. CASE Fits(h) /\ local[h].pc = "count"
        <5> DEFINE C == Counted(local[h].first, local[h].last)
        <5>1. Q \subseteq C
          <6> SUFFICES ASSUME NEW t \in Q PROVE t \in C
            OBVIOUS
          <6>1. t \in Tasks /\ charge[t].state = "active" /\ local[h].first <= charge[t].at
            BY <3>1 DEF FreshSince, Fresh, SameKnowledge
          <6>2. charge[t].at <= local[h].last
            BY <1>0, <4>2 DEF LastInv, FreshSince
          <6>3. local[h].first \in Nat /\ local[h].last \in Nat /\ charge[t].at \in Nat
            BY <1>2, <6>1 DEF Locals
          <6>4. charge[t].at \in local[h].first..local[h].last
            BY <6>1, <6>2, <6>3
          <6> QED  BY <6>1, <6>4 DEF Counted
        <5>2. C \in SUBSET Tasks
          BY DEF Counted
        <5>3. Minutes(C) + Cost[local[h].task] <= Limit
          BY <4>2 DEF Fits
        <5> HIDE DEF C, Q
        <5>4. Minutes(Q) <= Minutes(C) /\ Minutes(Q) \in Nat /\ Minutes(C) \in Nat
          BY <3>2, <5>1, <5>2, MinutesMonotone, TokensFinite
        <5>5. Cost[local[h].task] \in Nat /\ Limit \in Nat
          <6>1. local[h].task \in Tasks
            BY <1>0, <4>2 DEF TaskInv
          <6> QED  BY <6>1, AllowanceAssumption
        <5> QED  BY <5>3, <5>4, <5>5
      <4> QED  BY <3>1, <4>1, <4>2
    <3>4. Cost[local'[h].task] \in Nat /\ Limit \in Nat
      BY <1>3, AllowanceAssumption
    <3> HIDE DEF Q, T
    <3>5. T(h) \in SUBSET Tasks
      BY <3>2
    <3>6. Minutes(T(h)) <= Minutes(Q) /\ Minutes(Q) \in Nat /\ Minutes(T(h)) \in Nat
      BY <3>2, <3>5, MinutesMonotone, TokensFinite
    <3>7. local'[h].task = local[h].task
      BY <3>1 DEF SameKnowledge
    <3> QED  BY <3>3, <3>4, <3>7, <3>6
  <2>7. BaseInv'
    <3>1. FreshSince(Base)' \subseteq FreshSince(Base) /\ FreshSince(Base) \in SUBSET Tasks
      BY <1>1, <1>2, <2>2 DEF FreshSince
    <3>2. Minutes(FreshSince(Base)') <= Minutes(FreshSince(Base)) /\ Minutes(FreshSince(Base)) \in Nat
          /\ Minutes(FreshSince(Base)') \in Nat
      BY <3>1, MinutesMonotone, TokensFinite
    <3> QED  BY <1>0, <3>2, AllowanceAssumption DEF BaseInv
  <2> QED  BY <2>3, <2>4, <2>5, <2>6, <2>7 DEF Room
<1>5. CASE \E h \in Handlers : Admits(h)
  <2> PICK h \in Handlers : Admits(h)
    BY <1>5
  <2>1. \A g \in Handlers : local'[g].pc \notin Knowing
    <3> SUFFICES ASSUME NEW g \in Handlers, g # h PROVE local'[g].pc \notin Knowing
      BY DEF Admits
    <3> QED  BY <1>0 DEF Admits, LockInv, Knowing
  <2>2. LastInv' /\ FirstInv' /\ RoomInv'
    BY <2>1 DEF LastInv, FirstInv, RoomInv, Knowing
  <2>3. now' = now /\ plan' = plan /\ Base' = Base
    BY DEF Admits, Base, WindowStart, Month, Monthly
  <2>4. CASE NoNewCharge
    <3>1. \A t \in Fresh' : t \in Fresh /\ charge'[t].at = charge[t].at
      BY <2>4, QuietFresh
    <3>2. OnTime'
      BY <1>0, <2>3, <3>1 DEF OnTime
    <3>3. FreshSince(Base)' \subseteq FreshSince(Base) /\ FreshSince(Base) \in SUBSET Tasks
      BY <1>2, <2>3, <3>1 DEF FreshSince
    <3>4. Minutes(FreshSince(Base)') <= Minutes(FreshSince(Base)) /\ Minutes(FreshSince(Base)) \in Nat
          /\ Minutes(FreshSince(Base)') \in Nat
      BY <3>3, MinutesMonotone, TokensFinite
    <3>5. BaseInv'
      BY <1>0, <3>4, AllowanceAssumption DEF BaseInv
    <3> QED  BY <2>2, <3>2, <3>5 DEF Room
  <2>5. CASE /\ local[h].pc = "charge" /\ local[h].task \in Tasks
             /\ \E at \in {now, local[h].since} : Record(h, local[h].task, at)
    <3>1. PICK t \in Tasks, at \in Nat : t = local[h].task /\ Record(h, t, at)
      <4>1. local[h].since \in Nat
        BY <1>2, TimesFacts DEF Locals
      <4> QED  BY <1>2, <2>5, <4>1
    <3> DEFINE f == local[h].first
               OnWindow == at \in f..local[h].last /\ at <= plan.end
    <3>2. /\ \A u \in Tasks : u # t => (u \in Fresh' <=> u \in Fresh) /\ charge'[u] = charge[u]
          /\ t \in Fresh' => OnWindow
          /\ charge'[t].at = at
      BY <1>0, <3>1 DEF Record, Fresh, TypeOK
    <3>3. OnTime'
      BY <1>0, <2>3, <3>2 DEF OnTime, Fresh
    <3>4. f \in Nat /\ local[h].last \in Nat
      BY <1>2 DEF Locals
    <3>5. OnWindow => f <= Base
      BY <1>0, <2>5, <3>4 DEF FirstInv
    <3>6. /\ Minutes(FreshSince(f)) + Cost[t] <= Limit /\ Cost[t] \in Nat /\ Limit \in Nat
          /\ FreshSince(f) \in SUBSET Tasks /\ FreshSince(Base) \in SUBSET Tasks
          /\ FreshSince(Base)' \in SUBSET Tasks
      BY <1>0, <2>5, <3>1, AllowanceAssumption DEF RoomInv, FreshSince, Fresh
    <3>7. CASE OnWindow
      <4>1. FreshSince(Base)' \subseteq FreshSince(f) \cup {t}
        BY <1>1, <1>2, <2>3, <3>2, <3>4, <3>5, <3>7 DEF FreshSince, Fresh
      <4>2. FreshSince(f) \cup {t} \in SUBSET Tasks
        BY <3>6
      <4> HIDE DEF f
      <4>3. /\ Minutes(FreshSince(Base)') <= Minutes(FreshSince(f) \cup {t})
            /\ Minutes(FreshSince(f) \cup {t}) <= Minutes(FreshSince(f)) + Cost[t]
            /\ Minutes(FreshSince(Base)') \in Nat /\ Minutes(FreshSince(f)) \in Nat
            /\ Minutes(FreshSince(f) \cup {t}) \in Nat
        BY <3>6, <4>1, <4>2, MinutesMonotone, MinutesAdd, TokensFinite
      <4>4. BaseInv'
        BY <3>6, <4>3 DEF BaseInv
      <4> QED  BY <2>2, <3>3, <4>4 DEF Room
    <3>8. CASE ~OnWindow
      <4>1. FreshSince(Base)' \subseteq FreshSince(Base)
        BY <2>3, <3>2, <3>8 DEF FreshSince, Fresh
      <4>2. /\ Minutes(FreshSince(Base)') <= Minutes(FreshSince(Base))
            /\ Minutes(FreshSince(Base)') \in Nat /\ Minutes(FreshSince(Base)) \in Nat
        BY <3>6, <4>1, MinutesMonotone, TokensFinite
      <4>3. BaseInv'
        BY <1>0, <3>6, <4>2 DEF BaseInv
      <4> QED  BY <2>2, <3>3, <4>3 DEF Room
    <3> QED  BY <3>7, <3>8
  <2> QED  BY <2>4, <2>5 DEF Admits
<1> QED  BY <1>4, <1>5, Steps

\* While a submission waits to be charged, the lock keeps its twins away.
LEMMA TwinNext ==
    ASSUME Basic, TwinInv, [Next]_vars
    PROVE  TwinInv'
<1> SUFFICES ASSUME NEW h \in Handlers, local'[h].pc = "charge", local'[h].kind = "create"
             PROVE  (SameUpload(local[h].task, Active) = {})'
  BY DEF TwinInv
<1>0. LockInv /\ keyed \subseteq Tasks
  BY DEF Basic, TypeOK
<1>1. SameUpload(local[h].task, Active) = {} /\ local'[h].task = local[h].task
  <2>1. Knows(h)
    BY Steps
  <2>2. CASE local[h].pc = "lookup" /\ SameUpload(local[h].task, Active) = {} /\ SameKnowledge(h)
    BY <2>2 DEF SameKnowledge
  <2>3. CASE local[h].pc = "charge" /\ SameKnowledge(h)
    BY <2>3 DEF SameKnowledge, TwinInv
  <2> QED  BY <2>1, <2>2, <2>3 DEF Knows, Knowing
<1>2. CASE Quiet
  BY <1>0, <1>1, <1>2 DEF Quiet, SameUpload
<1>3. CASE \E g \in Handlers : Admits(g)
  <2>1. PICK g \in Handlers : Admits(g)
    BY <1>3
  <2>2. CASE g = h
    BY <2>1, <2>2 DEF Admits, Knowing
  <2>3. CASE g # h
    BY <1>0, <2>1, <2>3 DEF Admits, LockInv
  <2> QED  BY <2>2, <2>3
<1> QED  BY <1>2, <1>3, Steps

-----------------------------------------------------------------------------
(* Theorems.                                                                *)

IInv == Basic /\ Room /\ TwinInv

THEOREM Invariance == Spec => []IInv
<1>1. Init => IInv
  <2>1. Init => TwinInv
    BY DEF Init, TwinInv, Idle
  <2> QED  BY <2>1, BasicInit, RoomInit DEF IInv
<1>2. IInv /\ [Next]_vars => IInv'
  BY BasicNext, RoomNext, TwinNext DEF IInv
<1> QED  BY <1>1, <1>2, PTL DEF Spec

\* The rows and the local variables keep to their domains, and no handler
\* that has returned holds the lock.
THEOREM TypeCorrect == Spec => []TypeOK
<1>1. IInv => TypeOK
  BY DEF IInv, Basic
<1> QED  BY <1>1, Invariance, PTL

\* For any number of handlers and tasks, any durations and any calendar, the
\* minutes the code would count now stay within the plan.
THEOREM NeverOverdrawnCorrect == Spec => []NeverOverdrawn
<1>1. IInv => NeverOverdrawn
  <2> SUFFICES ASSUME IInv PROVE NeverOverdrawn
    OBVIOUS
  <2> DEFINE first == WindowStart(plan, now)
             C == Counted(first, WindowEnd(plan, now)) \ late
  <2>1. /\ now \in Times /\ plan.start \in Times /\ plan.end \in Nat /\ plan.start <= now
        /\ \A t \in Tasks : charge[t].at \in Nat
    BY TimesFacts DEF IInv, Basic, TypeOK, ClockInv
  <2>2. first \in Nat /\ WindowEnd(plan, now) \in Nat
    BY <2>1, WindowBounds
  <2>3. Base \in Nat /\ Base <= first
    BY <2>1, <2>2 DEF Base
  <2>4. C \subseteq FreshSince(Base) /\ FreshSince(Base) \in SUBSET Tasks
    BY <2>1, <2>2, <2>3 DEF Counted, FreshSince, Fresh
  <2>5. C \in SUBSET Tasks
    BY <2>4
  <2>6. Minutes(FreshSince(Base)) <= Limit
    BY DEF IInv, Room, BaseInv
  <2> HIDE DEF C
  <2>7. Minutes(C) <= Minutes(FreshSince(Base)) /\ Minutes(C) \in Nat /\ Minutes(FreshSince(Base)) \in Nat
    BY <2>4, <2>5, MinutesMonotone, TokensFinite
  <2>8. Minutes(C) <= Limit
    BY <2>6, <2>7, AllowanceAssumption
  <2> QED  BY <2>8 DEF C, NeverOverdrawn
<1> QED  BY <1>1, Invariance, PTL

\* A task is created only while no unfinished task has the same upload.
LEMMA NewTaskHasNoTwin ==
    ASSUME IInv, [Next]_vars, NEW t \in Tasks, status[t] = "none", status'[t] # "none"
    PROVE  SameUpload(t, Active) = {}
<1>0. TypeOK /\ TaskInv /\ TwinInv
  BY DEF IInv, Basic
<1>1. \E h \in Handlers : ChargeNew(h) /\ local[h].task = t
  <2>1. ASSUME NEW h \in Handlers, Requeue(h) PROVE FALSE
    <3>1. status[local[h].task] # "none"
      BY <1>0, <2>1 DEF Requeue, At, TaskInv
    <3> QED  BY <1>0, <2>1, <3>1 DEF Requeue, TypeOK
  <2>2. ASSUME NEW h \in Handlers, Unqueue(h) PROVE FALSE
    <3>1. local[h].task \in Tasks /\ (local[h].kind # "create" => status[local[h].task] # "none")
      BY <1>0, <2>2 DEF Unqueue, At, TaskInv
    <3> QED  BY <1>0, <2>2, <3>1 DEF Unqueue, FailTask, TypeOK
  <2>3. ASSUME NEW h \in Handlers, ChargeNew(h) PROVE local[h].task = t
    BY <1>0, <2>3 DEF ChargeNew, TypeOK
  <2>4. ASSUME NEW u \in Tasks, StartRun(u) \/ FinishRun(u) \/ Stop(u) \/ DeleteTask(u) PROVE FALSE
    BY <1>0, <2>4 DEF StartRun, FinishRun, Stop, DeleteTask, FailTask, TypeOK, Active
  <2>5. status' # status
    OBVIOUS
  <2>6. \/ \E h \in Handlers : Requeue(h) \/ Unqueue(h) \/ ChargeNew(h)
        \/ \E u \in Tasks : StartRun(u) \/ FinishRun(u) \/ Stop(u) \/ DeleteTask(u)
    BY <2>5 DEF Next, vars, HandlerStep, Submit, Resume, Work, Lock, Begin, Look, Count, Lookup,
                ChargeAgain, SaveKey, Enqueue, Crash, Tick, Renew, Extend, Lapse, Subscribe
  <2> QED  BY <2>1, <2>2, <2>3, <2>4, <2>6
<1> QED  BY <1>0, <1>1 DEF ChargeNew, At, TwinInv

\* However its requests overlap, an upload is not submitted twice while the
\* task that carries its key is unfinished.
THEOREM NoDoubleSubmissionCorrect == Spec => NoDoubleSubmission
<1>1. IInv /\ [Next]_vars =>
        [\A t \in Tasks : status[t] = "none" /\ status'[t] # "none" => SameUpload(t, Active) = {}]_vars
  BY NewTaskHasNoTwin
<1> QED  BY <1>1, Invariance, PTL DEF Spec, NoDoubleSubmission

\* A task is charged only while it is unfinished or by an explicit resume.
LEMMA ChargedInTime ==
    ASSUME IInv, [Next]_vars, NEW t \in Tasks, charge[t].state # "active", charge'[t].state = "active"
    PROVE  \/ status'[t] \in Active
           \/ \E h \in Handlers : local[h].task = t /\ local[h].kind = "resume"
<1>0. TypeOK /\ TaskInv
  BY DEF IInv, Basic
<1>1. ASSUME NEW h \in Handlers, ChargeNew(h) PROVE status'[t] \in Active
  <2>1. local[h].task = t
    BY <1>0, <1>1 DEF ChargeNew, Record, TypeOK
  <2> QED  BY <1>0, <1>1, <2>1 DEF ChargeNew, TypeOK, Active
<1>2. ASSUME NEW h \in Handlers, ChargeAgain(h)
      PROVE  status'[t] \in Active \/ (local[h].task = t /\ local[h].kind = "resume")
  <2>1. status' = status
    BY <1>2 DEF ChargeAgain
  <2>2. CASE Record(h, local[h].task, local[h].since)
    <3>1. local[h].task = t
      BY <1>0, <2>2 DEF Record, TypeOK
    <3>2. status[t] \in (IF local[h].kind = "resume" THEN Statuses \ {"none", "deleted"} ELSE Active)
          \/ charge' = charge
      BY <1>2, <3>1 DEF ChargeAgain
    <3> QED  BY <2>1, <3>1, <3>2
  <2>3. CASE charge' = charge
    BY <2>3
  <2> QED  BY <1>2, <2>2, <2>3 DEF ChargeAgain
<1>3. ASSUME NEW u \in Tasks, NEW refund \in BOOLEAN, FailTask(u, refund) PROVE FALSE
  BY <1>0, <1>3 DEF FailTask, TypeOK
<1>4. ASSUME NEW h \in Handlers, Unqueue(h) PROVE FALSE
  <2>1. local[h].task \in Tasks
    BY <1>0, <1>4 DEF Unqueue, At, TaskInv
  <2> QED  BY <1>3, <1>4, <2>1 DEF Unqueue
<1>5. ASSUME NEW u \in Tasks, Stop(u) PROVE FALSE
  BY <1>3, <1>5 DEF Stop
<1>6. \/ \E h \in Handlers : ChargeNew(h) \/ ChargeAgain(h) \/ Unqueue(h)
      \/ \E u \in Tasks : Stop(u)
  <2>1. charge' # charge
    OBVIOUS
  <2> QED  BY <2>1 DEF Next, vars, HandlerStep, Submit, Resume, Work, Lock, Begin, Look, Count,
             Lookup, SaveKey, Requeue, Enqueue, Crash, StartRun, FinishRun, DeleteTask, Tick, Renew, Extend,
             Lapse, Subscribe
<1> QED  BY <1>1, <1>2, <1>4, <1>5, <1>6

\* A cancellation wins against a worker that is about to charge the task, for
\* any number of workers and requests.
THEOREM StoppedStaysUnchargedCorrect == Spec => StoppedStaysUncharged
<1>1. IInv /\ [Next]_vars =>
        [\A t \in Tasks :
            charge[t].state # "active" /\ charge'[t].state = "active" =>
                \/ status'[t] \in Active
                \/ \E h \in Handlers : local[h].task = t /\ local[h].kind = "resume"]_vars
  BY ChargedInTime
<1> QED  BY <1>1, Invariance, PTL DEF Spec, StoppedStaysUncharged

(***************************************************************************)
(* The plan.  Every event is dated when a provider tells it: an expiration  *)
(* is of a period that ended before the one the store sells now, so it      *)
(* cannot end that one, and a row of another provider is taken over by a    *)
(* paid plan only.                                                          *)
(***************************************************************************)
Plans == {0, 1, 2}
Subs == [status : {"none", "active", "past_due", "unpaid", "canceled"}, price : Plans, invoice : Nat, paid : Plans,
         cancels : BOOLEAN]
Kinds == {"none", "checkout", "updated", "paid", "failed", "cancels", "deleted", "granted", "grace", "issue", "expired",
          "transferred", "approve", "revoke", "resume", "summary"}
Told == [id : Nat \X Kinds, kind : Kinds, sub : Subs, invoice : Nat, plan : Plans, end : Nat]
Users == [plan : Plans, status : {"none", "active", "past_due", "unpaid", "canceled", "inactive"},
          provider : {"none", "stripe", "apple", "affiliate"}, sub : BOOLEAN, pending : Plans, invoice : Nat, end : Nat]
HookStates == [at : {"rest", "live", "read", "ask", "write", "restore", "grant", "mail"}, event : Told, row : Users,
               sub : Subs, settled : BOOLEAN]
Oddities == {"legacy", "ahead", "excepted"}
Pasts == [changes : Nat, failures : Nat, top : Plans, oddities : SUBSET Oddities]
Bills == [plan : Plans, settled : BOOLEAN]
Stores == [plan : Plans, end : Nat]
Creators == {"none", "approved", "revoked"}

\* A subscription has an invoice.
Sold(s, bills) == IF s.status = "none" THEN s.price = 0 ELSE s.invoice \in 1..Len(bills)
\* An event of an expired period is older than the period the store sells.
Dated(e, apple, bills, n) ==
    /\ Sold(e.sub, bills)
    /\ e.kind \in {"paid", "failed"} => e.invoice \in 1..Len(bills)
    /\ e.kind \in {"granted", "grace"} => e.end > 0
    /\ e.kind = "expired" => e.end <= n /\ (apple.end = 0 \/ e.end < apple.end)
\* Which events a handler at each of its steps can have.
Handled(r) ==
    /\ r.at = "live" => r.event.kind \in {"cancels", "checkout", "summary"}
    /\ r.at \in {"read", "ask"} => r.event.kind \in {"updated", "paid", "failed", "cancels", "resume"}
    /\ r.at = "ask" => r.sub.price > 0
    /\ r.at = "write" => r.event.kind \notin {"none", "approve"}
HookOk(r, apple, bills, n) == Dated(r.event, apple, bills, n) /\ Sold(r.sub, bills) /\ Handled(r)
EventOk(e, apple, bills, n) == Dated(e, apple, bills, n) /\ e.kind \notin {"none", "approve"}
PlanTyped ==
    /\ user \in Users /\ sub \in Subs /\ invoices \in Seq(Bills) /\ store \in Stores /\ creator \in Creators
    /\ events \subseteq Told /\ hook \in [Hooks -> HookStates] /\ past \in Pasts
PlanInv ==
    /\ PlanTyped
    /\ Sold(sub, invoices)
    /\ \A e \in events : EventOk(e, store, invoices, past.changes)
    /\ \A h \in Hooks : HookOk(hook[h], store, invoices, past.changes)
    /\ store.end <= past.changes + 1
    /\ user.provider = "apple" => user.end > 0
\* What the row may become when a handler with r writes it.
Stands(u, r) ==
    /\ u \in Users /\ (u.provider = "apple" => u.end > 0)
    /\ user.provider \in {"apple", "affiliate"} /\ u.provider = "stripe" => u.plan \in S!Paid
    /\ user.provider = "apple" /\ u.provider = "none" /\ user.end = store.end => r.event.kind = "transferred"
OthersStand ==
    /\ user.provider \in {"apple", "affiliate"} /\ user'.provider = "stripe" => user'.plan \in S!Paid
    /\ user.provider = "apple" /\ user'.provider = "none" /\ user.end = store.end
         => \E h \in Hooks : hook[h].event.kind = "transferred"

-----------------------------------------------------------------------------
LEMMA PlansAre == S!Free = 0 /\ S!Pro = 1 /\ S!Scale = 2 /\ S!Paid = {1, 2} /\ Plans = {0, 1, 2}
BY DEF S!Paid, S!Free, S!Pro, S!Scale, Plans

LEMMA NothingIs ==
    /\ S!NoSub \in Subs /\ S!NoSub.status = "none" /\ S!NoSub.price = 0
    /\ S!NoEvent \in Told /\ S!NoEvent.kind = "none" /\ S!NoEvent.end = 0 /\ S!NoEvent.sub = S!NoSub
    /\ S!FreeUser \in Users /\ S!FreeUser.provider = "none"
    /\ S!Rest \in HookStates /\ S!Rest.event = S!NoEvent /\ S!Rest.at = "rest" /\ S!Rest.sub = S!NoSub
    /\ S!NoStore \in Stores /\ S!NoStore.end = 0
<1>1. S!NoSub \in Subs /\ S!NoSub.status = "none" /\ S!NoSub.price = 0
  BY PlansAre DEF S!NoSub, Subs
<1>2. S!NoEvent \in Told /\ S!NoEvent.kind = "none" /\ S!NoEvent.end = 0 /\ S!NoEvent.sub = S!NoSub
  <2>1. <<0, "none">> \in Nat \X Kinds
    BY DEF Kinds
  <2> QED
    BY <1>1, <2>1, PlansAre DEF S!NoEvent, Told, Kinds
<1>3. S!FreeUser \in Users /\ S!FreeUser.provider = "none"
  BY PlansAre DEF S!FreeUser, Users
<1>4. S!Rest \in HookStates /\ S!Rest.event = S!NoEvent /\ S!Rest.at = "rest" /\ S!Rest.sub = S!NoSub
  BY <1>1, <1>2, <1>3 DEF S!Rest, HookStates
<1> QED
  BY <1>1, <1>2, <1>3, <1>4, PlansAre DEF S!NoStore, Stores

LEMMA RestOk ==
    ASSUME NEW apple, NEW bills, NEW n
    PROVE  HookOk(S!Rest, apple, bills, n)
BY NothingIs DEF HookOk, Dated, Sold, Handled

LEMMA TopIs ==
    ASSUME NEW p \in Plans, NEW q \in Plans
    PROVE  S!Max({p, q}) \in Plans
<1>1. p >= q \/ q >= p
  BY DEF Plans
<1>2. \E x \in {p, q} : \A y \in {p, q} : x >= y
  BY <1>1 DEF Plans
<1> QED
  BY <1>2 DEF S!Max

LEMMA OddIs ==
    ASSUME NEW test, NEW name \in Oddities
    PROVE  S!If(test, name) \in SUBSET Oddities
BY DEF S!If

LEMMA TypesAre ==
    ASSUME PlanInv
    PROVE  /\ user \in Users /\ sub \in Subs /\ invoices \in Seq(Bills) /\ store \in Stores
           /\ creator \in Creators /\ past \in Pasts /\ past.changes \in Nat /\ hook \in [Hooks -> HookStates]
           /\ sub.price \in Plans /\ sub.paid \in Plans /\ sub.invoice \in Nat /\ store.end \in Nat /\ store.plan \in Plans
           /\ Len(invoices) \in Nat /\ user.plan \in Plans /\ user.pending \in Plans
           /\ \A k \in 1..Len(invoices) : invoices[k] \in Bills
BY DEF PlanInv, PlanTyped, Pasts, Subs, Users, Stores

\* Nothing that was dated ages while no new period is older.
LEMMA DatedStays ==
    ASSUME PlanInv, NEW e \in Told, Dated(e, store, invoices, past.changes),
           NEW apple \in Stores, NEW bills \in Seq(Bills), Len(bills) >= Len(invoices),
           NEW n \in Nat, n >= past.changes, apple.end \in {0, store.end} \/ apple.end > past.changes
    PROVE  Dated(e, apple, bills, n)
<1>1. e.end \in Nat /\ e.sub.invoice \in Nat /\ e.invoice \in Nat /\ apple.end \in Nat /\ Len(bills) \in Nat
  BY DEF Told, Subs, Stores
<1>2. Sold(e.sub, bills)
  BY <1>1, TypesAre DEF Sold, Dated
<1>3. e.kind \in {"paid", "failed"} => e.invoice \in 1..Len(bills)
  BY <1>1, TypesAre DEF Dated
<1>4. e.kind = "expired" => e.end <= n /\ (apple.end = 0 \/ e.end < apple.end)
  BY <1>1, TypesAre DEF Dated
<1> QED
  BY <1>2, <1>3, <1>4 DEF Dated

\* What a provider can tell of a change.
Tellable(kinds, s, k, p, end) ==
    /\ kinds \subseteq Kinds \ {"none", "approve"} /\ s \in Subs /\ k \in Nat /\ p \in Plans /\ end \in Nat
    /\ Sold(s, invoices')
    /\ "paid" \in kinds \/ "failed" \in kinds => k \in 1..Len(invoices')
    /\ "granted" \in kinds \/ "grace" \in kinds => end > 0
    /\ "expired" \in kinds => end <= past.changes + 1 /\ (store'.end = 0 \/ end < store'.end)
\* What a change at a provider leaves as it was.
Changes ==
    /\ user' = user /\ creator' \in Creators /\ sub' \in Subs /\ Sold(sub', invoices')
    /\ invoices' \in Seq(Bills) /\ Len(invoices') >= Len(invoices)
    /\ store' \in Stores /\ store'.end \in {0, store.end, past.changes + 2}
HooksStay ==
    /\ hook' \in [Hooks -> HookStates]
    /\ \A h \in Hooks : hook'[h] = hook[h] \/ HookOk(hook'[h], store', invoices', past'.changes)

LEMMA ChangedDoes ==
    ASSUME PlanInv, NEW top \in Plans, NEW odd \in SUBSET Oddities, S!Changed(top, odd)
    PROVE  past' \in Pasts /\ past'.changes = past.changes + 1
<1> DEFINE most == S!Max({past.top, top})
<1>1. past \in Pasts /\ past.top \in Plans /\ past.changes + 1 \in Nat /\ past.oddities \cup odd \in SUBSET Oddities
  BY TypesAre DEF Pasts
<1>2. most \in Plans
  BY <1>1, TopIs
<1>3. past' = [past EXCEPT !.changes = past.changes + 1, !.top = most, !.oddities = past.oddities \cup odd]
  BY DEF S!Changed, S!Now
<1> HIDE DEF most
<1> QED
  BY <1>1, <1>2, <1>3 DEF Pasts

\* A change at a provider: what it tells is dated now.
LEMMA ChangeKeeps ==
    ASSUME PlanInv, Changes, HooksStay,
           NEW kinds, NEW s, NEW k, NEW p, NEW end, S!Tell(kinds, s, k, p, end), Tellable(kinds, s, k, p, end),
           NEW top \in Plans, NEW odd \in SUBSET Oddities, S!Changed(top, odd)
    PROVE  PlanInv' /\ OthersStand
<1> DEFINE n == past.changes + 1
<1>1. past' \in Pasts /\ past'.changes = n /\ n \in Nat /\ n >= past.changes
  BY ChangedDoes, TypesAre
<1>2. store' \in Stores /\ invoices' \in Seq(Bills) /\ Len(invoices') >= Len(invoices)
  BY DEF Changes
<1>3. store'.end \in {0, store.end} \/ store'.end > past.changes
  BY TypesAre DEF Changes
<1>4. \A e \in Told : Dated(e, store, invoices, past.changes) => Dated(e, store', invoices', past'.changes)
  BY <1>1, <1>2, <1>3, DatedStays
<1>5. \A x \in Subs : Sold(x, invoices) => Sold(x, invoices')
  BY <1>2, TypesAre DEF Sold, Subs
<1>6. \A e \in events' : e \in Told /\ EventOk(e, store', invoices', past'.changes)
  <2> SUFFICES ASSUME NEW e \in events'
               PROVE  e \in Told /\ EventOk(e, store', invoices', past'.changes)
    OBVIOUS
  <2>1. CASE e \in events
    BY <2>1, <1>4 DEF PlanInv, PlanTyped, EventOk
  <2>2. CASE e \notin events
    <3>1. PICK kind \in kinds :
            e = [id |-> <<n, kind>>, kind |-> kind, sub |-> s, invoice |-> k, plan |-> p, end |-> end]
      BY <2>2 DEF S!Tell, S!Now
    <3>2. kind \in Kinds /\ kind \notin {"none", "approve"} /\ s \in Subs /\ k \in Nat /\ p \in Plans /\ end \in Nat
      BY <3>1 DEF Tellable
    <3>3. <<n, kind>> \in Nat \X Kinds
      BY <1>1, <3>2
    <3>4. e \in Told
      BY <3>1, <3>2, <3>3 DEF Told
    <3>5. e.kind = kind /\ e.sub = s /\ e.invoice = k /\ e.end = end
      BY <3>1
    <3>6. Dated(e, store', invoices', past'.changes)
      BY <1>1, <3>1, <3>5 DEF Dated, Tellable
    <3> QED
      BY <3>2, <3>4, <3>5, <3>6 DEF EventOk
  <2> QED
    BY <2>1, <2>2
<1>7. \A h \in Hooks : HookOk(hook'[h], store', invoices', past'.changes)
  <2> SUFFICES ASSUME NEW h \in Hooks, hook'[h] = hook[h]
               PROVE  HookOk(hook'[h], store', invoices', past'.changes)
    BY DEF HooksStay
  <2>1. hook[h].event \in Told /\ hook[h].sub \in Subs
    BY TypesAre DEF HookStates
  <2> QED
    BY <2>1, <1>4, <1>5 DEF PlanInv, HookOk
<1>8. store'.end <= past'.changes + 1
  BY <1>1, TypesAre DEF PlanInv, Changes
<1>9. PlanTyped'
  BY <1>1, <1>6, TypesAre DEF PlanTyped, Changes, HooksStay
<1> QED
  BY <1>6, <1>7, <1>8, <1>9 DEF PlanInv, OthersStand, Changes

LEMMA HooksAlone ==
    ASSUME PlanInv, hook' = hook
    PROVE  HooksStay
BY TypesAre DEF HooksStay

LEMMA BilledIs ==
    ASSUME PlanInv, NEW p \in Plans, NEW paid \in BOOLEAN, invoices' = Append(invoices, S!Bill(p, paid))
    PROVE  /\ invoices' \in Seq(Bills) /\ Len(invoices') = Len(invoices) + 1 /\ Len(invoices') >= Len(invoices)
           /\ Len(invoices) + 1 \in 1..Len(invoices') /\ Len(invoices) + 1 \in Nat
<1>1. S!Bill(p, paid) \in Bills
  BY DEF S!Bill, Bills
<1>2. invoices' \in Seq(Bills) /\ Len(invoices') = Len(invoices) + 1
  BY <1>1, TypesAre
<1> QED
  BY <1>2, TypesAre

-----------------------------------------------------------------------------
(* The changes at the providers.                                            *)

LEMMA CheckoutKeeps ==
    ASSUME PlanInv, NEW p \in S!Paid, S!Checkout(p)
    PROVE  PlanInv' /\ OthersStand
<1> DEFINE kinds == {"checkout", "updated", "paid"}
           odd == S!If(store.plan # S!Free, "excepted")
           k == Len(invoices) + 1
           s == [status |-> "active", price |-> p, paid |-> p, invoice |-> k, cancels |-> FALSE]
<1>1. p \in Plans
  BY PlansAre
<1>2. /\ invoices' = Append(invoices, S!Bill(p, TRUE)) /\ sub' = s /\ S!Tell(kinds, s, k, p, 0)
      /\ S!Changed(p, odd) /\ UNCHANGED <<user, store, creator, seen, hook>>
  BY DEF S!Checkout, S!Bills
<1>3. invoices' \in Seq(Bills) /\ Len(invoices') >= Len(invoices) /\ k \in 1..Len(invoices') /\ k \in Nat
  BY <1>1, <1>2, BilledIs
<1>4. s \in Subs /\ s.invoice = k /\ s.status = "active"
  BY <1>1, <1>3 DEF Subs
<1>5. odd \in SUBSET Oddities
  BY OddIs DEF Oddities
<1>6. kinds \subseteq Kinds \ {"none", "approve"} /\ {"granted", "grace", "expired"} \cap kinds = {}
  BY DEF Kinds
<1> HIDE DEF kinds, odd, k, s
<1>7. Sold(s, invoices')
  BY <1>3, <1>4 DEF Sold
<1>8. Tellable(kinds, s, k, p, 0)
  BY <1>1, <1>3, <1>4, <1>6, <1>7 DEF Tellable
<1>9. Changes
  BY <1>2, <1>3, <1>4, <1>7, TypesAre DEF Changes
<1> QED
  BY <1>1, <1>2, <1>5, <1>8, <1>9, HooksAlone, ChangeKeeps

LEMMA UpgradeKeeps ==
    ASSUME PlanInv, NEW settled \in BOOLEAN, NEW named \in BOOLEAN, S!Upgrade(settled, named)
    PROVE  PlanInv' /\ OthersStand
<1> DEFINE kind == IF settled THEN "paid" ELSE "failed"
           bill == IF named THEN S!Scale ELSE S!Free
           k == Len(invoices) + 1
<1>1. bill \in Plans /\ S!Scale \in Plans /\ S!Free \in Plans /\ {"updated", kind} \subseteq Kinds \ {"none", "approve"}
      /\ {"granted", "grace", "expired"} \cap {"updated", kind} = {}
  BY PlansAre DEF Kinds
<1>2. /\ invoices' = Append(invoices, S!Bill(bill, settled)) /\ S!Tell({"updated", kind}, sub', k, S!Free, 0)
      /\ S!Changed(sub'.paid, {}) /\ UNCHANGED <<user, store, creator, seen, hook>>
  BY DEF S!Upgrade, S!Bills
<1>3. PICK state \in {"active", "past_due"}, due \in Plans :
        sub' = [sub EXCEPT !.price = S!Scale, !.invoice = k, !.status = state, !.paid = due]
  <2>1. PICK state \in IF settled THEN {"active"} ELSE S!Entitled :
          sub' = [sub EXCEPT !.price = S!Scale, !.invoice = k, !.status = state, !.paid = IF settled THEN S!Scale ELSE sub.paid]
    BY DEF S!Upgrade, S!Bills
  <2>2. state \in {"active", "past_due"}
    BY <2>1 DEF S!Entitled
  <2> QED
    BY <1>1, <2>1, <2>2, TypesAre
<1>4. invoices' \in Seq(Bills) /\ Len(invoices') >= Len(invoices) /\ k \in 1..Len(invoices') /\ k \in Nat
  <2> HIDE DEF bill
  <2> QED
    BY <1>1, <1>2, BilledIs
<1> HIDE DEF kind, bill, k
<1>5. sub' \in Subs /\ sub'.invoice = k /\ sub'.status # "none" /\ sub'.paid \in Plans
  BY <1>1, <1>3, <1>4, TypesAre DEF Subs
<1> DEFINE kinds == {"updated", kind}
           s == sub'
           most == sub'.paid
<1>7. Sold(s, invoices')
  BY <1>4, <1>5 DEF Sold
<1>8. Tellable(kinds, s, k, S!Free, 0)
  BY <1>1, <1>4, <1>5, <1>7 DEF Tellable
<1>9. Changes
  BY <1>2, <1>4, <1>5, <1>7, TypesAre DEF Changes
<1>10. S!Tell(kinds, s, k, S!Free, 0) /\ S!Changed(most, {}) /\ most \in Plans /\ {} \in SUBSET Oddities /\ HooksStay
  BY <1>2, <1>5, HooksAlone
<1> HIDE DEF kinds, s, most
<1> QED
  BY <1>8, <1>9, <1>10, ChangeKeeps

\* A bill of the current price: the next plan, or a renewal that fails.
LEMMA BilledKeeps ==
    ASSUME PlanInv, S!Downgrade \/ S!RenewalFails
    PROVE  PlanInv' /\ OthersStand
<1> DEFINE k == Len(invoices) + 1
<1>1. S!Pro \in Plans /\ S!Free \in Plans
  BY PlansAre
<1>2. \E q \in Plans, paid \in BOOLEAN, kind \in {"paid", "failed"}, top \in Plans, state \in {"active", "past_due"}, price \in Plans, due \in Plans :
        /\ invoices' = Append(invoices, S!Bill(q, paid)) /\ S!Tell({"updated", kind}, sub', k, S!Free, 0)
        /\ S!Changed(top, {}) /\ sub' = [sub EXCEPT !.status = state, !.price = price, !.paid = due, !.invoice = k]
        /\ UNCHANGED <<user, store, creator, seen, hook>>
  <2>1. CASE S!Downgrade
    <3>1. /\ invoices' = Append(invoices, S!Bill(S!Pro, TRUE)) /\ S!Tell({"updated", "paid"}, sub', k, S!Free, 0)
          /\ S!Changed(S!Pro, {}) /\ sub' = [sub EXCEPT !.price = S!Pro, !.paid = S!Pro, !.invoice = k]
          /\ sub.status = "active" /\ UNCHANGED <<user, store, creator, seen, hook>>
      BY <2>1 DEF S!Downgrade, S!Bills
    <3>2. sub' = [sub EXCEPT !.status = "active", !.price = S!Pro, !.paid = S!Pro, !.invoice = k]
      BY <3>1, TypesAre DEF Subs
    <3> QED
      BY <1>1, <3>1, <3>2
  <2>2. CASE S!RenewalFails
    <3>1. /\ invoices' = Append(invoices, S!Bill(sub.price, FALSE)) /\ S!Tell({"updated", "failed"}, sub', k, S!Free, 0)
          /\ S!Changed(S!Free, {}) /\ sub' = [sub EXCEPT !.status = "past_due", !.invoice = k]
          /\ UNCHANGED <<user, store, creator, seen, hook>>
      BY <2>2 DEF S!RenewalFails, S!Bills
    <3>2. sub' = [sub EXCEPT !.status = "past_due", !.price = sub.price, !.paid = sub.paid, !.invoice = k]
      BY <3>1, TypesAre DEF Subs
    <3> QED
      BY <1>1, <3>1, <3>2, TypesAre
  <2> QED
    BY <2>1, <2>2
<1>3. PICK q \in Plans, paid \in BOOLEAN, kind \in {"paid", "failed"}, top \in Plans, state \in {"active", "past_due"}, price \in Plans, due \in Plans :
        /\ invoices' = Append(invoices, S!Bill(q, paid)) /\ S!Tell({"updated", kind}, sub', k, S!Free, 0)
        /\ S!Changed(top, {}) /\ sub' = [sub EXCEPT !.status = state, !.price = price, !.paid = due, !.invoice = k]
        /\ UNCHANGED <<user, store, creator, seen, hook>>
  BY <1>2
<1>4. invoices' \in Seq(Bills) /\ Len(invoices') >= Len(invoices) /\ k \in 1..Len(invoices') /\ k \in Nat
  BY <1>3, BilledIs
<1> HIDE DEF k
<1>5. sub' \in Subs /\ sub'.invoice = k /\ sub'.status # "none"
  BY <1>3, <1>4, TypesAre DEF Subs
<1> DEFINE kinds == {"updated", kind}
           s == sub'
<1>6. kinds \subseteq Kinds \ {"none", "approve"} /\ {"granted", "grace", "expired"} \cap kinds = {}
  BY DEF Kinds
<1>7. Sold(s, invoices')
  BY <1>4, <1>5 DEF Sold
<1>8. Tellable(kinds, s, k, S!Free, 0)
  BY <1>1, <1>4, <1>5, <1>6, <1>7 DEF Tellable
<1>9. Changes
  BY <1>3, <1>4, <1>5, <1>7, TypesAre DEF Changes
<1>10. S!Tell(kinds, s, k, S!Free, 0) /\ S!Changed(top, {}) /\ {} \in SUBSET Oddities /\ HooksStay
  BY <1>3, HooksAlone
<1> HIDE DEF kinds, s
<1> QED
  BY <1>8, <1>9, <1>10, ChangeKeeps

LEMMA PayKeeps ==
    ASSUME PlanInv, S!Pay
    PROVE  PlanInv' /\ OthersStand
<1> DEFINE kinds == {"updated", "paid"}
           k == sub.invoice
           bill == [invoices[k] EXCEPT !.settled = TRUE]
<1>1. k \in 1..Len(invoices) /\ sub.status # "none"
  BY DEF S!Pay, S!Live, PlanInv, Sold
<1>2. /\ invoices' = [invoices EXCEPT ![k] = bill]
      /\ sub' = [sub EXCEPT !.status = "active", !.paid = sub.price]
      /\ S!Tell(kinds, sub', k, S!Free, 0) /\ S!Changed(sub.price, {})
      /\ UNCHANGED <<user, store, creator, seen, hook>>
  BY DEF S!Pay
<1>3. bill \in Bills
  BY <1>1, TypesAre DEF Bills
<1>4. kinds \subseteq Kinds \ {"none", "approve"} /\ {"granted", "grace", "expired"} \cap kinds = {}
  BY DEF Kinds
<1> HIDE DEF bill, k, kinds
<1>5. invoices' \in Seq(Bills) /\ Len(invoices') = Len(invoices)
  BY <1>1, <1>2, <1>3, TypesAre
<1>6. sub' \in Subs /\ sub'.invoice = k /\ sub'.status # "none" /\ k \in Nat
  BY <1>2, TypesAre DEF Subs, k
<1>7. Sold(sub', invoices')
  BY <1>1, <1>5, <1>6 DEF Sold
<1>8. Tellable(kinds, sub', k, S!Free, 0)
  BY <1>1, <1>4, <1>5, <1>6, <1>7, PlansAre DEF Tellable
<1>9. Changes
  BY <1>2, <1>5, <1>6, <1>7, TypesAre DEF Changes
<1> DEFINE s == sub'
<1>10. S!Tell(kinds, s, k, S!Free, 0) /\ Tellable(kinds, s, k, S!Free, 0) /\ S!Changed(sub.price, {}) /\ {} \in SUBSET Oddities /\ HooksStay
  BY <1>2, <1>8, HooksAlone
<1> HIDE DEF s
<1> QED
  BY <1>9, <1>10, TypesAre, ChangeKeeps

LEMMA SubKeeps ==
    ASSUME PlanInv, S!RetriesOver \/ S!ScheduleCancellation \/ S!EndSubscription
    PROVE  PlanInv' /\ OthersStand
<1>1. PICK kind \in {"updated", "cancels", "deleted"} : S!Tell({kind}, sub', 0, S!Free, 0)
  BY DEF S!RetriesOver, S!ScheduleCancellation, S!EndSubscription
<1>2. S!Changed(S!Free, {}) /\ UNCHANGED <<user, invoices, store, creator, seen, hook>>
  BY DEF S!RetriesOver, S!ScheduleCancellation, S!EndSubscription
<1>3. sub' \in Subs /\ sub'.invoice = sub.invoice /\ sub.status # "none" /\ sub'.status # "none"
  <2>1. CASE S!RetriesOver
    BY <2>1, TypesAre DEF S!RetriesOver, Subs
  <2>2. CASE S!ScheduleCancellation
    BY <2>2, TypesAre DEF S!ScheduleCancellation, Subs, S!Entitled
  <2>3. CASE S!EndSubscription
    BY <2>3, TypesAre, PlansAre DEF S!EndSubscription, Subs, S!Live
  <2> QED
    BY <2>1, <2>2, <2>3
<1> DEFINE kinds == {kind}
           s == sub'
<1>4. kinds \subseteq Kinds \ {"none", "approve"} /\ {"paid", "failed", "granted", "grace", "expired"} \cap kinds = {}
  BY DEF Kinds
<1>5. Sold(s, invoices')
  BY <1>2, <1>3 DEF Sold, PlanInv
<1>6. Tellable(kinds, s, 0, S!Free, 0)
  BY <1>3, <1>4, <1>5, PlansAre DEF Tellable
<1>7. Changes
  BY <1>2, <1>3, <1>5, TypesAre DEF Changes
<1>8. S!Tell(kinds, s, 0, S!Free, 0) /\ {} \in SUBSET Oddities /\ HooksStay /\ S!Free \in Plans
  BY <1>1, <1>2, HooksAlone, PlansAre
<1> HIDE DEF kinds, s
<1> QED
  BY <1>2, <1>6, <1>7, <1>8, ChangeKeeps

\* The store sells a period that ends later than any before, or has none to sell.
LEMMA StoreKeeps ==
    ASSUME PlanInv, NEW kind \in {"granted", "grace", "issue", "expired", "transferred"}, NEW p \in Plans, NEW end \in Nat,
           NEW top \in Plans, NEW odd \in SUBSET Oddities, S!Tell({kind}, S!NoSub, 0, p, end), S!Changed(top, odd),
           kind \in {"granted", "grace"} => end > 0,
           kind = "expired" => end <= past.changes + 1 /\ store'.end = 0,
           store' \in Stores, store'.end \in {0, store.end, past.changes + 2},
           UNCHANGED <<user, sub, invoices, creator, seen, hook>>
    PROVE  PlanInv' /\ OthersStand
<1> DEFINE kinds == {kind}
           s == S!NoSub
<1>1. kinds \subseteq Kinds \ {"none", "approve"} /\ {"paid", "failed"} \cap kinds = {}
  BY DEF Kinds
<1>2. s \in Subs /\ Sold(s, invoices')
  BY NothingIs DEF Sold
<1>3. Tellable(kinds, s, 0, p, end)
  BY <1>1, <1>2 DEF Tellable
<1>4. Changes
  BY TypesAre DEF Changes, PlanInv
<1>5. S!Tell(kinds, s, 0, p, end) /\ HooksStay
  BY HooksAlone
<1> HIDE DEF kinds, s
<1> QED
  BY <1>3, <1>4, <1>5, ChangeKeeps

LEMMA StoreGrantsKeeps ==
    ASSUME PlanInv, NEW p \in S!Paid, S!StoreGrants(p)
    PROVE  PlanInv' /\ OthersStand
<1> DEFINE odd == S!If(S!Live(sub), "excepted")
           end == past.changes + 2
<1>1. p \in Plans /\ end \in Nat /\ end > 0 /\ past.changes + 1 + 1 = end
  BY PlansAre, TypesAre
<1>2. odd \in SUBSET Oddities
  BY OddIs DEF Oddities
<1>3. /\ store' = [plan |-> p, end |-> end] /\ S!Tell({"granted"}, S!NoSub, 0, p, end) /\ S!Changed(p, odd)
      /\ UNCHANGED <<user, sub, invoices, creator, seen, hook>>
  BY <1>1 DEF S!StoreGrants, S!Now
<1> HIDE DEF odd
<1>4. store' \in Stores /\ store'.end = end
  BY <1>1, <1>3 DEF Stores
<1> QED
  BY <1>1, <1>2, <1>3, <1>4, StoreKeeps

LEMMA StoreCannotBillKeeps ==
    ASSUME PlanInv, NEW grace \in BOOLEAN, S!StoreCannotBill(grace)
    PROVE  PlanInv' /\ OthersStand
<1> DEFINE kind == IF grace THEN "grace" ELSE "issue"
           end == past.changes + 2
<1>1. S!Free \in Plans /\ end \in Nat /\ end > 0 /\ past.changes + 1 + 1 = end /\ {} \in SUBSET Oddities
  BY PlansAre, TypesAre
<1>2. kind \in {"granted", "grace", "issue", "expired", "transferred"} /\ kind # "expired"
  OBVIOUS
<1>3. /\ store' = IF grace THEN [store EXCEPT !.end = end] ELSE store
      /\ S!Tell({kind}, S!NoSub, 0, S!Free, end) /\ S!Changed(S!Free, {})
      /\ UNCHANGED <<user, sub, invoices, creator, seen, hook>>
  BY <1>1 DEF S!StoreCannotBill, S!Now
<1>4. store' \in Stores /\ store'.end \in {store.end, end}
  BY <1>1, <1>3, TypesAre DEF Stores
<1> HIDE DEF kind
<1> QED
  BY <1>1, <1>2, <1>3, <1>4, StoreKeeps

LEMMA StoreEndsKeeps ==
    ASSUME PlanInv, NEW kind \in {"expired", "transferred"}, S!StoreEnds(kind)
    PROVE  PlanInv' /\ OthersStand
<1>1. S!Free \in Plans /\ store.end \in Nat /\ {} \in SUBSET Oddities /\ store.end <= past.changes + 1
  BY PlansAre, TypesAre DEF PlanInv
<1>2. /\ store' = S!NoStore /\ S!Tell({kind}, S!NoSub, 0, S!Free, store.end) /\ S!Changed(S!Free, {})
      /\ UNCHANGED <<user, sub, invoices, creator, seen, hook>>
  BY DEF S!StoreEnds
<1> QED
  BY <1>1, <1>2, NothingIs, StoreKeeps

-----------------------------------------------------------------------------
(* The handlers.                                                            *)

LEMMA HandlerKeeps ==
    ASSUME PlanInv, UNCHANGED <<sub, invoices, store, creator>>, events' \subseteq events,
           past' \in Pasts, past'.changes = past.changes, user' \in Users, user'.provider = "apple" => user'.end > 0,
           HooksStay
    PROVE  PlanInv'
<1>1. PlanTyped'
  BY DEF PlanInv, PlanTyped, HooksStay
<1>2. \A h \in Hooks : HookOk(hook'[h], store', invoices', past'.changes)
  BY DEF PlanInv, HooksStay
<1> QED
  BY <1>1, <1>2 DEF PlanInv

\* A handler goes on to r.
LEMMA HookBecomes ==
    ASSUME PlanInv, NEW h \in Hooks, NEW r \in HookStates, HookOk(r, store', invoices', past'.changes),
           hook' = [hook EXCEPT ![h] = r]
    PROVE  HooksStay
BY TypesAre DEF HooksStay

LEMMA HookEnds ==
    ASSUME PlanInv, NEW h \in Hooks, hook' = [hook EXCEPT ![h] = S!Rest]
    PROVE  HooksStay
BY HookBecomes, RestOk, NothingIs

\* A handler with its event at a step that fits it.
LEMMA HookGoes ==
    ASSUME PlanInv, NEW h \in Hooks, S!Goes(h, "restore") \/ S!Goes(h, "mail") \/ S!Goes(h, "grant"),
           UNCHANGED <<store, invoices>>, past'.changes = past.changes
    PROVE  HooksStay
<1>1. PICK at \in {"restore", "mail", "grant"} : hook' = [hook EXCEPT ![h] = [hook[h] EXCEPT !.at = at]]
  BY TypesAre DEF S!Goes
<1> DEFINE r == [hook[h] EXCEPT !.at = at]
<1>2. hook[h] \in HookStates
  BY TypesAre
<1>3. r \in HookStates /\ r.at = at /\ r.event = hook[h].event /\ r.sub = hook[h].sub
  BY <1>2 DEF HookStates
<1>4. HookOk(hook[h], store', invoices', past'.changes)
  BY DEF PlanInv
<1>5. hook' = [hook EXCEPT ![h] = r]
  BY <1>1
<1> HIDE DEF r
<1>6. HookOk(r, store', invoices', past'.changes)
  BY <1>3, <1>4 DEF HookOk, Handled
<1> QED
  BY <1>3, <1>5, <1>6, HookBecomes

\* What else a handler notes of the past.
LEMMA NotesAre ==
    ASSUME PlanInv, NEW odd \in SUBSET Oddities, past' = [past EXCEPT !.oddities = odd]
    PROVE  past' \in Pasts /\ past'.changes = past.changes
BY TypesAre DEF Pasts

LEMMA BeganIs ==
    ASSUME PlanInv, NEW n, S!Began(n)
    PROVE  past' \in Pasts /\ past'.changes = past.changes
<1> DEFINE odd == past.oddities \cup S!If(S!Overtakes(n), "excepted")
<1>1. odd \in SUBSET Oddities
  BY TypesAre, OddIs DEF Pasts, Oddities
<1>2. past' = [past EXCEPT !.oddities = odd]
  BY DEF S!Began
<1> HIDE DEF odd
<1> QED
  BY <1>1, <1>2, NotesAre

LEMMA ReceiveKeeps ==
    ASSUME PlanInv, NEW h \in Hooks, NEW e \in events, S!Receive(h, e)
    PROVE  PlanInv' /\ OthersStand
<1> DEFINE r == [S!Rest EXCEPT !.at = S!Opens(e.kind), !.event = e, !.sub = e.sub]
<1>1. e \in Told /\ EventOk(e, store, invoices, past.changes)
  BY DEF PlanInv, PlanTyped
<1>2. hook' = [hook EXCEPT ![h] = r] /\ S!Began(e.id[1]) /\ UNCHANGED <<user, sub, invoices, store, creator, events>>
  BY DEF S!Receive
<1>3. past' \in Pasts /\ past'.changes = past.changes
  BY <1>2, BeganIs
<1>4. e.kind \in Kinds /\ e.sub \in Subs
  BY <1>1 DEF Told
<1>5. /\ S!Opens(e.kind) \in {"live", "read", "write"}
      /\ S!Opens(e.kind) = "live" => e.kind \in {"cancels", "checkout", "summary"}
      /\ S!Opens(e.kind) = "read" => e.kind \in {"updated", "paid", "failed"}
  BY <1>4 DEF S!Opens
<1>6. r \in HookStates /\ r.at = S!Opens(e.kind) /\ r.event = e /\ r.sub = e.sub
  BY <1>1, <1>4, <1>5, NothingIs DEF HookStates
<1> HIDE DEF r
<1>7. HookOk(r, store', invoices', past'.changes)
  BY <1>1, <1>2, <1>3, <1>5, <1>6 DEF HookOk, EventOk, Handled, Dated
<1>8. HooksStay
  BY <1>2, <1>6, <1>7, HookBecomes
<1> QED
  BY <1>2, <1>3, <1>8, HandlerKeeps, TypesAre DEF OthersStand, PlanInv

LEMMA RepeatKeeps ==
    ASSUME PlanInv, NEW e \in events, S!Repeat(e)
    PROVE  PlanInv' /\ OthersStand
<1>1. events' \subseteq events /\ UNCHANGED <<user, sub, invoices, store, creator, hook, past>>
  BY DEF S!Repeat
<1> QED
  BY <1>1, HooksAlone, HandlerKeeps, TypesAre DEF OthersStand, PlanInv

LEMMA RetrieveKeeps ==
    ASSUME PlanInv, NEW h \in Hooks, S!Retrieve(h)
    PROVE  PlanInv' /\ OthersStand
<1> DEFINE at == IF hook[h].event.kind = "cancels" THEN "read" ELSE "write"
           r == [hook[h] EXCEPT !.sub = sub, !.at = at]
<1>1. hook[h] \in HookStates /\ HookOk(hook[h], store, invoices, past.changes) /\ hook[h].event.kind \in {"cancels", "checkout", "summary"}
  BY TypesAre DEF PlanInv, HookOk, Handled, S!Retrieve
<1>2. UNCHANGED <<sub, invoices, store, creator, events, past>>
  BY DEF S!Retrieve
<1>3. hook' = [hook EXCEPT ![h] = r]
  BY TypesAre DEF S!Retrieve
<1>4. at \in {"read", "write"} /\ (at = "read" => hook[h].event.kind = "cancels")
  OBVIOUS
<1>5. r \in HookStates /\ r.at = at /\ r.event = hook[h].event /\ r.sub = sub
  BY <1>1, <1>4, TypesAre DEF HookStates
<1>6. user' \in Users /\ user'.provider = user.provider /\ user'.end = user.end
  BY TypesAre DEF S!Retrieve, Users
<1> HIDE DEF r, at
<1>7. HookOk(r, store', invoices', past'.changes)
  BY <1>1, <1>2, <1>4, <1>5 DEF HookOk, Handled, PlanInv
<1>8. HooksStay
  BY <1>3, <1>5, <1>7, HookBecomes
<1> QED
  BY <1>2, <1>6, <1>8, HandlerKeeps, TypesAre DEF OthersStand, PlanInv

LEMMA ReadRowKeeps ==
    ASSUME PlanInv, NEW h \in Hooks, S!ReadRow(h)
    PROVE  PlanInv' /\ OthersStand
<1> DEFINE asks == S!Syncs(hook[h].event.kind) /\ hook[h].sub.price > user.plan
           at == IF asks THEN "ask" ELSE "write"
           r == [hook[h] EXCEPT !.row = user, !.at = at]
<1>1. hook[h] \in HookStates /\ HookOk(hook[h], store, invoices, past.changes)
      /\ hook[h].event.kind \in {"updated", "paid", "failed", "cancels", "resume"}
  BY TypesAre DEF PlanInv, HookOk, Handled, S!ReadRow
<1>2. UNCHANGED <<user, sub, invoices, store, creator, events, past>>
  BY DEF S!ReadRow
<1>3. hook' = [hook EXCEPT ![h] = r]
  BY TypesAre DEF S!ReadRow
<1>4. at \in {"ask", "write"} /\ (at = "ask" => hook[h].sub.price > 0)
  <2>1. hook[h].sub.price \in Plans /\ user.plan \in Plans
    BY <1>1, TypesAre DEF HookStates, Subs
  <2> QED
    BY <2>1, PlansAre
<1>5. r \in HookStates /\ r.at = at /\ r.event = hook[h].event /\ r.sub = hook[h].sub
  BY <1>1, <1>4, TypesAre DEF HookStates
<1> HIDE DEF r, at
<1>7. HookOk(r, store', invoices', past'.changes)
  BY <1>1, <1>2, <1>4, <1>5 DEF HookOk, Handled
<1>8. HooksStay
  BY <1>3, <1>5, <1>7, HookBecomes
<1> QED
  BY <1>2, <1>8, HandlerKeeps, TypesAre DEF OthersStand, PlanInv

LEMMA ResolveInvoiceKeeps ==
    ASSUME PlanInv, NEW h \in Hooks, S!ResolveInvoice(h)
    PROVE  PlanInv' /\ OthersStand
<1> DEFINE settled == invoices[hook[h].sub.invoice].settled
           r == [hook[h] EXCEPT !.settled = settled, !.at = "write"]
<1>1. hook[h] \in HookStates /\ HookOk(hook[h], store, invoices, past.changes) /\ hook[h].at = "ask"
  BY TypesAre DEF PlanInv, S!ResolveInvoice
<1>2. UNCHANGED <<user, sub, invoices, store, creator, events, past>>
  BY DEF S!ResolveInvoice
<1>3. hook' = [hook EXCEPT ![h] = r]
  BY TypesAre DEF S!ResolveInvoice
<1>4. settled \in BOOLEAN
  <2>1. hook[h].sub.invoice \in 1..Len(invoices)
    BY <1>1, PlansAre DEF HookOk, Handled, Sold
  <2> QED
    BY <2>1, TypesAre DEF Bills
<1> HIDE DEF settled
<1>5. r \in HookStates /\ r.at = "write" /\ r.event = hook[h].event /\ r.sub = hook[h].sub
  BY <1>1, <1>4 DEF HookStates
<1> HIDE DEF r
<1>7. HookOk(r, store', invoices', past'.changes)
  BY <1>1, <1>2, <1>5 DEF HookOk, Handled
<1>8. HooksStay
  BY <1>3, <1>5, <1>7, HookBecomes
<1> QED
  BY <1>2, <1>8, HandlerKeeps, TypesAre DEF OthersStand, PlanInv

-----------------------------------------------------------------------------
(* What a handler writes.                                                   *)

LEMMA StripeIs ==
    ASSUME PlanInv, NEW r, NEW p \in Plans, NEW state \in {"none", "active", "past_due", "unpaid", "canceled"},
           p \in S!Paid \/ S!StripeOwns(user)
    PROVE  Stands(S!StripeUser(p, state), r)
<1>1. S!StripeUser(p, state) \in Users /\ S!StripeUser(p, state).provider = "stripe" /\ S!StripeUser(p, state).plan = p
  BY NothingIs DEF S!StripeUser, Users
<1> QED
  BY <1>1 DEF Stands, S!StripeOwns

LEMMA SameIs ==
    ASSUME PlanInv, NEW r
    PROVE  Stands(user, r)
BY TypesAre DEF Stands, PlanInv

LEMMA UpsertIs ==
    ASSUME PlanInv, NEW r, NEW s \in Subs, NEW p \in Plans
    PROVE  Stands(S!Upsert(s, p), r)
<1>1. s.status \in {"none", "active", "past_due", "unpaid", "canceled"}
  BY DEF Subs
<1>2. CASE p \in S!Paid \/ S!StripeOwns(user)
  BY <1>1, <1>2, StripeIs DEF S!Upsert
<1>3. CASE ~(p \in S!Paid \/ S!StripeOwns(user))
  BY <1>3, SameIs DEF S!Upsert
<1> QED
  BY <1>2, <1>3

LEMMA SyncIs ==
    ASSUME PlanInv, NEW r \in HookStates
    PROVE  Stands(S!Sync(r), r)
<1>1. r.sub \in Subs /\ r.sub.price \in Plans /\ S!PaidPlan(r.sub) \in Plans /\ r.row.plan \in Plans
      /\ r.sub.status \in {"none", "active", "past_due", "unpaid", "canceled"} /\ r.sub.invoice \in Nat
  BY PlansAre DEF HookStates, Subs, Users, S!PaidPlan
<1> DEFINE waits == user.plan = r.row.plan /\ S!StripeOwns(user) /\ S!StripeOwns(r.row)
           state == IF r.row.plan # S!Free /\ r.sub.status \notin S!Entitled THEN "past_due" ELSE r.sub.status
           noted == [S!StripeUser(r.row.plan, state) EXCEPT !.pending = r.sub.price, !.invoice = r.sub.invoice]
<1>2. S!Sync(r) \in {S!Upsert(r.sub, S!PaidPlan(r.sub)), S!Upsert(r.sub, r.sub.price), user} \/ (waits /\ S!Sync(r) = noted)
  BY DEF S!Sync
<1>3. state \in {"none", "active", "past_due", "unpaid", "canceled"}
  BY <1>1
<1> HIDE DEF state
<1>4. ASSUME waits
      PROVE  Stands(noted, r)
  <2>1. S!StripeUser(r.row.plan, state) \in Users /\ S!StripeUser(r.row.plan, state).provider = "stripe"
    BY <1>1, <1>3, NothingIs DEF S!StripeUser, Users
  <2>2. noted \in Users /\ noted.provider = "stripe"
    BY <1>1, <2>1 DEF Users
  <2> HIDE DEF noted
  <2> QED
    BY <2>2, <1>4 DEF Stands, S!StripeOwns
<1>5. Stands(S!Upsert(r.sub, S!PaidPlan(r.sub)), r) /\ Stands(S!Upsert(r.sub, r.sub.price), r)
  BY <1>1, UpsertIs
<1> HIDE DEF waits, noted
<1> QED
  BY <1>2, <1>4, <1>5, SameIs

LEMMA HigherIs ==
    ASSUME PlanInv, NEW r \in HookStates, r.event.invoice \in 1..Len(invoices)
    PROVE  S!HigherPlan(r) \in Plans
<1>1. invoices[r.event.invoice].plan \in Plans /\ r.row.pending \in Plans
  BY TypesAre DEF Bills, HookStates, Users
<1> QED
  BY <1>1, PlansAre DEF S!HigherPlan

LEMMA PaidInvoiceIs ==
    ASSUME PlanInv, NEW r \in HookStates, r.event.invoice \in 1..Len(invoices)
    PROVE  Stands(S!PaidInvoice(r), r)
<1> DEFINE done == [user EXCEPT !.pending = S!Free, !.invoice = 0]
<1>1. S!HigherPlan(r) \in Plans
  BY HigherIs
<1>2. done \in Users /\ done.provider = user.provider /\ done.plan = user.plan /\ done.end = user.end
  BY TypesAre, PlansAre DEF Users
<1>3. Stands(done, r)
  <2> HIDE DEF done
  <2> QED
    BY <1>2 DEF Stands, PlanInv
<1>4. S!HigherPlan(r) # S!Free => Stands(S!StripeUser(S!HigherPlan(r), "active"), r)
  BY <1>1, StripeIs, PlansAre
<1>5. S!PaidInvoice(r) \in {user, done} \/ (S!HigherPlan(r) # S!Free /\ S!PaidInvoice(r) = S!StripeUser(S!HigherPlan(r), "active"))
  BY DEF S!PaidInvoice
<1> HIDE DEF done
<1> QED
  BY <1>3, <1>4, <1>5, SameIs

LEMMA FailedInvoiceIs ==
    ASSUME PlanInv, NEW r \in HookStates, r.event.invoice \in 1..Len(invoices)
    PROVE  Stands(S!FailedInvoice(r), r)
<1> DEFINE noted == [user EXCEPT !.pending = S!HigherPlan(r), !.invoice = r.event.invoice]
<1>1. S!HigherPlan(r) \in Plans /\ r.event.invoice \in Nat
  BY HigherIs, TypesAre
<1>2. noted \in Users /\ noted.provider = user.provider /\ noted.plan = user.plan /\ noted.end = user.end
  BY <1>1, TypesAre DEF Users
<1>3. S!FailedInvoice(r) \in {user, noted}
  BY DEF S!FailedInvoice
<1> HIDE DEF noted
<1>4. Stands(noted, r)
  BY <1>2 DEF Stands, PlanInv
<1> QED
  BY <1>3, <1>4, SameIs

LEMMA DeletedIs ==
    ASSUME PlanInv, NEW r
    PROVE  Stands(S!Deleted, r)
<1> DEFINE gone == [S!FreeUser EXCEPT !.status = "canceled", !.pending = user.pending, !.invoice = user.invoice]
<1>1. user.pending \in Plans /\ user.invoice \in Nat
  BY TypesAre DEF Users
<1>2. gone \in Users /\ gone.provider = "none"
  BY <1>1, NothingIs DEF Users
<1>3. S!Deleted = IF S!StripeOwns(user) THEN gone ELSE user
  BY DEF S!Deleted
<1> HIDE DEF gone
<1> QED
  BY <1>2, <1>3, SameIs DEF Stands, S!StripeOwns

\* An expiration that ends the period in the row is not the store's: that period is older.
LEMMA StoreEndedIs ==
    ASSUME PlanInv, NEW r, NEW h \in Hooks, r = hook[h], r.event.kind \in {"expired", "transferred"}
    PROVE  Stands(S!StoreEnded(r.event), r)
<1> DEFINE e == r.event
           gone == [user EXCEPT !.plan = S!Free, !.status = "inactive", !.provider = "none", !.end = 0]
<1>1. e \in Told /\ Dated(e, store, invoices, past.changes) /\ e.end \in Nat /\ user.end \in Nat /\ store.end \in Nat
  BY TypesAre DEF PlanInv, HookOk, HookStates, Told, Users
<1>2. gone \in Users /\ gone.provider = "none"
  BY TypesAre, PlansAre DEF Users
<1>3. S!StoreEnded(e) = IF S!Expires(e) THEN gone ELSE user
  BY DEF S!StoreEnded
<1>4. S!Expires(e) /\ e.kind = "expired" => user.end > 0 /\ user.end <= e.end /\ (store.end = 0 \/ e.end < store.end)
  BY <1>1 DEF S!Expires, Dated, PlanInv
<1>5. S!Expires(e) /\ e.kind = "expired" => user.end # store.end
  BY <1>1, <1>4
<1> HIDE DEF gone
<1>6. S!Expires(e) => Stands(gone, r)
  BY <1>2, <1>5 DEF Stands
<1> QED
  BY <1>3, <1>6, SameIs

LEMMA StoreWritesIs ==
    ASSUME PlanInv, NEW r \in HookStates,
           r.event.kind \in {"granted", "grace"} => r.event.end > 0
    PROVE  /\ r.event.kind = "granted" => Stands(S!Granted(r.event), r)
           /\ r.event.kind = "grace" => Stands(S!Grace(r.event), r)
           /\ Stands(S!Issue, r) /\ Stands(S!Revoked, r)
<1> DEFINE e == r.event
           granted == [user EXCEPT !.plan = e.plan, !.status = "active", !.provider = "apple", !.end = e.end]
           longer == [user EXCEPT !.end = e.end]
           due == [user EXCEPT !.status = "past_due"]
           none == [user EXCEPT !.plan = S!Free, !.status = "inactive", !.provider = "none"]
<1>1. e.plan \in Plans /\ e.end \in Nat
  BY DEF HookStates, Told
<1>2. granted \in Users /\ granted.provider = "apple" /\ granted.end = e.end
  BY <1>1, TypesAre DEF Users
<1>3. longer \in Users /\ longer.provider = user.provider /\ longer.end = e.end
  BY <1>1, TypesAre DEF Users
<1>4. due \in Users /\ due.provider = user.provider /\ due.end = user.end
  BY TypesAre DEF Users
<1>5. none \in Users /\ none.provider = "none"
  BY PlansAre, TypesAre DEF Users
<1>6. S!Granted(e) = granted /\ S!Grace(e) = (IF user.provider = "apple" THEN longer ELSE user)
      /\ S!Issue = (IF user.provider = "apple" THEN due ELSE user)
      /\ S!Revoked = (IF user.provider = "affiliate" THEN none ELSE user)
  BY DEF S!Granted, S!Grace, S!Issue, S!Revoked
<1> HIDE DEF granted, longer, due, none
<1>7. e.kind = "granted" => Stands(granted, r)
  BY <1>2 DEF Stands
<1>8. e.kind = "grace" /\ user.provider = "apple" => Stands(longer, r)
  BY <1>3 DEF Stands
<1>9. user.provider = "apple" => Stands(due, r)
  BY <1>4 DEF Stands, PlanInv
<1>10. user.provider = "affiliate" => Stands(none, r)
  BY <1>5 DEF Stands
<1> QED
  BY <1>6, <1>7, <1>8, <1>9, <1>10, SameIs

LEMMA WrittenIs ==
    ASSUME PlanInv, NEW h \in Hooks, hook[h].at = "write"
    PROVE  Stands(S!Written(hook[h]), hook[h])
<1> DEFINE r == hook[h]
           kind == r.event.kind
<1>1. r \in HookStates /\ HookOk(r, store, invoices, past.changes) /\ r.sub \in Subs /\ S!PaidPlan(r.sub) \in Plans
  BY TypesAre, PlansAre DEF PlanInv, HookStates, S!PaidPlan, Subs
<1>2. kind \in Kinds /\ kind \notin {"none", "approve"}
  BY <1>1 DEF HookStates, Told, HookOk, Handled
<1>3. (kind \in {"paid", "failed"} => r.event.invoice \in 1..Len(invoices)) /\ (kind \in {"granted", "grace"} => r.event.end > 0)
  BY <1>1 DEF HookOk, Dated
<1>4. CASE kind \in {"updated", "cancels", "resume"}
  BY <1>1, <1>4, SyncIs DEF S!Written, S!Syncs
<1>5. CASE kind \in {"checkout", "summary"}
  <2>1. S!Written(r) = S!Upsert(r.sub, S!PaidPlan(r.sub))
    BY <1>5 DEF S!Written, S!Syncs
  <2> QED
    BY <1>1, <2>1, UpsertIs
<1>6. CASE kind = "paid"
  <2>1. S!Written(r) = S!PaidInvoice(r)
    BY <1>6 DEF S!Written, S!Syncs
  <2> QED
    BY <1>1, <1>3, <1>6, <2>1, PaidInvoiceIs
<1>7. CASE kind = "failed"
  <2>1. S!Written(r) = S!FailedInvoice(r)
    BY <1>7 DEF S!Written, S!Syncs
  <2> QED
    BY <1>1, <1>3, <1>7, <2>1, FailedInvoiceIs
<1>8. CASE kind = "deleted"
  <2>1. S!Written(r) = S!Deleted
    BY <1>8 DEF S!Written, S!Syncs
  <2> QED
    BY <2>1, DeletedIs
<1>9. CASE kind \in {"expired", "transferred"}
  <2>1. S!Written(r) = S!StoreEnded(r.event)
    BY <1>9 DEF S!Written, S!Syncs
  <2> QED
    BY <1>9, <2>1, StoreEndedIs
<1>10. CASE kind \in {"granted", "grace", "issue", "revoke"}
  <2>1. /\ kind = "granted" => S!Written(r) = S!Granted(r.event)
        /\ kind = "grace" => S!Written(r) = S!Grace(r.event)
        /\ kind = "issue" => S!Written(r) = S!Issue
        /\ kind = "revoke" => S!Written(r) = S!Revoked
    BY DEF S!Written, S!Syncs
  <2>2. /\ kind = "granted" => Stands(S!Granted(r.event), r)
        /\ kind = "grace" => Stands(S!Grace(r.event), r)
        /\ Stands(S!Issue, r) /\ Stands(S!Revoked, r)
    BY <1>1, <1>3, StoreWritesIs
  <2> QED
    BY <1>10, <2>1, <2>2
<1> QED
  BY <1>2, <1>4, <1>5, <1>6, <1>7, <1>8, <1>9, <1>10 DEF Kinds

LEMMA EndsDoes ==
    ASSUME PlanInv, NEW h \in Hooks, S!Ends(h)
    PROVE  HooksStay /\ events' \subseteq events
BY HookEnds DEF S!Ends

LEMMA StandsKeeps ==
    ASSUME PlanInv, NEW h \in Hooks, Stands(user', hook[h])
    PROVE  OthersStand /\ user' \in Users /\ (user'.provider = "apple" => user'.end > 0)
BY DEF Stands, OthersStand

LEMMA WriteKeeps ==
    ASSUME PlanInv, NEW h \in Hooks, S!Write(h)
    PROVE  PlanInv' /\ OthersStand
<1> DEFINE r == hook[h]
           odd == (past.oddities \ S!If(r.event.kind = "summary", "legacy"))
                    \cup S!If(r.event.kind \in {"checkout", "summary"} /\ r.sub.price > r.sub.paid, "ahead")
<1>1. hook[h].at = "write" /\ user' = S!Written(hook[h]) /\ UNCHANGED <<sub, invoices, store, creator>>
      /\ past' = [past EXCEPT !.oddities = odd]
  BY DEF S!Write
<1>2. OthersStand /\ user' \in Users /\ (user'.provider = "apple" => user'.end > 0)
  BY <1>1, WrittenIs, StandsKeeps
<1>3. odd \in SUBSET Oddities
  BY TypesAre, OddIs DEF Pasts, Oddities
<1> HIDE DEF odd
<1>4. past' \in Pasts /\ past'.changes = past.changes
  BY <1>1, <1>3, NotesAre
<1>5. HooksStay /\ events' \subseteq events
  <2>1. S!Ends(h) \/ ((S!Goes(h, "restore") \/ S!Goes(h, "mail")) /\ events' = events)
    BY DEF S!Write, S!After
  <2>2. CASE S!Ends(h)
    BY <2>2, EndsDoes
  <2>3. CASE (S!Goes(h, "restore") \/ S!Goes(h, "mail")) /\ events' = events
    BY <1>1, <1>4, <2>3, HookGoes
  <2> QED
    BY <2>1, <2>2, <2>3
<1> QED
  BY <1>1, <1>2, <1>4, <1>5, HandlerKeeps

LEMMA RestoreKeeps ==
    ASSUME PlanInv, NEW h \in Hooks, S!Restore(h) \/ S!Mail(h)
    PROVE  PlanInv' /\ OthersStand
<1>1. UNCHANGED <<user, sub, invoices, store, creator, past>>
  BY DEF S!Restore, S!Mail
<1>2. S!Ends(h) \/ (S!Goes(h, "grant") /\ events' = events)
  BY DEF S!Restore, S!Mail
<1>3. HooksStay /\ events' \subseteq events
  BY <1>1, <1>2, EndsDoes, HookGoes
<1> QED
  BY <1>1, <1>3, HandlerKeeps, TypesAre DEF OthersStand, PlanInv

LEMMA GrantCreatorKeeps ==
    ASSUME PlanInv, NEW h \in Hooks, S!GrantCreator(h)
    PROVE  PlanInv' /\ OthersStand
<1> DEFINE odd == past.oddities \cup S!If(S!Grants /\ user.plan # S!Free /\ user.provider # "affiliate", "excepted")
           given == [user EXCEPT !.plan = S!Pro, !.status = "active", !.provider = "affiliate"]
<1>1. /\ UNCHANGED <<sub, invoices, store, creator>> /\ past' = [past EXCEPT !.oddities = odd] /\ S!Ends(h)
      /\ user' \in {given, user}
  BY DEF S!GrantCreator
<1>2. odd \in SUBSET Oddities
  BY TypesAre, OddIs DEF Pasts, Oddities
<1>3. given \in Users /\ given.provider = "affiliate"
  BY TypesAre, PlansAre DEF Users
<1> HIDE DEF odd, given
<1>4. past' \in Pasts /\ past'.changes = past.changes
  BY <1>1, <1>2, NotesAre
<1>5. user' \in Users /\ (user'.provider = "apple" => user'.end > 0) /\ OthersStand
  BY <1>1, <1>3, TypesAre DEF OthersStand, PlanInv
<1> QED
  BY <1>1, <1>4, <1>5, EndsDoes, HandlerKeeps

-----------------------------------------------------------------------------
(* Requests, and failures.                                                  *)

LEMMA RequestIs ==
    ASSUME NEW kind \in Kinds, NEW n \in Nat
    PROVE  /\ S!Request(kind, n) \in Told /\ S!Request(kind, n).kind = kind
           /\ S!Request(kind, n).end = 0 /\ S!Request(kind, n).sub = S!NoSub
<1>1. <<n, kind>> \in Nat \X Kinds
  OBVIOUS
<1> QED
  BY <1>1, NothingIs DEF S!Request, Told

\* A handler that rests begins a request.
LEMMA RequestStays ==
    ASSUME PlanInv, NEW h \in Hooks, NEW n \in Nat, NEW s \in Subs, Sold(s, invoices'),
           NEW kind \in Kinds, NEW at \in {"live", "read", "write", "grant"},
           \/ kind = "approve" /\ at = "grant"
           \/ kind = "revoke" /\ at = "write"
           \/ kind = "resume" /\ at = "read"
           \/ kind = "summary" /\ at = "live",
           hook' = [hook EXCEPT ![h] = [hook[h] EXCEPT !.at = at, !.event = S!Request(kind, n), !.sub = s]]
    PROVE  HooksStay
<1> DEFINE r == [hook[h] EXCEPT !.at = at, !.event = S!Request(kind, n), !.sub = s]
           e == S!Request(kind, n)
<1>1. e \in Told /\ e.kind = kind /\ e.end = 0 /\ e.sub = S!NoSub
  BY RequestIs
<1>2. hook[h] \in HookStates
  BY TypesAre
<1>3. r \in HookStates /\ r.at = at /\ r.event = e /\ r.sub = s
  BY <1>1, <1>2 DEF HookStates
<1>4. hook' = [hook EXCEPT ![h] = r]
  OBVIOUS
<1> HIDE DEF r, e
<1>5. kind \in {"approve", "revoke", "resume", "summary"} /\ (at = "live" => kind = "summary")
      /\ (at = "read" => kind = "resume") /\ (at = "write" => kind = "revoke")
  OBVIOUS
<1>6. HookOk(r, store', invoices', past'.changes)
  BY <1>1, <1>3, <1>5, NothingIs DEF HookOk, Dated, Sold, Handled
<1> QED
  BY <1>3, <1>4, <1>6, HookBecomes

LEMMA ApproveKeeps ==
    ASSUME PlanInv, NEW h \in Hooks, S!Approve(h) \/ S!Revoke(h)
    PROVE  PlanInv' /\ OthersStand
<1> DEFINE n == past.changes + 1
           odd == S!If(\E g \in Hooks : hook[g].at = "grant", "excepted")
           kinds == {}
<1>1. UNCHANGED <<user, sub, invoices, store, events, seen>> /\ creator' \in Creators
  <2>1. CASE S!Approve(h)
    BY <2>1 DEF S!Approve, Creators
  <2>2. CASE S!Revoke(h)
    BY <2>2 DEF S!Revoke, Creators
  <2> QED
    BY <2>1, <2>2
<1>2. S!Changed(S!Pro, {}) \/ S!Changed(S!Free, odd)
  BY DEF S!Approve, S!Revoke
<1>3. hook[h] \in HookStates
  BY TypesAre
<1>4. \/ hook' = [hook EXCEPT ![h] = [hook[h] EXCEPT !.at = "grant", !.event = S!Request("approve", n), !.sub = hook[h].sub]]
      \/ hook' = [hook EXCEPT ![h] = [hook[h] EXCEPT !.at = "write", !.event = S!Request("revoke", n), !.sub = hook[h].sub]]
  <2>1. CASE S!Approve(h)
    <3>1. hook' = [hook EXCEPT ![h] = [hook[h] EXCEPT !.at = "grant", !.event = S!Request("approve", n)]]
      BY <2>1, TypesAre DEF S!Approve, S!Now
    <3>2. [hook[h] EXCEPT !.at = "grant", !.event = S!Request("approve", n)]
            = [hook[h] EXCEPT !.at = "grant", !.event = S!Request("approve", n), !.sub = hook[h].sub]
      BY <1>3 DEF HookStates
    <3> QED
      BY <3>1, <3>2
  <2>2. CASE S!Revoke(h)
    <3>1. hook' = [hook EXCEPT ![h] = [hook[h] EXCEPT !.at = "write", !.event = S!Request("revoke", n)]]
      BY <2>2, TypesAre DEF S!Revoke, S!Now
    <3>2. [hook[h] EXCEPT !.at = "write", !.event = S!Request("revoke", n)]
            = [hook[h] EXCEPT !.at = "write", !.event = S!Request("revoke", n), !.sub = hook[h].sub]
      BY <1>3 DEF HookStates
    <3> QED
      BY <3>1, <3>2
  <2> QED
    BY <2>1, <2>2
<1>5. hook[h].sub \in Subs /\ Sold(hook[h].sub, invoices')
  BY <1>1, <1>3 DEF HookStates, PlanInv, HookOk
<1>6. HooksStay
  <2> DEFINE s == hook[h].sub
  <2>1. n \in Nat /\ s \in Subs /\ Sold(s, invoices') /\ "approve" \in Kinds /\ "revoke" \in Kinds
    BY <1>5, TypesAre DEF Kinds
  <2>2. \/ hook' = [hook EXCEPT ![h] = [hook[h] EXCEPT !.at = "grant", !.event = S!Request("approve", n), !.sub = s]]
        \/ hook' = [hook EXCEPT ![h] = [hook[h] EXCEPT !.at = "write", !.event = S!Request("revoke", n), !.sub = s]]
    BY <1>4
  <2> HIDE DEF s, n
  <2>3. CASE hook' = [hook EXCEPT ![h] = [hook[h] EXCEPT !.at = "grant", !.event = S!Request("approve", n), !.sub = s]]
    BY <2>1, <2>3, RequestStays
  <2>4. CASE hook' = [hook EXCEPT ![h] = [hook[h] EXCEPT !.at = "write", !.event = S!Request("revoke", n), !.sub = s]]
    BY <2>1, <2>4, RequestStays
  <2> QED
    BY <2>2, <2>3, <2>4
<1>7. S!Tell(kinds, S!NoSub, 0, 0, 0) /\ Tellable(kinds, S!NoSub, 0, 0, 0)
  BY <1>1, NothingIs, PlansAre DEF S!Tell, Tellable, Sold
<1>8. Changes
  BY <1>1, TypesAre DEF Changes, PlanInv
<1>9. odd \in SUBSET Oddities /\ {} \in SUBSET Oddities /\ S!Pro \in Plans /\ S!Free \in Plans
  BY OddIs, PlansAre DEF Oddities
<1> HIDE DEF kinds, odd
<1> QED
  BY <1>2, <1>6, <1>7, <1>8, <1>9, ChangeKeeps

LEMMA ResumeKeeps ==
    ASSUME PlanInv, NEW h \in Hooks, S!Resume(h)
    PROVE  PlanInv' /\ OthersStand
<1> DEFINE n == past.changes + 1
           odd == S!If(S!Overtakes(n), "excepted")
           kinds == {"updated"}
           s == sub'
<1>1. UNCHANGED <<user, invoices, store, creator, seen>> /\ S!Tell(kinds, s, 0, S!Free, 0) /\ S!Changed(S!Free, odd)
      /\ n \in Nat
  BY TypesAre DEF S!Resume, S!Now
<1>2. s \in Subs /\ s.status = sub.status /\ s.invoice = sub.invoice /\ s.status # "none"
  BY TypesAre DEF S!Resume, S!Live, Subs
<1>3. Sold(s, invoices')
  BY <1>1, <1>2 DEF Sold, PlanInv
<1>4. hook' = [hook EXCEPT ![h] = [hook[h] EXCEPT !.at = "read", !.event = S!Request("resume", n), !.sub = s]]
  BY TypesAre DEF S!Resume, S!Now
<1>5. Tellable(kinds, s, 0, S!Free, 0)
  BY <1>2, <1>3, PlansAre DEF Tellable, Kinds
<1>6. Changes
  BY <1>1, <1>2, <1>3, TypesAre DEF Changes
<1>7. odd \in SUBSET Oddities /\ S!Free \in Plans
  BY OddIs, PlansAre DEF Oddities
<1> HIDE DEF kinds, odd, s
<1>8. HooksStay
  BY <1>1, <1>2, <1>3, <1>4, RequestStays DEF Kinds
<1> QED
  BY <1>1, <1>5, <1>6, <1>7, <1>8, ChangeKeeps

LEMMA ReadSummaryKeeps ==
    ASSUME PlanInv, NEW h \in Hooks, S!ReadSummary(h)
    PROVE  PlanInv' /\ OthersStand
<1> DEFINE n == past.changes
           s == hook[h].sub
<1>1. UNCHANGED <<user, sub, invoices, store, creator, events, seen>> /\ S!Began(n)
  BY DEF S!ReadSummary
<1>2. hook[h] \in HookStates /\ n \in Nat
  BY TypesAre
<1>3. s \in Subs /\ Sold(s, invoices')
  BY <1>1, <1>2 DEF HookStates, PlanInv, HookOk
<1>4. hook' = [hook EXCEPT ![h] = [hook[h] EXCEPT !.at = "live", !.event = S!Request("summary", n), !.sub = s]]
  <2>1. hook' = [hook EXCEPT ![h] = [hook[h] EXCEPT !.at = "live", !.event = S!Request("summary", n)]]
    BY TypesAre DEF S!ReadSummary
  <2>2. [hook[h] EXCEPT !.at = "live", !.event = S!Request("summary", n)]
          = [hook[h] EXCEPT !.at = "live", !.event = S!Request("summary", n), !.sub = s]
    BY <1>2 DEF HookStates
  <2> QED
    BY <2>1, <2>2
<1>5. HooksStay
  BY <1>2, <1>3, <1>4, RequestStays DEF Kinds
<1>6. past' \in Pasts /\ past'.changes = past.changes
  BY <1>1, BeganIs
<1> QED
  BY <1>1, <1>5, <1>6, HandlerKeeps, TypesAre DEF OthersStand, PlanInv

LEMMA FailsKeeps ==
    ASSUME PlanInv, NEW h \in Hooks, S!Raises(h) \/ S!Dies(h)
    PROVE  PlanInv' /\ OthersStand
<1>1. UNCHANGED <<user, sub, invoices, store, creator, events>> /\ hook' = [hook EXCEPT ![h] = S!Rest]
  BY DEF S!Raises, S!Dies
<1>2. PICK odd \in SUBSET Oddities : S!Failing(odd)
  <2> DEFINE lost == S!If(hook[h].event \notin events, "excepted")
             left == S!If(hook[h].at \in {"restore", "grant"} /\ hook[h].event.kind \in {"expired", "transferred"}, "excepted")
  <2>1. S!Failing({"excepted"}) \/ S!Failing(lost \cup left)
    BY DEF S!Raises, S!Dies
  <2>2. lost \in SUBSET Oddities /\ left \in SUBSET Oddities /\ {"excepted"} \in SUBSET Oddities
    BY OddIs DEF Oddities
  <2> HIDE DEF lost, left
  <2>3. lost \cup left \in SUBSET Oddities
    BY <2>2
  <2> QED
    BY <2>1, <2>2, <2>3
<1>3. past' \in Pasts /\ past'.changes = past.changes
  <2> DEFINE all == past.oddities \cup odd
             k == past.failures + 1
  <2>1. past' = [past EXCEPT !.failures = k, !.oddities = all]
    BY <1>2 DEF S!Failing
  <2>2. k \in Nat /\ all \in SUBSET Oddities
    BY TypesAre DEF Pasts
  <2> HIDE DEF k, all
  <2> QED
    BY <2>1, <2>2, TypesAre DEF Pasts
<1> QED
  BY <1>1, <1>3, HookEnds, HandlerKeeps, TypesAre DEF OthersStand, PlanInv

-----------------------------------------------------------------------------
LEMMA StartIs ==
    ASSUME NEW row \in Users, NEW s \in Subs, NEW bills \in Seq(Bills), NEW apple \in Stores, NEW given \in Creators,
           S!StartWith(row, s, bills, apple, given), Sold(s, bills), apple.end <= 1,
           row.provider = "apple" => row.end > 0
    PROVE  PlanInv
<1> DEFINE top == S!Max({row.plan, s.paid})
           odd == S!If(row.plan = S!Free /\ row.status = "past_due", "legacy")
<1>1. row.plan \in Plans /\ s.paid \in Plans /\ apple.end \in Nat
  BY DEF Users, Subs, Stores
<1>2. top \in Plans /\ odd \in SUBSET Oddities
  BY <1>1, TopIs, OddIs DEF Oddities
<1>3. /\ user = row /\ sub = s /\ invoices = bills /\ store = apple /\ creator = given
      /\ events = {} /\ hook = [h \in Hooks |-> S!Rest]
      /\ past = [changes |-> 0, failures |-> 0, top |-> top, oddities |-> odd]
  BY DEF S!StartWith
<1> HIDE DEF top, odd
<1>4. past \in Pasts /\ past.changes = 0
  BY <1>2, <1>3 DEF Pasts
<1>5. hook \in [Hooks -> HookStates] /\ \A h \in Hooks : HookOk(hook[h], store, invoices, past.changes)
  BY <1>3, NothingIs, RestOk
<1> QED
  BY <1>1, <1>3, <1>4, <1>5 DEF PlanInv, PlanTyped

LEMMA PlanInit ==
    ASSUME BillingInit
    PROVE  PlanInv
<1>1. <<>> \in Seq(Bills) /\ \A p \in Plans, paid \in BOOLEAN : S!Bill(p, paid) \in Bills
  BY DEF S!Bill, Bills
<1>2. \A x \in Bills : <<x>> \in Seq(Bills) /\ Len(<<x>>) = 1
  OBVIOUS
<1>3. \A x, y \in Bills : <<x, y>> \in Seq(Bills) /\ Len(<<x, y>>) = 2
  OBVIOUS
<1>4. "none" \in Creators /\ "approved" \in Creators
  BY DEF Creators
<1>5. S!Pro \in Plans /\ S!Scale \in Plans /\ S!Free \in Plans
  BY PlansAre
<1>6. \A p \in Plans, state \in {"active", "past_due"} :
         /\ S!StripeUser(p, state) \in Users /\ S!StripeUser(p, state).provider = "stripe"
         /\ S!Has(p, state) \in Subs /\ S!Has(p, state).status = state /\ S!Has(p, state).invoice = 1
  BY NothingIs DEF S!StripeUser, S!Has, Users, Subs
<1>7. S!CreatorUser \in Users /\ S!CreatorUser.provider = "affiliate"
  BY <1>5, NothingIs DEF S!CreatorUser, Users
<1>8. S!AppleUser(S!Pro, 1) \in Users /\ S!AppleUser(S!Pro, 1).end = 1
  BY <1>5, NothingIs DEF S!AppleUser, Users
<1>9. \A bills : Sold(S!NoSub, bills)
  BY NothingIs DEF Sold
<1>10. \A p \in Plans, state \in {"active", "past_due"}, bills \in Seq(Bills) : Len(bills) = 1 => Sold(S!Has(p, state), bills)
  BY <1>6 DEF Sold
<1>11. ASSUME NEW row \in Users, row.provider = "apple" => row.end > 0, NEW apple \in Stores, apple.end <= 1,
              NEW given \in Creators, S!StartWith(row, S!NoSub, <<>>, apple, given)
       PROVE  PlanInv
  <2> DEFINE bills == <<>>
             s == S!NoSub
  <2>1. S!StartWith(row, s, bills, apple, given) /\ bills \in Seq(Bills) /\ s \in Subs /\ Sold(s, bills)
    BY <1>1, <1>9, <1>11, NothingIs
  <2> HIDE DEF bills, s
  <2> QED
    BY <1>11, <2>1, StartIs
<1>12. S!Gone \/ S!StartWith(S!CreatorUser, S!NoSub, <<>>, S!NoStore, "approved") => PlanInv
  <2>1. S!NoStore \in Stores /\ S!NoStore.end <= 1 /\ S!FreeUser \in Users /\ S!FreeUser.provider # "apple"
    BY NothingIs
  <2> QED
    BY <1>4, <1>7, <1>11, <2>1 DEF S!Gone
<1>13. ASSUME NEW p \in Plans, NEW q \in Plans, NEW state \in {"active", "past_due"}, NEW paid \in BOOLEAN, NEW given \in Creators,
              S!StartWith(S!StripeUser(p, state), S!Has(q, state), <<S!Bill(q, paid)>>, S!NoStore, given)
       PROVE  PlanInv
  <2>1. S!Bill(q, paid) \in Bills
    BY <1>1
  <2>2. <<S!Bill(q, paid)>> \in Seq(Bills) /\ Sold(S!Has(q, state), <<S!Bill(q, paid)>>)
    BY <2>1, <1>2, <1>10
  <2>3. S!StripeUser(p, state) \in Users /\ S!StripeUser(p, state).provider = "stripe" /\ S!Has(q, state) \in Subs
    BY <1>6
  <2> DEFINE bills == <<S!Bill(q, paid)>>
             row == S!StripeUser(p, state)
             s == S!Has(q, state)
             apple == S!NoStore
  <2>4. S!StartWith(row, s, bills, apple, given) /\ bills \in Seq(Bills) /\ s \in Subs /\ Sold(s, bills)
        /\ row \in Users /\ row.provider = "stripe" /\ apple \in Stores /\ apple.end = 0
    BY <1>13, <2>2, <2>3, NothingIs
  <2> HIDE DEF bills, row, s, apple
  <2> QED
    BY <2>4, StartIs
<1>14. CASE S!StartWith([S!StripeUser(S!Pro, "active") EXCEPT !.pending = S!Scale, !.invoice = 2],
                        [S!Has(S!Pro, "active") EXCEPT !.price = S!Scale, !.invoice = 2],
                        <<S!Bill(S!Pro, TRUE), S!Bill(S!Free, FALSE)>>, S!NoStore, "none")
  <2> DEFINE row == [S!StripeUser(S!Pro, "active") EXCEPT !.pending = S!Scale, !.invoice = 2]
             s == [S!Has(S!Pro, "active") EXCEPT !.price = S!Scale, !.invoice = 2]
             bills == <<S!Bill(S!Pro, TRUE), S!Bill(S!Free, FALSE)>>
  <2>1. S!StripeUser(S!Pro, "active") \in Users /\ S!StripeUser(S!Pro, "active").provider = "stripe"
    BY <1>5, <1>6
  <2>2. row \in Users /\ row.provider = "stripe"
    BY <1>5, <2>1 DEF Users
  <2>3. S!Has(S!Pro, "active") \in Subs /\ S!Has(S!Pro, "active").status = "active"
    BY <1>5, <1>6
  <2>4. s \in Subs /\ s.status = "active" /\ s.invoice = 2
    BY <1>5, <2>3 DEF Subs
  <2>5. bills \in Seq(Bills) /\ Len(bills) = 2
    BY <1>1, <1>3, <1>5
  <2>6. S!StartWith(row, s, bills, S!NoStore, "none")
    BY <1>14
  <2> HIDE DEF row, s, bills
  <2>7. Sold(s, bills)
    BY <2>4, <2>5 DEF Sold
  <2> QED
    BY <1>4, <2>2, <2>4, <2>5, <2>6, <2>7, NothingIs, StartIs
<1>15. CASE S!StartWith(S!AppleUser(S!Pro, 1), S!NoSub, <<>>, [plan |-> S!Pro, end |-> 1], "approved")
  <2> DEFINE apple == [plan |-> S!Pro, end |-> 1]
  <2>1. apple \in Stores /\ apple.end = 1
    BY <1>5 DEF Stores
  <2>2. S!StartWith(S!AppleUser(S!Pro, 1), S!NoSub, <<>>, apple, "approved")
    BY <1>15
  <2> HIDE DEF apple
  <2> QED
    BY <1>4, <1>8, <1>11, <2>1, <2>2
<1> QED
  BY <1>4, <1>5, <1>12, <1>13, <1>14, <1>15 DEF BillingInit, S!Init

LEMMA PlanStep ==
    ASSUME PlanInv, [BillingNext]_<<part, vars, subscription>>
    PROVE  PlanInv' /\ (OthersStand \/ UNCHANGED S!svars)
<1>1. CASE UNCHANGED subscription
  BY <1>1 DEF subscription, S!svars, PlanInv, PlanTyped
<1>2. CASE S!Next
  BY <1>2, CheckoutKeeps, StoreGrantsKeeps, UpgradeKeeps, BilledKeeps, PayKeeps, SubKeeps, StoreCannotBillKeeps,
     StoreEndsKeeps, RepeatKeeps, ReceiveKeeps, RetrieveKeeps, ReadRowKeeps, ResolveInvoiceKeeps, WriteKeeps,
     RestoreKeeps, GrantCreatorKeeps, ApproveKeeps, ResumeKeeps, ReadSummaryKeeps, FailsKeeps DEF S!Next
<1> QED
  BY <1>1, <1>2 DEF BillingNext

\* What every step keeps: each event is dated, each handler has an event that fits its
\* step, each subscription has its invoice, and an App Store row has a period.
THEOREM PlansInductive == BillingSpec => []PlanInv
<1>1. PlanInv /\ [BillingNext]_<<part, vars, subscription>> => PlanInv'
  BY PlanStep
<1> QED
  BY <1>1, PlanInit, PTL DEF BillingSpec

\* For any number of handlers, changes and failures, in any order of the events: a row of
\* the App Store or of the creator programme is taken over by Stripe for a paid plan only,
\* and no late expiration ends the period that the store sells now.
THEOREM OthersPlansStandCorrect == BillingSpec => OthersPlansStand
<1>1. PlanInv /\ [BillingNext]_<<part, vars, subscription>> =>
        [/\ user.provider \in {"apple", "affiliate"} /\ user'.provider = "stripe" => user'.plan \in S!Paid
         /\ user.provider = "apple" /\ user'.provider = "none" /\ user.end = store.end
              => \E h \in Hooks : hook[h].event.kind = "transferred"]_S!svars
  BY PlanStep DEF OthersStand
<1> QED
  BY <1>1, PlansInductive, PTL DEF BillingSpec, OthersPlansStand, S!OthersPlansStand

(***************************************************************************)
(* What was paid for.  Beside an invoice stands a plan, on its lines, in a  *)
(* subscription as Stripe told it, or as the row's pending plan.  None is   *)
(* higher than the price of the subscription while that invoice is its      *)
(* latest, and none is higher than what was ever paid once it is settled.   *)
(***************************************************************************)
\* A plan noted beside an invoice: once that is settled, it has been paid for.
Fair(k, p, bills, s, top) ==
    k <= Len(bills) /\ (k # 0 /\ bills[k].settled => p <= top) /\ (k = s.invoice => p <= s.price)
SubFair(x, bills, s, top) == Fair(x.invoice, x.price, bills, s, top) /\ x.paid <= top
RowFair(u, bills, s, top, odd) == Fair(u.invoice, u.pending, bills, s, top) /\ (u.plan <= top \/ "ahead" \in odd)
EventFair(e, bills, s, top) ==
    /\ SubFair(e.sub, bills, s, top)
    /\ e.kind = "paid" => bills[e.invoice].settled
    /\ e.kind = "granted" => e.plan <= top
HookFair(r, bills, s, top, odd) ==
    /\ EventFair(r.event, bills, s, top) /\ SubFair(r.sub, bills, s, top) /\ RowFair(r.row, bills, s, top, odd)
    /\ r.at = "write" /\ S!Syncs(r.event.kind) /\ r.settled /\ r.sub.price > r.row.plan => r.sub.price <= top
    /\ r.at = "grant" => top >= 1
FairInv ==
    /\ SubFair(sub, invoices, sub, past.top) /\ RowFair(user, invoices, sub, past.top, past.oddities)
    /\ \A k \in 1..Len(invoices) : Fair(k, invoices[k].plan, invoices, sub, past.top)
    /\ \A e \in events : EventFair(e, invoices, sub, past.top)
    /\ \A h \in Hooks : HookFair(hook[h], invoices, sub, past.top, past.oddities)
    /\ creator = "approved" => past.top >= 1

LEMMA MostIs ==
    ASSUME NEW p \in Plans, NEW q \in Plans
    PROVE  S!Max({p, q}) \in Plans /\ S!Max({p, q}) >= p /\ S!Max({p, q}) >= q
<1>1. p >= q \/ q >= p
  BY DEF Plans
<1>2. \E x \in {p, q} : \A y \in {p, q} : x >= y
  BY <1>1 DEF Plans
<1>3. S!Max({p, q}) \in {p, q} /\ \A y \in {p, q} : S!Max({p, q}) >= y
  BY <1>2 DEF S!Max
<1> QED
  BY <1>3

\* How the providers' bills may move on: a settled invoice was settled, or is the
\* subscription's and its price is paid.
Billed(bills, s, top) ==
    /\ bills \in Seq(Bills) /\ Len(bills) >= Len(invoices) /\ s \in Subs /\ top \in Plans /\ top >= past.top
    /\ \A k \in 1..Len(invoices) :
          /\ invoices[k].settled => bills[k].settled
          /\ bills[k].settled => invoices[k].settled \/ (k = sub.invoice /\ sub.price <= top)
    /\ s.invoice <= Len(invoices) => s.invoice = sub.invoice /\ s.price = sub.price

LEMMA FairStays ==
    ASSUME PlanInv, NEW bills, NEW s, NEW top, Billed(bills, s, top),
           NEW k \in Nat, NEW p \in Plans, Fair(k, p, invoices, sub, past.top)
    PROVE  Fair(k, p, bills, s, top)
<1>1. Len(bills) \in Nat /\ Len(invoices) \in Nat /\ Len(bills) >= Len(invoices) /\ past.top \in Plans
      /\ top \in Plans /\ top >= past.top /\ sub.price \in Plans /\ s.price \in Plans
  BY TypesAre DEF Billed, Pasts, Subs
<1>2. k <= Len(bills)
  BY <1>1 DEF Fair
<1>3. ASSUME k # 0, bills[k].settled
      PROVE  p <= top
  <2>1. k \in 1..Len(invoices)
    BY <1>1, <1>3 DEF Fair
  <2>2. invoices[k].settled \/ (k = sub.invoice /\ sub.price <= top)
    BY <1>3, <2>1 DEF Billed
  <2>3. p <= past.top \/ (p <= sub.price /\ sub.price <= top)
    BY <1>3, <2>2 DEF Fair
  <2> QED
    BY <1>1, <2>3, PlansAre
<1>4. ASSUME k = s.invoice
      PROVE  p <= s.price
  <2>1. k <= Len(invoices)
    BY DEF Fair
  <2>2. s.invoice = sub.invoice /\ s.price = sub.price
    BY <1>4, <2>1 DEF Billed
  <2> QED
    BY <1>4, <2>2 DEF Fair
<1> QED
  BY <1>2, <1>3, <1>4 DEF Fair

LEMMA MoreStays ==
    ASSUME PlanInv, NEW bills, NEW s, NEW top, Billed(bills, s, top), NEW odd, past.oddities \subseteq odd \cup {"legacy"}
    PROVE  /\ \A x \in Subs : SubFair(x, invoices, sub, past.top) => SubFair(x, bills, s, top)
           /\ \A u \in Users : RowFair(u, invoices, sub, past.top, past.oddities) => RowFair(u, bills, s, top, odd)
           /\ \A e \in Told : EventFair(e, invoices, sub, past.top) /\ Dated(e, store, invoices, past.changes)
                                => EventFair(e, bills, s, top)
           /\ \A r \in HookStates : HookFair(r, invoices, sub, past.top, past.oddities) /\ HookOk(r, store, invoices, past.changes)
                                => HookFair(r, bills, s, top, odd)
<1>1. past.top \in Plans /\ top \in Plans /\ top >= past.top
  BY TypesAre DEF Billed, Pasts
<1>2. \A p \in Plans : p <= past.top => p <= top
  BY <1>1, PlansAre
<1>3. \A x \in Subs : SubFair(x, invoices, sub, past.top) => SubFair(x, bills, s, top)
  BY <1>2, FairStays DEF SubFair, Subs
<1>4. "ahead" \in past.oddities => "ahead" \in odd
  OBVIOUS
<1>5. \A u \in Users : RowFair(u, invoices, sub, past.top, past.oddities) => RowFair(u, bills, s, top, odd)
  BY <1>2, <1>4, FairStays DEF RowFair, Users
<1>6. ASSUME NEW e \in Told, EventFair(e, invoices, sub, past.top), Dated(e, store, invoices, past.changes)
      PROVE  EventFair(e, bills, s, top)
  <2>1. e.sub \in Subs /\ e.plan \in Plans
    BY DEF Told
  <2>2. e.kind = "paid" => bills[e.invoice].settled
    BY <1>6 DEF EventFair, Dated, Billed
  <2> QED
    BY <1>2, <1>3, <1>6, <2>1, <2>2 DEF EventFair
<1>7. ASSUME NEW r \in HookStates, HookFair(r, invoices, sub, past.top, past.oddities), HookOk(r, store, invoices, past.changes)
      PROVE  HookFair(r, bills, s, top, odd)
  <2>1. r.event \in Told /\ r.sub \in Subs /\ r.row \in Users /\ r.sub.price \in Plans
    BY DEF HookStates, Subs
  <2>2. EventFair(r.event, bills, s, top) /\ SubFair(r.sub, bills, s, top) /\ RowFair(r.row, bills, s, top, odd)
    BY <1>3, <1>5, <1>6, <1>7, <2>1 DEF HookFair, HookOk
  <2>3. r.at = "grant" => top >= 1
    BY <1>1, <1>7, PlansAre DEF HookFair
  <2> QED
    BY <1>2, <1>7, <2>1, <2>2, <2>3 DEF HookFair
<1> QED
  BY <1>3, <1>5, <1>6, <1>7

LEMMA RestFair ==
    ASSUME PlanInv, NEW bills \in Seq(Bills), NEW s \in Subs, NEW top \in Plans, NEW odd
    PROVE  HookFair(S!Rest, bills, s, top, odd) /\ EventFair(S!NoEvent, bills, s, top) /\ SubFair(S!NoSub, bills, s, top)
<1>1. s.price \in Plans /\ top >= 0 /\ s.price >= 0 /\ Len(bills) >= 0
  BY PlansAre DEF Subs
<1>2. S!NoSub.invoice = 0 /\ S!NoSub.price = 0 /\ S!NoSub.paid = 0
  BY PlansAre DEF S!NoSub
<1>3. S!FreeUser.invoice = 0 /\ S!FreeUser.pending = 0 /\ S!FreeUser.plan = 0 /\ S!Rest.row = S!FreeUser
  BY PlansAre DEF S!FreeUser, S!Rest
<1>4. SubFair(S!NoSub, bills, s, top) /\ RowFair(S!FreeUser, bills, s, top, odd)
  BY <1>1, <1>2, <1>3 DEF SubFair, RowFair, Fair
<1> QED
  BY <1>3, <1>4, NothingIs DEF HookFair, EventFair

-----------------------------------------------------------------------------
\* A change at a provider, and what it tells.
LEMMA ChangeFair ==
    ASSUME PlanInv, PlanInv', FairInv, user' = user, Billed(invoices', sub', past'.top),
           past.oddities \subseteq past'.oddities,
           SubFair(sub', invoices', sub', past'.top),
           \A k \in 1..Len(invoices') : k > Len(invoices) \/ invoices'[k].plan # invoices[k].plan
                => Fair(k, invoices'[k].plan, invoices', sub', past'.top),
           \A e \in events' \ events : EventFair(e, invoices', sub', past'.top),
           \A h \in Hooks : hook'[h] = hook[h] \/ HookFair(hook'[h], invoices', sub', past'.top, past'.oddities),
           creator' = "approved" => creator = "approved" \/ past'.top >= 1
    PROVE  FairInv'
<1>1. past.top \in Plans /\ past'.top \in Plans /\ past'.top >= past.top /\ Len(invoices) \in Nat /\ Len(invoices') \in Nat
  BY TypesAre DEF Billed, Pasts
<1>2. RowFair(user', invoices', sub', past'.top, past'.oddities)
  BY MoreStays, TypesAre DEF FairInv
<1>3. \A e \in events' : EventFair(e, invoices', sub', past'.top)
  BY MoreStays DEF FairInv, PlanInv, PlanTyped, EventOk
<1>4. \A h \in Hooks : HookFair(hook'[h], invoices', sub', past'.top, past'.oddities)
  BY MoreStays, TypesAre DEF FairInv, PlanInv
<1>5. \A k \in 1..Len(invoices') : Fair(k, invoices'[k].plan, invoices', sub', past'.top)
  <2> SUFFICES ASSUME NEW k \in 1..Len(invoices'), k <= Len(invoices), invoices'[k].plan = invoices[k].plan
               PROVE  Fair(k, invoices'[k].plan, invoices', sub', past'.top)
    BY <1>1
  <2>1. k \in 1..Len(invoices) /\ k \in Nat
    BY <1>1
  <2>2. invoices[k].plan \in Plans /\ Fair(k, invoices[k].plan, invoices, sub, past.top)
    BY <2>1, TypesAre DEF Bills, FairInv
  <2> DEFINE p == invoices[k].plan
  <2>3. p \in Plans /\ Fair(k, p, invoices, sub, past.top)
    BY <2>2
  <2> HIDE DEF p
  <2>4. Fair(k, p, invoices', sub', past'.top)
    BY <2>1, <2>3, FairStays
  <2> QED
    BY <2>4 DEF p
<1>6. creator' = "approved" => past'.top >= 1
  BY <1>1, PlansAre DEF FairInv
<1> QED
  BY <1>2, <1>3, <1>4, <1>5, <1>6 DEF FairInv

LEMMA ChangedFair ==
    ASSUME PlanInv, NEW top \in Plans, NEW odd \in SUBSET Oddities, S!Changed(top, odd)
    PROVE  past'.top \in Plans /\ past'.top >= past.top /\ past'.top >= top /\ past.oddities \subseteq past'.oddities
<1> DEFINE most == S!Max({past.top, top})
           all == past.oddities \cup odd
<1>1. past \in Pasts /\ past.top \in Plans
  BY TypesAre DEF Pasts
<1>2. most \in Plans /\ most >= past.top /\ most >= top
  BY <1>1, MostIs
<1>3. past' = [past EXCEPT !.changes = past.changes + 1, !.top = most, !.oddities = all]
  BY DEF S!Changed, S!Now
<1>4. past.oddities \subseteq all
  OBVIOUS
<1> HIDE DEF most, all
<1> QED
  BY <1>1, <1>2, <1>3, <1>4 DEF Pasts

LEMMA ToldFair ==
    ASSUME NEW kinds, NEW s, NEW k, NEW p, NEW end, S!Tell(kinds, s, k, p, end),
           SubFair(s, invoices', sub', past'.top), "paid" \in kinds => invoices'[k].settled,
           "granted" \in kinds => p <= past'.top
    PROVE  \A e \in events' \ events : EventFair(e, invoices', sub', past'.top)
<1> SUFFICES ASSUME NEW e \in events' \ events
             PROVE  EventFair(e, invoices', sub', past'.top)
  OBVIOUS
<1>1. PICK kind \in kinds :
        e = [id |-> <<S!Now, kind>>, kind |-> kind, sub |-> s, invoice |-> k, plan |-> p, end |-> end]
  BY DEF S!Tell
<1>2. e.kind = kind /\ e.sub = s /\ e.invoice = k /\ e.plan = p
  BY <1>1
<1> QED
  BY <1>2 DEF EventFair

\* One more invoice, of the subscription's price.
LEMMA BillFair ==
    ASSUME PlanInv, PlanInv', FairInv, UNCHANGED <<user, store, creator, seen, hook>>,
           NEW q \in Plans, NEW paid \in BOOLEAN, invoices' = Append(invoices, S!Bill(q, paid)),
           sub'.invoice = Len(invoices) + 1, q <= sub'.price, paid => sub'.price <= past'.top, sub'.paid <= past'.top,
           NEW top \in Plans, NEW odd \in SUBSET Oddities, S!Changed(top, odd),
           NEW kinds, NEW p, NEW end, S!Tell(kinds, sub', Len(invoices) + 1, p, end),
           "paid" \in kinds => paid, "granted" \notin kinds
    PROVE  FairInv'
<1> DEFINE n == Len(invoices) + 1
<1>1. past'.top \in Plans /\ past'.top >= past.top /\ past'.top >= top /\ past.oddities \subseteq past'.oddities
  BY ChangedFair
<1>2. sub' \in Subs /\ invoices' \in Seq(Bills)
  BY DEF PlanInv, PlanTyped
<1>3. Len(invoices) \in Nat /\ n \in Nat /\ n # 0
  BY TypesAre
<1>4. S!Bill(q, paid) \in Bills /\ S!Bill(q, paid).plan = q /\ S!Bill(q, paid).settled = paid
  BY DEF S!Bill, Bills
<1>5. /\ Len(invoices') = n /\ invoices'[n].plan = q /\ invoices'[n].settled = paid
      /\ \A k \in 1..Len(invoices) : invoices'[k] = invoices[k]
  BY <1>3, <1>4, TypesAre
<1>6. Billed(invoices', sub', past'.top)
  BY <1>1, <1>2, <1>3, <1>5 DEF Billed
<1>7. SubFair(sub', invoices', sub', past'.top)
  <2>1. n <= Len(invoices') /\ (invoices'[n].settled => sub'.price <= past'.top) /\ sub'.price <= sub'.price
    BY <1>2, <1>3, <1>5, PlansAre DEF Subs
  <2> QED
    BY <2>1 DEF SubFair, Fair
<1>8. \A k \in 1..Len(invoices') : k > Len(invoices) \/ invoices'[k].plan # invoices[k].plan
                => Fair(k, invoices'[k].plan, invoices', sub', past'.top)
  <2> SUFFICES ASSUME NEW k \in 1..Len(invoices'), k > Len(invoices) \/ invoices'[k].plan # invoices[k].plan
               PROVE  Fair(k, invoices'[k].plan, invoices', sub', past'.top)
    OBVIOUS
  <2>1. k = n
    BY <1>3, <1>5
  <2>2. paid => q <= past'.top
    BY <1>1, <1>2, PlansAre DEF Subs
  <2>3. n <= Len(invoices')
    BY <1>3, <1>5
  <2> QED
    BY <1>5, <2>1, <2>2, <2>3 DEF Fair
<1>9. \A e \in events' \ events : EventFair(e, invoices', sub', past'.top)
  BY <1>5, <1>7, ToldFair
<1> QED
  BY <1>1, <1>6, <1>7, <1>8, <1>9, ChangeFair

\* No invoice changes, nor the price.
LEMMA SameFair ==
    ASSUME PlanInv, PlanInv', FairInv, user' = user, invoices' = invoices, creator' = "approved" => creator = "approved" \/ past'.top >= 1,
           sub'.invoice = sub.invoice, sub'.price = sub.price, sub'.paid \in {0, sub.paid},
           NEW top \in Plans, NEW odd \in SUBSET Oddities, S!Changed(top, odd),
           NEW kinds, NEW s, NEW p, NEW end, S!Tell(kinds, s, 0, p, end), s \in {sub', S!NoSub},
           "paid" \notin kinds, "granted" \in kinds => p <= past'.top,
           \A h \in Hooks : hook'[h] = hook[h] \/ HookFair(hook'[h], invoices', sub', past'.top, past'.oddities)
    PROVE  FairInv'
<1>1. past'.top \in Plans /\ past'.top >= past.top /\ past'.top >= top /\ past.oddities \subseteq past'.oddities
  BY ChangedFair
<1>2. sub' \in Subs /\ invoices' \in Seq(Bills) /\ past.top \in Plans
  BY TypesAre DEF PlanInv, PlanTyped, Pasts
<1>3. Billed(invoices', sub', past'.top)
  BY <1>1, <1>2, TypesAre DEF Billed
<1>4. SubFair(sub', invoices', sub', past'.top)
  <2>1. SubFair(sub, invoices', sub', past'.top)
    BY <1>3, MoreStays, TypesAre DEF FairInv
  <2> QED
    BY <1>1, <2>1, PlansAre DEF SubFair
<1>5. SubFair(S!NoSub, invoices', sub', past'.top)
  BY <1>1, <1>2, RestFair
<1>6. \A e \in events' \ events : EventFair(e, invoices', sub', past'.top)
  BY <1>4, <1>5, ToldFair
<1>7. \A k \in 1..Len(invoices') : ~(k > Len(invoices) \/ invoices'[k].plan # invoices[k].plan)
  BY TypesAre
<1> QED
  BY <1>1, <1>3, <1>4, <1>6, <1>7, ChangeFair

LEMMA CheckoutFair ==
    ASSUME PlanInv, PlanInv', FairInv, NEW p \in S!Paid, S!Checkout(p)
    PROVE  FairInv'
<1> DEFINE kinds == {"checkout", "updated", "paid"}
           odd == S!If(store.plan # S!Free, "excepted")
<1>1. p \in Plans /\ odd \in SUBSET Oddities
  BY PlansAre, OddIs DEF Oddities
<1>2. /\ invoices' = Append(invoices, S!Bill(p, TRUE)) /\ S!Tell(kinds, sub', Len(invoices) + 1, p, 0)
      /\ sub' = [status |-> "active", price |-> p, paid |-> p, invoice |-> Len(invoices) + 1, cancels |-> FALSE]
      /\ S!Changed(p, odd) /\ UNCHANGED <<user, store, creator, seen, hook>>
  BY DEF S!Checkout, S!Bills
<1>3. sub'.price = p /\ sub'.paid = p /\ sub'.invoice = Len(invoices) + 1 /\ "granted" \notin kinds /\ p <= p
  BY <1>1, <1>2, PlansAre
<1> HIDE DEF odd, kinds
<1>4. past'.top >= p /\ past'.top \in Plans
  BY <1>1, <1>2, ChangedFair
<1>5. p <= past'.top
  BY <1>1, <1>4, PlansAre
<1> QED
  BY <1>1, <1>2, <1>3, <1>5, BillFair

LEMMA UpgradeFair ==
    ASSUME PlanInv, PlanInv', FairInv, NEW settled \in BOOLEAN, NEW named \in BOOLEAN, S!Upgrade(settled, named)
    PROVE  FairInv'
<1> DEFINE kind == IF settled THEN "paid" ELSE "failed"
           bill == IF named THEN S!Scale ELSE S!Free
           kinds == {"updated", kind}
           most == sub'.paid
<1>1. bill \in Plans /\ bill <= 2 /\ ("paid" \in kinds => settled) /\ "granted" \notin kinds /\ {} \in SUBSET Oddities
  BY PlansAre
<1>2. /\ invoices' = Append(invoices, S!Bill(bill, settled)) /\ S!Tell(kinds, sub', Len(invoices) + 1, S!Free, 0)
      /\ S!Changed(most, {}) /\ UNCHANGED <<user, store, creator, seen, hook>>
  BY DEF S!Upgrade, S!Bills
<1>3. PICK state :
        sub' = [sub EXCEPT !.price = S!Scale, !.invoice = Len(invoices) + 1, !.status = state, !.paid = IF settled THEN S!Scale ELSE sub.paid]
  BY DEF S!Upgrade, S!Bills
<1>4. sub'.price = 2 /\ sub'.invoice = Len(invoices) + 1 /\ (settled => sub'.paid = 2)
  BY <1>3, TypesAre, PlansAre DEF Subs
<1>5. most \in Plans
  BY DEF PlanInv, PlanTyped, Subs
<1>6. past'.top >= most /\ past'.top \in Plans
  BY <1>2, <1>1, <1>5, ChangedFair
<1>7. most <= past'.top /\ (settled => sub'.price <= past'.top)
  BY <1>4, <1>5, <1>6, PlansAre
<1>8. bill <= sub'.price /\ sub'.paid <= past'.top
  BY <1>1, <1>4, <1>7
<1> HIDE DEF kinds, kind, bill, most
<1> QED
  BY <1>1, <1>2, <1>4, <1>5, <1>7, <1>8, BillFair

LEMMA DowngradeFair ==
    ASSUME PlanInv, PlanInv', FairInv, S!Downgrade
    PROVE  FairInv'
<1> DEFINE kinds == {"updated", "paid"}
           bill == S!Pro
<1>1. bill \in Plans /\ bill <= bill /\ "granted" \notin kinds /\ {} \in SUBSET Oddities
  BY PlansAre
<1>2. /\ invoices' = Append(invoices, S!Bill(bill, TRUE)) /\ S!Tell(kinds, sub', Len(invoices) + 1, S!Free, 0)
      /\ S!Changed(bill, {}) /\ UNCHANGED <<user, store, creator, seen, hook>>
      /\ sub' = [sub EXCEPT !.price = S!Pro, !.paid = S!Pro, !.invoice = Len(invoices) + 1]
  BY DEF S!Downgrade, S!Bills
<1>3. sub'.price = bill /\ sub'.paid = bill /\ sub'.invoice = Len(invoices) + 1
  BY <1>2, TypesAre DEF Subs
<1>4. past'.top >= bill /\ past'.top \in Plans
  BY <1>1, <1>2, ChangedFair
<1>5. bill <= past'.top
  BY <1>1, <1>4, PlansAre
<1> HIDE DEF kinds, bill
<1> QED
  BY <1>1, <1>2, <1>3, <1>5, BillFair

LEMMA RenewalFailsFair ==
    ASSUME PlanInv, PlanInv', FairInv, S!RenewalFails
    PROVE  FairInv'
<1> DEFINE kinds == {"updated", "failed"}
           bill == sub.price
<1>1. bill \in Plans /\ bill <= bill /\ "granted" \notin kinds /\ "paid" \notin kinds /\ {} \in SUBSET Oddities /\ S!Free \in Plans
  BY PlansAre, TypesAre
<1>2. /\ invoices' = Append(invoices, S!Bill(bill, FALSE)) /\ S!Tell(kinds, sub', Len(invoices) + 1, S!Free, 0)
      /\ S!Changed(S!Free, {}) /\ UNCHANGED <<user, store, creator, seen, hook>>
      /\ sub' = [sub EXCEPT !.status = "past_due", !.invoice = Len(invoices) + 1]
  BY DEF S!RenewalFails, S!Bills
<1>3. sub'.price = bill /\ sub'.paid = sub.paid /\ sub'.invoice = Len(invoices) + 1
  BY <1>2, TypesAre DEF Subs
<1>4. past'.top >= past.top /\ past'.top \in Plans
  BY <1>1, <1>2, ChangedFair
<1>5. sub'.paid <= past'.top
  BY <1>3, <1>4, PlansAre, TypesAre DEF FairInv, SubFair, Pasts
<1> HIDE DEF kinds, bill
<1> QED
  BY <1>1, <1>2, <1>3, <1>5, BillFair

\* What is paid is the subscription's price: no invoice of it names or notes a higher plan.
LEMMA PayFair ==
    ASSUME PlanInv, PlanInv', FairInv, S!Pay
    PROVE  FairInv'
<1> DEFINE kinds == {"updated", "paid"}
           n == sub.invoice
           bill == [invoices[n] EXCEPT !.settled = TRUE]
<1>1. n \in 1..Len(invoices) /\ {} \in SUBSET Oddities /\ sub.price \in Plans
  BY TypesAre DEF S!Pay, S!Live, PlanInv, Sold
<1>2. /\ invoices' = [invoices EXCEPT ![n] = bill]
      /\ sub' = [sub EXCEPT !.status = "active", !.paid = sub.price]
      /\ S!Tell(kinds, sub', n, S!Free, 0) /\ S!Changed(sub.price, {})
      /\ UNCHANGED <<user, store, creator, seen, hook>>
  BY DEF S!Pay
<1>3. bill \in Bills /\ bill.settled = TRUE /\ bill.plan = invoices[n].plan
  BY <1>1, TypesAre DEF Bills
<1>4. "granted" \notin kinds
  OBVIOUS
<1> HIDE DEF bill, n, kinds
<1>5. /\ invoices' \in Seq(Bills) /\ Len(invoices') = Len(invoices)
      /\ \A k \in 1..Len(invoices) : invoices'[k] = IF k = n THEN bill ELSE invoices[k]
  BY <1>1, <1>2, <1>3, TypesAre
<1>6. sub' \in Subs /\ sub'.invoice = n /\ sub'.price = sub.price /\ sub'.paid = sub.price
  BY <1>2, TypesAre DEF Subs, n
<1>7. past'.top \in Plans /\ past'.top >= past.top /\ past'.top >= sub.price /\ past.oddities \subseteq past'.oddities
  BY <1>1, <1>2, ChangedFair
<1>8. sub.price <= past'.top
  BY <1>1, <1>7, PlansAre
<1>9. Billed(invoices', sub', past'.top)
  <2>1. \A k \in 1..Len(invoices) : /\ invoices[k].settled => invoices'[k].settled
                                    /\ invoices'[k].settled => invoices[k].settled \/ (k = sub.invoice /\ sub.price <= past'.top)
    BY <1>3, <1>5, <1>8 DEF n
  <2>2. Len(invoices') >= Len(invoices)
    BY <1>5, TypesAre
  <2> QED
    BY <1>5, <1>6, <1>7, <2>1, <2>2 DEF Billed, n
<1>10. SubFair(sub', invoices', sub', past'.top)
  <2>1. n <= Len(invoices') /\ sub'.price <= sub'.price
    BY <1>1, <1>5, <1>6, TypesAre, PlansAre
  <2> QED
    BY <1>6, <1>8, <2>1 DEF SubFair, Fair
<1>11. \A k \in 1..Len(invoices') : ~(k > Len(invoices) \/ invoices'[k].plan # invoices[k].plan)
  BY <1>3, <1>5, TypesAre
<1>12. \A e \in events' \ events : EventFair(e, invoices', sub', past'.top)
  <2>1. invoices'[n].settled
    BY <1>1, <1>3, <1>5
  <2> DEFINE s == sub'
  <2>2. S!Tell(kinds, s, n, S!Free, 0) /\ SubFair(s, invoices', sub', past'.top)
    BY <1>2, <1>10
  <2> HIDE DEF s
  <2> QED
    BY <1>4, <2>1, <2>2, ToldFair
<1> QED
  BY <1>2, <1>7, <1>9, <1>10, <1>11, <1>12, ChangeFair

LEMMA SubscriptionFair ==
    ASSUME PlanInv, PlanInv', FairInv, S!RetriesOver \/ S!ScheduleCancellation \/ S!EndSubscription
    PROVE  FairInv'
<1>1. PICK kind \in {"updated", "cancels", "deleted"} : S!Tell({kind}, sub', 0, S!Free, 0)
  BY DEF S!RetriesOver, S!ScheduleCancellation, S!EndSubscription
<1>2. S!Changed(S!Free, {}) /\ UNCHANGED <<user, invoices, store, creator, seen, hook>>
  BY DEF S!RetriesOver, S!ScheduleCancellation, S!EndSubscription
<1>3. sub'.invoice = sub.invoice /\ sub'.price = sub.price /\ sub'.paid \in {0, sub.paid}
  BY TypesAre, PlansAre DEF S!RetriesOver, S!ScheduleCancellation, S!EndSubscription, Subs
<1> DEFINE kinds == {kind}
           s == sub'
<1>4. S!Tell(kinds, s, 0, S!Free, 0) /\ "paid" \notin kinds /\ "granted" \notin kinds /\ s \in {sub', S!NoSub}
      /\ {} \in SUBSET Oddities /\ S!Free \in Plans
  BY <1>1, PlansAre
<1> HIDE DEF kinds, s
<1> QED
  BY <1>2, <1>3, <1>4, SameFair

LEMMA StoreTells ==
    ASSUME PlanInv, PlanInv', FairInv, UNCHANGED <<user, sub, invoices, creator, seen, hook>>,
           NEW kind, NEW p \in Plans, NEW end, NEW top \in Plans, NEW odd \in SUBSET Oddities,
           S!Tell({kind}, S!NoSub, 0, p, end), S!Changed(top, odd), kind # "paid", kind = "granted" => p = top
    PROVE  FairInv'
<1> DEFINE kinds == {kind}
           s == S!NoSub
<1>1. past'.top >= top /\ past'.top \in Plans
  BY ChangedFair
<1>2. "granted" \in kinds => p <= past'.top
  BY <1>1, PlansAre
<1>3. S!Tell(kinds, s, 0, p, end) /\ "paid" \notin kinds /\ s \in {sub', S!NoSub} /\ sub'.paid \in {0, sub.paid}
  OBVIOUS
<1> HIDE DEF kinds, s
<1> QED
  BY <1>2, <1>3, SameFair

LEMMA StoreFair ==
    ASSUME PlanInv, PlanInv', FairInv,
           \/ \E p \in S!Paid : S!StoreGrants(p)
           \/ \E grace \in BOOLEAN : S!StoreCannotBill(grace)
           \/ \E kind \in {"expired", "transferred"} : S!StoreEnds(kind)
    PROVE  FairInv'
<1>1. UNCHANGED <<user, sub, invoices, creator, seen, hook>> /\ S!Free \in Plans /\ {} \in SUBSET Oddities
  BY PlansAre DEF S!StoreGrants, S!StoreCannotBill, S!StoreEnds
<1>2. ASSUME NEW p \in S!Paid, S!StoreGrants(p)
      PROVE  FairInv'
  <2> DEFINE odd == S!If(S!Live(sub), "excepted")
             end == S!Now + 1
  <2>1. S!Tell({"granted"}, S!NoSub, 0, p, end) /\ S!Changed(p, odd) /\ p \in Plans /\ odd \in SUBSET Oddities
    BY <1>2, OddIs, PlansAre DEF S!StoreGrants, Oddities
  <2> HIDE DEF odd, end
  <2> QED
    BY <1>1, <2>1, StoreTells
<1>3. ASSUME NEW grace \in BOOLEAN, S!StoreCannotBill(grace)
      PROVE  FairInv'
  <2> DEFINE kind == IF grace THEN "grace" ELSE "issue"
             end == S!Now + 1
  <2>1. S!Tell({kind}, S!NoSub, 0, S!Free, end) /\ S!Changed(S!Free, {}) /\ kind # "paid" /\ kind # "granted"
    BY <1>3 DEF S!StoreCannotBill
  <2> HIDE DEF kind, end
  <2> QED
    BY <1>1, <2>1, StoreTells
<1>4. ASSUME NEW kind \in {"expired", "transferred"}, S!StoreEnds(kind)
      PROVE  FairInv'
  <2> DEFINE end == store.end
  <2>1. S!Tell({kind}, S!NoSub, 0, S!Free, end) /\ S!Changed(S!Free, {}) /\ kind # "paid" /\ kind # "granted"
    BY <1>4 DEF S!StoreEnds
  <2> HIDE DEF end
  <2> QED
    BY <1>1, <2>1, StoreTells
<1> QED
  BY <1>2, <1>3, <1>4

LEMMA RequestFair ==
    ASSUME PlanInv, NEW bills \in Seq(Bills), NEW s \in Subs, NEW top \in Plans, NEW kind \in Kinds, kind \notin {"paid", "granted"},
           NEW n \in Nat
    PROVE  EventFair(S!Request(kind, n), bills, s, top)
BY RequestIs, RestFair DEF EventFair

LEMMA ApproveFair ==
    ASSUME PlanInv, PlanInv', FairInv, NEW h \in Hooks, S!Approve(h) \/ S!Revoke(h)
    PROVE  FairInv'
<1> DEFINE n == past.changes + 1
           odd == S!If(\E g \in Hooks : hook[g].at = "grant", "excepted")
           kinds == {}
           r == hook'[h]
<1>1. UNCHANGED <<user, sub, invoices, store, events, seen>> /\ n \in Nat
  <2>1. n \in Nat
    BY TypesAre
  <2> QED
    BY <2>1 DEF S!Approve, S!Revoke
<1>2. odd \in SUBSET Oddities /\ {} \in SUBSET Oddities /\ S!Pro \in Plans /\ S!Free \in Plans /\ S!Pro = 1
  BY OddIs, PlansAre DEF Oddities
<1>3. hook[h] \in HookStates /\ HookFair(hook[h], invoices, sub, past.top, past.oddities) /\ hook[h].at = "rest"
      /\ HookOk(hook[h], store, invoices, past.changes)
  BY TypesAre DEF FairInv, PlanInv, S!Approve, S!Revoke
<1>4. \/ /\ S!Changed(S!Pro, {}) /\ creator' = "approved"
         /\ hook' = [hook EXCEPT ![h] = [hook[h] EXCEPT !.at = "grant", !.event = S!Request("approve", n)]]
      \/ /\ S!Changed(S!Free, odd) /\ creator' = "revoked"
         /\ hook' = [hook EXCEPT ![h] = [hook[h] EXCEPT !.at = "write", !.event = S!Request("revoke", n)]]
  <2>1. CASE S!Approve(h)
    BY <2>1, TypesAre DEF S!Approve, S!Now
  <2>2. CASE S!Revoke(h)
    BY <2>2, TypesAre DEF S!Revoke, S!Now
  <2> QED
    BY <2>1, <2>2
<1> HIDE DEF n, odd
<1>5. PICK top \in Plans, more \in SUBSET Oddities, at \in {"grant", "write"}, kind \in {"approve", "revoke"} :
        /\ S!Changed(top, more) /\ (at = "grant" \/ creator' = "approved" => top = 1)
        /\ hook' = [hook EXCEPT ![h] = [hook[h] EXCEPT !.at = at, !.event = S!Request(kind, n)]]
  BY <1>2, <1>4
<1>6. past'.top \in Plans /\ past'.top >= past.top /\ past'.top >= top /\ past.oddities \subseteq past'.oddities
  BY <1>5, ChangedFair
<1>7. /\ r.at = at /\ r.event = S!Request(kind, n) /\ r.sub = hook[h].sub /\ r.row = hook[h].row
      /\ \A g \in Hooks : g # h => hook'[g] = hook[g]
  BY <1>3, <1>5, TypesAre DEF HookStates
<1>8. EventFair(r.event, invoices', sub', past'.top) /\ r.event.kind = kind
  <2>1. kind \in Kinds
    BY DEF Kinds
  <2> QED
    BY <1>1, <1>6, <1>7, <2>1, RequestFair, RequestIs, TypesAre
<1>9. Billed(invoices', sub', past'.top)
  BY <1>1, <1>6, TypesAre DEF Billed
<1>10. SubFair(r.sub, invoices', sub', past'.top) /\ RowFair(r.row, invoices', sub', past'.top, past'.oddities)
  <2>1. HookFair(hook[h], invoices', sub', past'.top, past'.oddities)
    BY <1>3, <1>6, <1>9, MoreStays
  <2> QED
    BY <1>7, <2>1 DEF HookFair
<1>11. HookFair(r, invoices', sub', past'.top, past'.oddities)
  <2>1. r.at = "grant" => past'.top >= 1
    BY <1>5, <1>6, <1>7
  <2> QED
    BY <1>8, <1>10, <2>1 DEF HookFair, S!Syncs
<1>12. creator' = "approved" => creator = "approved" \/ past'.top >= 1
  BY <1>5, <1>6
<1>13. \A g \in Hooks : hook'[g] = hook[g] \/ HookFair(hook'[g], invoices', sub', past'.top, past'.oddities)
  BY <1>7, <1>11
<1>14. S!Tell(kinds, S!NoSub, 0, 0, 0) /\ "paid" \notin kinds /\ "granted" \notin kinds /\ sub'.paid \in {0, sub.paid}
  BY <1>1 DEF S!Tell
<1> HIDE DEF kinds, r
<1> QED
  BY <1>1, <1>5, <1>12, <1>13, <1>14, SameFair

LEMMA ResumeFair ==
    ASSUME PlanInv, PlanInv', FairInv, NEW h \in Hooks, S!Resume(h)
    PROVE  FairInv'
<1> DEFINE n == past.changes + 1
           odd == S!If(S!Overtakes(n), "excepted")
           kinds == {"updated"}
           s == sub'
           r == hook'[h]
<1>1. UNCHANGED <<user, invoices, store, creator, seen>> /\ S!Tell(kinds, s, 0, S!Free, 0) /\ S!Changed(S!Free, odd)
      /\ n \in Nat
  BY TypesAre DEF S!Resume, S!Now
<1>2. sub'.invoice = sub.invoice /\ sub'.price = sub.price /\ sub'.paid = sub.paid /\ sub' \in Subs
  BY TypesAre DEF S!Resume, Subs
<1>3. hook' = [hook EXCEPT ![h] = [hook[h] EXCEPT !.at = "read", !.event = S!Request("resume", n), !.sub = s]]
  BY TypesAre DEF S!Resume, S!Now
<1>4. odd \in SUBSET Oddities /\ S!Free \in Plans /\ "paid" \notin kinds /\ "granted" \notin kinds /\ s \in {sub', S!NoSub}
  BY OddIs, PlansAre DEF Oddities
<1>5. hook[h] \in HookStates /\ HookFair(hook[h], invoices, sub, past.top, past.oddities)
      /\ HookOk(hook[h], store, invoices, past.changes)
  BY TypesAre DEF FairInv, PlanInv
<1>6. past'.top \in Plans /\ past'.top >= past.top /\ past.oddities \subseteq past'.oddities
  BY <1>1, <1>4, ChangedFair
<1>7. /\ r.at = "read" /\ r.event = S!Request("resume", n) /\ r.sub = s /\ r.row = hook[h].row
      /\ \A g \in Hooks : g # h => hook'[g] = hook[g]
  BY <1>3, <1>5, TypesAre DEF HookStates
<1>8. Billed(invoices', sub', past'.top)
  BY <1>1, <1>2, <1>6, TypesAre DEF Billed
<1>9. EventFair(r.event, invoices', sub', past'.top)
  <2>1. "resume" \in Kinds /\ "resume" \notin {"paid", "granted"}
    BY DEF Kinds
  <2> QED
    BY <1>1, <1>2, <1>6, <1>7, <2>1, RequestFair, TypesAre
<1>10. SubFair(s, invoices', sub', past'.top)
  <2>1. SubFair(sub, invoices', sub', past'.top)
    BY <1>6, <1>8, MoreStays, TypesAre DEF FairInv
  <2> QED
    BY <1>2, <2>1 DEF SubFair
<1>11. RowFair(r.row, invoices', sub', past'.top, past'.oddities)
  <2>1. HookFair(hook[h], invoices', sub', past'.top, past'.oddities)
    BY <1>5, <1>6, <1>8, MoreStays
  <2> QED
    BY <1>7, <2>1 DEF HookFair
<1>12. \A g \in Hooks : hook'[g] = hook[g] \/ HookFair(hook'[g], invoices', sub', past'.top, past'.oddities)
  BY <1>7, <1>9, <1>10, <1>11 DEF HookFair
<1>13. sub'.paid \in {0, sub.paid}
  BY <1>2
<1> HIDE DEF kinds, r, odd, s
<1> QED
  BY <1>1, <1>2, <1>4, <1>12, <1>13, SameFair

-----------------------------------------------------------------------------
(* A handler goes on.                                                       *)

LEMMA HandlerFair ==
    ASSUME PlanInv, PlanInv', FairInv, UNCHANGED <<sub, invoices, store, creator>>, events' \subseteq events,
           past'.top = past.top, past.oddities \subseteq past'.oddities \cup {"legacy"},
           RowFair(user', invoices, sub, past.top, past'.oddities),
           \A h \in Hooks : hook'[h] = hook[h] \/ HookFair(hook'[h], invoices, sub, past.top, past'.oddities)
    PROVE  FairInv'
<1>1. past.top \in Plans
  BY TypesAre DEF Pasts
<1>2. Billed(invoices, sub, past.top)
  BY <1>1, TypesAre, PlansAre DEF Billed
<1>3. \A h \in Hooks : HookFair(hook'[h], invoices, sub, past.top, past'.oddities)
  BY <1>2, MoreStays, TypesAre DEF FairInv, PlanInv
<1> QED
  BY <1>3 DEF FairInv

\* What is true of a handler stays true while the notes of the past grow.
LEMMA HookStays ==
    ASSUME PlanInv, FairInv, NEW h \in Hooks, NEW odd, past.oddities \subseteq odd \cup {"legacy"}
    PROVE  HookFair(hook[h], invoices, sub, past.top, odd) /\ RowFair(user, invoices, sub, past.top, odd)
<1>1. past.top \in Plans
  BY TypesAre DEF Pasts
<1>2. Billed(invoices, sub, past.top)
  BY <1>1, TypesAre, PlansAre DEF Billed
<1> QED
  BY <1>2, MoreStays, TypesAre DEF FairInv, PlanInv

LEMMA BeganFair ==
    ASSUME PlanInv, NEW n, S!Began(n)
    PROVE  past'.top = past.top /\ past.oddities \subseteq past'.oddities
<1> DEFINE odd == past.oddities \cup S!If(S!Overtakes(n), "excepted")
<1>1. past' = [past EXCEPT !.oddities = odd] /\ past.oddities \subseteq odd
  BY DEF S!Began
<1> HIDE DEF odd
<1> QED
  BY <1>1, TypesAre DEF Pasts

LEMMA ReceiveFair ==
    ASSUME PlanInv, PlanInv', FairInv, NEW h \in Hooks, NEW e \in events, S!Receive(h, e)
    PROVE  FairInv'
<1> DEFINE r == [S!Rest EXCEPT !.at = S!Opens(e.kind), !.event = e, !.sub = e.sub]
<1>1. e \in Told /\ EventFair(e, invoices, sub, past.top)
  BY DEF PlanInv, PlanTyped, FairInv
<1>2. hook' = [hook EXCEPT ![h] = r] /\ S!Began(e.id[1]) /\ UNCHANGED <<user, sub, invoices, store, creator, events>>
  BY DEF S!Receive
<1>3. past'.top = past.top /\ past.oddities \subseteq past'.oddities
  BY <1>2, BeganFair
<1>4. e.kind \in Kinds
  BY <1>1 DEF Told
<1>5. S!Opens(e.kind) # "grant" /\ (S!Opens(e.kind) = "write" => ~S!Syncs(e.kind) \/ e.kind = "resume")
  BY <1>4 DEF S!Opens, S!Syncs
<1>6. r.at = S!Opens(e.kind) /\ r.event = e /\ r.sub = e.sub /\ r.row = S!Rest.row /\ r.settled = FALSE
  BY NothingIs DEF HookStates, S!Rest
<1> HIDE DEF r
<1>7. RowFair(r.row, invoices, sub, past.top, past'.oddities)
  <2>1. HookFair(S!Rest, invoices, sub, past.top, past'.oddities)
    BY RestFair, TypesAre DEF Pasts
  <2> QED
    BY <1>6, <2>1 DEF HookFair
<1>8. HookFair(r, invoices, sub, past.top, past'.oddities)
  BY <1>1, <1>5, <1>6, <1>7 DEF HookFair, EventFair
<1>9. \A g \in Hooks : hook'[g] = hook[g] \/ HookFair(hook'[g], invoices, sub, past.top, past'.oddities)
  BY <1>2, <1>8, TypesAre
<1>10. RowFair(user', invoices, sub, past.top, past'.oddities)
  BY <1>2, <1>3, HookStays
<1> QED
  BY <1>2, <1>3, <1>9, <1>10, HandlerFair

LEMMA RepeatFair ==
    ASSUME PlanInv, PlanInv', FairInv, NEW e \in events, S!Repeat(e)
    PROVE  FairInv'
<1>1. events' \subseteq events /\ UNCHANGED <<user, sub, invoices, store, creator, hook, past>>
  BY DEF S!Repeat
<1> QED
  BY <1>1 DEF FairInv

LEMMA RetrieveFair ==
    ASSUME PlanInv, PlanInv', FairInv, NEW h \in Hooks, S!Retrieve(h)
    PROVE  FairInv'
<1> DEFINE at == IF hook[h].event.kind = "cancels" THEN "read" ELSE "write"
           r == [hook[h] EXCEPT !.sub = sub, !.at = at]
<1>1. hook[h] \in HookStates /\ HookFair(hook[h], invoices, sub, past.top, past.oddities) /\ hook[h].event.kind \in {"cancels", "checkout", "summary"}
  BY TypesAre DEF PlanInv, HookOk, Handled, S!Retrieve, FairInv
<1>2. UNCHANGED <<sub, invoices, store, creator, events, past>>
  BY DEF S!Retrieve
<1>3. hook' = [hook EXCEPT ![h] = r]
  BY TypesAre DEF S!Retrieve
<1>4. at # "grant" /\ (at = "write" => ~S!Syncs(hook[h].event.kind))
  BY <1>1 DEF S!Syncs
<1>5. r.at = at /\ r.event = hook[h].event /\ r.sub = sub /\ r.row = hook[h].row
  BY <1>1 DEF HookStates
<1>6. user'.plan = user.plan /\ user'.pending = user.pending /\ user'.invoice = user.invoice
  BY TypesAre DEF S!Retrieve, Users
<1> HIDE DEF r, at
<1>7. HookFair(r, invoices, sub, past.top, past'.oddities)
  BY <1>1, <1>2, <1>4, <1>5 DEF HookFair, FairInv
<1>8. \A g \in Hooks : hook'[g] = hook[g] \/ HookFair(hook'[g], invoices, sub, past.top, past'.oddities)
  BY <1>3, <1>7, TypesAre
<1>9. RowFair(user', invoices, sub, past.top, past'.oddities)
  BY <1>2, <1>6 DEF RowFair, FairInv
<1> QED
  BY <1>2, <1>8, <1>9, HandlerFair

LEMMA ReadRowFair ==
    ASSUME PlanInv, PlanInv', FairInv, NEW h \in Hooks, S!ReadRow(h)
    PROVE  FairInv'
<1> DEFINE asks == S!Syncs(hook[h].event.kind) /\ hook[h].sub.price > user.plan
           at == IF asks THEN "ask" ELSE "write"
           r == [hook[h] EXCEPT !.row = user, !.at = at]
<1>1. hook[h] \in HookStates /\ HookFair(hook[h], invoices, sub, past.top, past.oddities)
  BY TypesAre DEF FairInv
<1>2. UNCHANGED <<user, sub, invoices, store, creator, events, past>>
  BY DEF S!ReadRow
<1>3. hook' = [hook EXCEPT ![h] = r]
  BY TypesAre DEF S!ReadRow
<1>4. at # "grant" /\ (at = "write" => ~S!Syncs(hook[h].event.kind) \/ ~(hook[h].sub.price > user.plan))
  OBVIOUS
<1>5. r.at = at /\ r.event = hook[h].event /\ r.sub = hook[h].sub /\ r.row = user
  BY <1>1 DEF HookStates
<1> HIDE DEF r, at, asks
<1>7. HookFair(r, invoices, sub, past.top, past'.oddities)
  BY <1>1, <1>2, <1>4, <1>5 DEF HookFair, FairInv
<1>8. \A g \in Hooks : hook'[g] = hook[g] \/ HookFair(hook'[g], invoices, sub, past.top, past'.oddities)
  BY <1>3, <1>7, TypesAre
<1>9. RowFair(user', invoices, sub, past.top, past'.oddities)
  BY <1>2 DEF FairInv
<1> QED
  BY <1>2, <1>8, <1>9, HandlerFair

LEMMA ResolveInvoiceFair ==
    ASSUME PlanInv, PlanInv', FairInv, NEW h \in Hooks, S!ResolveInvoice(h)
    PROVE  FairInv'
<1> DEFINE settled == invoices[hook[h].sub.invoice].settled
           r == [hook[h] EXCEPT !.settled = settled, !.at = "write"]
<1>1. hook[h] \in HookStates /\ HookFair(hook[h], invoices, sub, past.top, past.oddities) /\ hook[h].at = "ask"
      /\ HookOk(hook[h], store, invoices, past.changes)
  BY TypesAre DEF FairInv, PlanInv, S!ResolveInvoice
<1>2. UNCHANGED <<user, sub, invoices, store, creator, events, past>>
  BY DEF S!ResolveInvoice
<1>3. hook' = [hook EXCEPT ![h] = r]
  BY TypesAre DEF S!ResolveInvoice
<1>4. hook[h].sub.invoice \in 1..Len(invoices)
  BY <1>1, PlansAre DEF HookOk, Handled, Sold
<1>5. settled => hook[h].sub.price <= past.top
  BY <1>1, <1>4 DEF HookFair, SubFair, Fair
<1>6. r.at = "write" /\ r.event = hook[h].event /\ r.sub = hook[h].sub /\ r.row = hook[h].row /\ r.settled = settled
  BY <1>1 DEF HookStates
<1> HIDE DEF r, settled
<1>7. HookFair(r, invoices, sub, past.top, past'.oddities)
  BY <1>1, <1>2, <1>5, <1>6 DEF HookFair
<1>8. \A g \in Hooks : hook'[g] = hook[g] \/ HookFair(hook'[g], invoices, sub, past.top, past'.oddities)
  BY <1>3, <1>7, TypesAre
<1>9. RowFair(user', invoices, sub, past.top, past'.oddities)
  BY <1>2 DEF FairInv
<1> QED
  BY <1>2, <1>8, <1>9, HandlerFair

-----------------------------------------------------------------------------
(* What a handler writes was paid for.                                      *)

LEMMA ZeroFair ==
    ASSUME PlanInv
    PROVE  Fair(0, 0, invoices, sub, past.top) /\ past.top \in Plans
<1>1. past.top \in Plans /\ sub.price \in Plans /\ Len(invoices) \in Nat
  BY TypesAre DEF Pasts
<1> QED
  BY <1>1, PlansAre DEF Fair

LEMMA StripeFair ==
    ASSUME PlanInv, NEW odd, NEW p, NEW state, p <= past.top \/ "ahead" \in odd
    PROVE  RowFair(S!StripeUser(p, state), invoices, sub, past.top, odd)
<1>1. S!StripeUser(p, state).plan = p /\ S!StripeUser(p, state).pending = 0 /\ S!StripeUser(p, state).invoice = 0
  BY PlansAre DEF S!StripeUser, S!FreeUser
<1> QED
  BY <1>1, ZeroFair DEF RowFair

LEMMA UpsertFair ==
    ASSUME PlanInv, NEW odd, RowFair(user, invoices, sub, past.top, odd), NEW s, NEW p, p <= past.top \/ "ahead" \in odd
    PROVE  RowFair(S!Upsert(s, p), invoices, sub, past.top, odd)
BY StripeFair DEF S!Upsert

LEMMA SyncFair ==
    ASSUME PlanInv, NEW odd, RowFair(user, invoices, sub, past.top, odd), NEW r \in HookStates,
           HookFair(r, invoices, sub, past.top, odd), r.at = "write", S!Syncs(r.event.kind)
    PROVE  RowFair(S!Sync(r), invoices, sub, past.top, odd)
<1>1. r.sub \in Subs /\ r.sub.price \in Plans /\ r.row.plan \in Plans /\ past.top \in Plans
  BY ZeroFair DEF HookStates, Subs, Users
<1> DEFINE state == IF r.row.plan # S!Free /\ r.sub.status \notin S!Entitled THEN "past_due" ELSE r.sub.status
           noted == [S!StripeUser(r.row.plan, state) EXCEPT !.pending = r.sub.price, !.invoice = r.sub.invoice]
<1>2. r.row.plan <= past.top \/ "ahead" \in odd
  BY DEF HookFair, RowFair
<1>3. CASE r.sub.price <= r.row.plan
  <2>1. S!PaidPlan(r.sub) <= past.top \/ "ahead" \in odd
    BY <1>1, <1>2, <1>3, PlansAre DEF S!PaidPlan
  <2> QED
    BY <1>3, <2>1, UpsertFair DEF S!Sync
<1>4. CASE ~(r.sub.price <= r.row.plan) /\ r.settled /\ r.sub.status \notin S!Blocking
  <2>1. r.sub.price <= past.top
    BY <1>1, <1>4, PlansAre DEF HookFair
  <2>2. S!Sync(r) = S!Upsert(r.sub, r.sub.price)
    BY <1>4 DEF S!Sync
  <2> QED
    BY <2>1, <2>2, UpsertFair
<1>5. CASE ~(r.sub.price <= r.row.plan) /\ ~(r.settled /\ r.sub.status \notin S!Blocking)
  <2>1. S!Sync(r) \in {noted, user}
    BY <1>5 DEF S!Sync
  <2>2. noted.plan = r.row.plan /\ noted.pending = r.sub.price /\ noted.invoice = r.sub.invoice
    BY DEF S!StripeUser, S!FreeUser
  <2> HIDE DEF noted
  <2>3. RowFair(noted, invoices, sub, past.top, odd)
    BY <1>2, <2>2 DEF RowFair, HookFair, SubFair
  <2> QED
    BY <2>1, <2>3
<1> QED
  BY <1>3, <1>4, <1>5

LEMMA HigherFair ==
    ASSUME PlanInv, FairInv, NEW odd, NEW r \in HookStates, HookFair(r, invoices, sub, past.top, odd),
           r.event.invoice \in 1..Len(invoices)
    PROVE  Fair(r.event.invoice, S!HigherPlan(r), invoices, sub, past.top)
<1> DEFINE k == r.event.invoice
<1>1. Fair(k, invoices[k].plan, invoices, sub, past.top)
  BY DEF FairInv
<1>2. S!Noted(r) => Fair(k, r.row.pending, invoices, sub, past.top)
  BY DEF S!Noted, HookFair, RowFair
<1>3. Fair(k, 0, invoices, sub, past.top)
  <2>1. past.top \in Plans /\ sub.price \in Plans /\ k <= Len(invoices)
    BY ZeroFair, TypesAre
  <2> QED
    BY <2>1, PlansAre DEF Fair
<1> QED
  BY <1>1, <1>2, <1>3, PlansAre DEF S!HigherPlan

LEMMA InvoicesFair ==
    ASSUME PlanInv, FairInv, NEW odd, RowFair(user, invoices, sub, past.top, odd), NEW r \in HookStates,
           HookFair(r, invoices, sub, past.top, odd), r.event.invoice \in 1..Len(invoices)
    PROVE  /\ r.event.kind = "paid" => RowFair(S!PaidInvoice(r), invoices, sub, past.top, odd)
           /\ RowFair(S!FailedInvoice(r), invoices, sub, past.top, odd)
<1> DEFINE done == [user EXCEPT !.pending = S!Free, !.invoice = 0]
           noted == [user EXCEPT !.pending = S!HigherPlan(r), !.invoice = r.event.invoice]
<1>1. Fair(r.event.invoice, S!HigherPlan(r), invoices, sub, past.top)
  BY HigherFair
<1>2. done.plan = user.plan /\ done.pending = 0 /\ done.invoice = 0
  BY TypesAre, PlansAre DEF Users
<1>3. noted.plan = user.plan /\ noted.pending = S!HigherPlan(r) /\ noted.invoice = r.event.invoice
  BY TypesAre DEF Users
<1>4. S!PaidInvoice(r) \in {user, done, S!StripeUser(S!HigherPlan(r), "active")} /\ S!FailedInvoice(r) \in {user, noted}
  BY DEF S!PaidInvoice, S!FailedInvoice
<1> HIDE DEF done, noted
<1>5. RowFair(done, invoices, sub, past.top, odd)
  BY <1>2, ZeroFair DEF RowFair
<1>6. RowFair(noted, invoices, sub, past.top, odd)
  BY <1>1, <1>3 DEF RowFair
<1>7. ASSUME r.event.kind = "paid"
      PROVE  RowFair(S!StripeUser(S!HigherPlan(r), "active"), invoices, sub, past.top, odd)
  <2>1. S!HigherPlan(r) <= past.top
    BY <1>1, <1>7 DEF Fair, HookFair, EventFair
  <2> QED
    BY <2>1, StripeFair
<1> QED
  BY <1>4, <1>5, <1>6, <1>7

LEMMA OthersFair ==
    ASSUME PlanInv, NEW odd, RowFair(user, invoices, sub, past.top, odd), NEW r \in HookStates,
           HookFair(r, invoices, sub, past.top, odd)
    PROVE  /\ RowFair(S!Deleted, invoices, sub, past.top, odd)
           /\ r.event.kind = "granted" => RowFair(S!Granted(r.event), invoices, sub, past.top, odd)
           /\ RowFair(S!StoreEnded(r.event), invoices, sub, past.top, odd)
           /\ RowFair(S!Grace(r.event), invoices, sub, past.top, odd)
           /\ RowFair(S!Issue, invoices, sub, past.top, odd) /\ RowFair(S!Revoked, invoices, sub, past.top, odd)
<1>1. \A p : 0 <= past.top
  BY ZeroFair, PlansAre
<1>2. S!FreeUser.plan = 0 /\ S!Free = 0 /\ DOMAIN S!FreeUser = DOMAIN user
  BY PlansAre, TypesAre DEF S!FreeUser, Users
<1>3. RowFair(S!Deleted, invoices, sub, past.top, odd)
  BY <1>1, <1>2 DEF S!Deleted, RowFair, S!FreeUser
<1>4. r.event.kind = "granted" => RowFair(S!Granted(r.event), invoices, sub, past.top, odd)
  BY TypesAre DEF S!Granted, RowFair, HookFair, EventFair, Users
<1>5. RowFair(S!StoreEnded(r.event), invoices, sub, past.top, odd)
  BY <1>1, <1>2, TypesAre DEF S!StoreEnded, RowFair, Users
<1>6. RowFair(S!Grace(r.event), invoices, sub, past.top, odd)
  BY TypesAre DEF S!Grace, RowFair, Users
<1>7. RowFair(S!Issue, invoices, sub, past.top, odd)
  BY TypesAre DEF S!Issue, RowFair, Users
<1>8. RowFair(S!Revoked, invoices, sub, past.top, odd)
  BY <1>1, <1>2, TypesAre DEF S!Revoked, RowFair, Users
<1> QED
  BY <1>3, <1>4, <1>5, <1>6, <1>7, <1>8

LEMMA WrittenFair ==
    ASSUME PlanInv, FairInv, NEW h \in Hooks, hook[h].at = "write", NEW odd, past.oddities \subseteq odd \cup {"legacy"},
           hook[h].event.kind \in {"checkout", "summary"} /\ hook[h].sub.price > hook[h].sub.paid => "ahead" \in odd
    PROVE  RowFair(S!Written(hook[h]), invoices, sub, past.top, odd)
<1> DEFINE r == hook[h]
           kind == r.event.kind
<1>1. r \in HookStates /\ HookOk(r, store, invoices, past.changes) /\ r.sub \in Subs /\ r.sub.price \in Plans /\ r.sub.paid \in Plans
  BY TypesAre DEF PlanInv, HookStates, Subs
<1>2. kind \in Kinds /\ kind \notin {"none", "approve"} /\ (kind \in {"paid", "failed"} => r.event.invoice \in 1..Len(invoices))
  BY <1>1 DEF HookStates, Told, HookOk, Handled, Dated
<1>3. HookFair(r, invoices, sub, past.top, odd) /\ RowFair(user, invoices, sub, past.top, odd)
  BY HookStays
<1>4. CASE kind \in {"updated", "cancels", "resume"}
  BY <1>1, <1>3, <1>4, SyncFair DEF S!Written, S!Syncs
<1>5. CASE kind \in {"checkout", "summary"}
  <2>1. S!Written(r) = S!Upsert(r.sub, S!PaidPlan(r.sub))
    BY <1>5 DEF S!Written, S!Syncs
  <2>2. r.sub.paid <= past.top /\ past.top \in Plans
    BY <1>3, ZeroFair DEF HookFair, SubFair
  <2>3. S!PaidPlan(r.sub) <= past.top \/ "ahead" \in odd
    BY <1>1, <1>5, <2>2, PlansAre DEF S!PaidPlan
  <2> QED
    BY <1>3, <2>1, <2>3, UpsertFair
<1>6. CASE kind \in {"paid", "failed"}
  <2>1. S!Written(r) = IF kind = "paid" THEN S!PaidInvoice(r) ELSE S!FailedInvoice(r)
    BY <1>6 DEF S!Written, S!Syncs
  <2> QED
    BY <1>1, <1>2, <1>3, <1>6, <2>1, InvoicesFair
<1>7. CASE kind \in {"deleted", "granted", "expired", "transferred", "grace", "issue", "revoke"}
  <2>1. /\ kind = "deleted" => S!Written(r) = S!Deleted
        /\ kind \in {"expired", "transferred"} => S!Written(r) = S!StoreEnded(r.event)
        /\ kind = "granted" => S!Written(r) = S!Granted(r.event)
        /\ kind = "grace" => S!Written(r) = S!Grace(r.event)
        /\ kind = "issue" => S!Written(r) = S!Issue
        /\ kind = "revoke" => S!Written(r) = S!Revoked
    BY DEF S!Written, S!Syncs
  <2> QED
    BY <1>1, <1>3, <1>7, <2>1, OthersFair
<1> QED
  BY <1>2, <1>4, <1>5, <1>6, <1>7 DEF Kinds

\* A handler that ends, or goes on with its event.
LEMMA GoesFair ==
    ASSUME PlanInv, FairInv, NEW h \in Hooks, NEW odd, past.oddities \subseteq odd \cup {"legacy"},
           \/ S!Ends(h) \/ S!Goes(h, "restore") \/ S!Goes(h, "mail")
           \/ S!Goes(h, "grant") /\ creator = "approved"
           \/ hook' = [hook EXCEPT ![h] = S!Rest]
    PROVE  \A g \in Hooks : hook'[g] = hook[g] \/ HookFair(hook'[g], invoices, sub, past.top, odd)
<1>1. CASE S!Ends(h) \/ hook' = [hook EXCEPT ![h] = S!Rest]
  <2>1. hook' = [hook EXCEPT ![h] = S!Rest]
    BY <1>1 DEF S!Ends
  <2>2. HookFair(S!Rest, invoices, sub, past.top, odd)
    BY RestFair, ZeroFair, TypesAre
  <2> QED
    BY <2>1, <2>2, TypesAre
<1>2. CASE S!Goes(h, "restore") \/ S!Goes(h, "mail") \/ (S!Goes(h, "grant") /\ creator = "approved")
  <2>1. PICK at \in {"restore", "mail", "grant"} : hook' = [hook EXCEPT ![h] = [hook[h] EXCEPT !.at = at]]
                                                   /\ (at = "grant" => creator = "approved")
    BY <1>2, TypesAre DEF S!Goes
  <2> DEFINE r == [hook[h] EXCEPT !.at = at]
  <2>2. r.at = at /\ r.event = hook[h].event /\ r.sub = hook[h].sub /\ r.row = hook[h].row
    BY TypesAre DEF HookStates
  <2>3. hook' = [hook EXCEPT ![h] = r]
    BY <2>1
  <2>4. HookFair(hook[h], invoices, sub, past.top, odd)
    BY HookStays
  <2> HIDE DEF r
  <2>5. HookFair(r, invoices, sub, past.top, odd)
    BY <2>1, <2>2, <2>4 DEF HookFair, FairInv
  <2> QED
    BY <2>3, <2>5, TypesAre
<1> QED
  BY <1>1, <1>2

LEMMA WriteFair ==
    ASSUME PlanInv, PlanInv', FairInv, NEW h \in Hooks, S!Write(h)
    PROVE  FairInv'
<1> DEFINE r == hook[h]
           odd == (past.oddities \ S!If(r.event.kind = "summary", "legacy"))
                    \cup S!If(r.event.kind \in {"checkout", "summary"} /\ r.sub.price > r.sub.paid, "ahead")
<1>1. hook[h].at = "write" /\ user' = S!Written(hook[h]) /\ UNCHANGED <<sub, invoices, store, creator>>
      /\ past' = [past EXCEPT !.oddities = odd]
  BY DEF S!Write
<1>2. past.oddities \subseteq odd \cup {"legacy"} /\ (r.event.kind \in {"checkout", "summary"} /\ r.sub.price > r.sub.paid => "ahead" \in odd)
  BY DEF S!If
<1> HIDE DEF odd
<1>3. past'.top = past.top /\ past'.oddities = odd
  BY <1>1, TypesAre DEF Pasts
<1>4. RowFair(user', invoices, sub, past.top, odd)
  BY <1>1, <1>2, WrittenFair
<1>5. S!Ends(h) \/ ((S!Goes(h, "restore") \/ S!Goes(h, "mail")) /\ events' = events)
  BY DEF S!Write, S!After
<1>6. events' \subseteq events
  BY <1>5 DEF S!Ends
<1>7. \A g \in Hooks : hook'[g] = hook[g] \/ HookFair(hook'[g], invoices, sub, past.top, odd)
  BY <1>2, <1>5, GoesFair
<1> QED
  BY <1>1, <1>2, <1>3, <1>4, <1>6, <1>7, HandlerFair

LEMMA RestoreFair ==
    ASSUME PlanInv, PlanInv', FairInv, NEW h \in Hooks, S!Restore(h) \/ S!Mail(h)
    PROVE  FairInv'
<1>1. UNCHANGED <<user, sub, invoices, store, creator, past>>
  BY DEF S!Restore, S!Mail
<1>2. S!Ends(h) \/ (S!Goes(h, "grant") /\ creator = "approved" /\ events' = events)
  BY DEF S!Restore, S!Mail
<1>3. events' \subseteq events
  BY <1>2 DEF S!Ends
<1>4. past.oddities \subseteq past.oddities \cup {"legacy"}
  OBVIOUS
<1>5. \A g \in Hooks : hook'[g] = hook[g] \/ HookFair(hook'[g], invoices, sub, past.top, past'.oddities)
  BY <1>1, <1>2, <1>4, GoesFair
<1> QED
  BY <1>1, <1>3, <1>4, <1>5, HookStays, HandlerFair

LEMMA GrantCreatorFair ==
    ASSUME PlanInv, PlanInv', FairInv, NEW h \in Hooks, S!GrantCreator(h)
    PROVE  FairInv'
<1> DEFINE odd == past.oddities \cup S!If(S!Grants /\ user.plan # S!Free /\ user.provider # "affiliate", "excepted")
           given == [user EXCEPT !.plan = S!Pro, !.status = "active", !.provider = "affiliate"]
<1>1. /\ UNCHANGED <<sub, invoices, store, creator>> /\ past' = [past EXCEPT !.oddities = odd] /\ S!Ends(h)
      /\ user' \in {given, user} /\ hook[h].at = "grant"
  BY DEF S!GrantCreator
<1>2. past.oddities \subseteq odd
  OBVIOUS
<1>3. given.plan = 1 /\ given.pending = user.pending /\ given.invoice = user.invoice
  BY TypesAre, PlansAre DEF Users
<1> HIDE DEF odd, given
<1>4. past'.top = past.top /\ past'.oddities = odd
  BY <1>1, TypesAre DEF Pasts
<1>5. RowFair(user, invoices, sub, past.top, odd)
  BY <1>2, HookStays
<1>6. 1 <= past.top
  BY <1>1, ZeroFair, PlansAre DEF FairInv, HookFair
<1>7. RowFair(user', invoices, sub, past.top, odd)
  BY <1>1, <1>3, <1>5, <1>6 DEF RowFair
<1>8. \A g \in Hooks : hook'[g] = hook[g] \/ HookFair(hook'[g], invoices, sub, past.top, odd)
  BY <1>1, <1>2, GoesFair
<1>9. events' \subseteq events
  BY <1>1 DEF S!Ends
<1> QED
  BY <1>1, <1>2, <1>4, <1>7, <1>8, <1>9, HandlerFair

LEMMA ReadSummaryFair ==
    ASSUME PlanInv, PlanInv', FairInv, NEW h \in Hooks, S!ReadSummary(h)
    PROVE  FairInv'
<1> DEFINE n == past.changes
           r == [hook[h] EXCEPT !.at = "live", !.event = S!Request("summary", n)]
<1>1. UNCHANGED <<user, sub, invoices, store, creator, events, seen>> /\ S!Began(n) /\ hook' = [hook EXCEPT ![h] = r] /\ n \in Nat
  BY TypesAre DEF S!ReadSummary
<1>2. r.at = "live" /\ r.event = S!Request("summary", n) /\ r.sub = hook[h].sub /\ r.row = hook[h].row
  BY TypesAre DEF HookStates
<1>3. past'.top = past.top /\ past.oddities \subseteq past'.oddities
  BY <1>1, BeganFair
<1>4. HookFair(hook[h], invoices, sub, past.top, past'.oddities) /\ RowFair(user, invoices, sub, past.top, past'.oddities)
  BY <1>3, HookStays
<1>5. EventFair(r.event, invoices, sub, past.top)
  <2>1. "summary" \in Kinds /\ "summary" \notin {"paid", "granted"}
    BY DEF Kinds
  <2> QED
    BY <1>1, <1>2, <2>1, RequestFair, TypesAre, ZeroFair
<1> HIDE DEF r
<1>6. HookFair(r, invoices, sub, past.top, past'.oddities)
  BY <1>2, <1>4, <1>5 DEF HookFair
<1>7. \A g \in Hooks : hook'[g] = hook[g] \/ HookFair(hook'[g], invoices, sub, past.top, past'.oddities)
  BY <1>1, <1>6, TypesAre
<1> QED
  BY <1>1, <1>3, <1>4, <1>7, HandlerFair

LEMMA FailsFair ==
    ASSUME PlanInv, PlanInv', FairInv, NEW h \in Hooks, S!Raises(h) \/ S!Dies(h)
    PROVE  FairInv'
<1>1. UNCHANGED <<user, sub, invoices, store, creator, events>> /\ hook' = [hook EXCEPT ![h] = S!Rest]
  BY DEF S!Raises, S!Dies
<1>2. past'.top = past.top /\ past.oddities \subseteq past'.oddities
  <2>1. PICK odd : S!Failing(odd)
    BY DEF S!Raises, S!Dies
  <2> DEFINE all == past.oddities \cup odd
             k == past.failures + 1
  <2>2. past' = [past EXCEPT !.failures = k, !.oddities = all] /\ past.oddities \subseteq all
    BY <2>1 DEF S!Failing
  <2> HIDE DEF all, k
  <2> QED
    BY <2>2, TypesAre DEF Pasts
<1>3. \A g \in Hooks : hook'[g] = hook[g] \/ HookFair(hook'[g], invoices, sub, past.top, past'.oddities)
  BY <1>1, <1>2, GoesFair
<1>4. RowFair(user', invoices, sub, past.top, past'.oddities)
  BY <1>1, <1>2, HookStays
<1> QED
  BY <1>1, <1>2, <1>3, <1>4, HandlerFair

-----------------------------------------------------------------------------
LEMMA FairStep ==
    ASSUME PlanInv, PlanInv', FairInv, [BillingNext]_<<part, vars, subscription>>
    PROVE  FairInv'
<1>1. CASE UNCHANGED subscription
  BY <1>1 DEF subscription, FairInv
<1>2. CASE S!Next
  BY <1>2, CheckoutFair, StoreFair, UpgradeFair, DowngradeFair, RenewalFailsFair, PayFair, SubscriptionFair,
     RepeatFair, ReceiveFair, RetrieveFair, ReadRowFair, ResolveInvoiceFair, WriteFair,
     RestoreFair, GrantCreatorFair, ApproveFair, ResumeFair, ReadSummaryFair, FailsFair DEF S!Next
<1> QED
  BY <1>1, <1>2 DEF BillingNext

LEMMA StartFair ==
    ASSUME PlanInv, NEW row, NEW s, NEW bills, NEW apple, NEW given, S!StartWith(row, s, bills, apple, given),
           \A top \in Plans : row.plan <= top /\ s.paid <= top =>
              /\ Fair(s.invoice, s.price, bills, s, top) /\ Fair(row.invoice, row.pending, bills, s, top)
              /\ \A k \in 1..Len(bills) : Fair(k, bills[k].plan, bills, s, top)
              /\ given = "approved" => top >= 1
    PROVE  FairInv
<1>1. /\ user = row /\ sub = s /\ invoices = bills /\ creator = given
      /\ events = {} /\ hook = [h \in Hooks |-> S!Rest] /\ past.top = S!Max({row.plan, s.paid})
  BY DEF S!StartWith
<1>2. row.plan \in Plans /\ s.paid \in Plans
  BY <1>1, TypesAre
<1>3. past.top \in Plans /\ row.plan <= past.top /\ s.paid <= past.top
  <2> DEFINE p == row.plan
             q == s.paid
             most == S!Max({p, q})
  <2>1. most \in Plans /\ most >= p /\ most >= q
    <3>1. p \in Plans /\ q \in Plans
      BY <1>2
    <3> HIDE DEF p, q
    <3> QED
      BY <3>1, MostIs
  <2> HIDE DEF most
  <2>2. past.top = most
    BY <1>1 DEF most
  <2> QED
    BY <1>2, <2>1, <2>2, PlansAre
<1>4. \A h \in Hooks : HookFair(hook[h], invoices, sub, past.top, past.oddities)
  BY <1>1, <1>3, RestFair, TypesAre
<1> QED
  BY <1>1, <1>3, <1>4 DEF FairInv, SubFair, RowFair

LEMMA FairStart ==
    ASSUME BillingInit
    PROVE  FairInv
<1>1. PlanInv
  BY PlanInit
<1>2. ASSUME NEW row \in Users, row.pending = 0, row.invoice = 0, NEW apple, NEW given,
             given = "approved" => row.plan >= 1, S!StartWith(row, S!NoSub, <<>>, apple, given)
      PROVE  FairInv
  <2> DEFINE bills == <<>>
             s == S!NoSub
  <2>1. s.invoice = 0 /\ s.price = 0 /\ s.paid = 0 /\ Len(bills) = 0 /\ S!StartWith(row, s, bills, apple, given)
    BY <1>2, PlansAre DEF S!NoSub
  <2> HIDE DEF s, bills
  <2>2. row.plan \in Plans
    BY DEF Users
  <2>3. \A top \in Plans : row.plan <= top /\ s.paid <= top =>
              /\ Fair(s.invoice, s.price, bills, s, top) /\ Fair(row.invoice, row.pending, bills, s, top)
              /\ \A k \in 1..Len(bills) : Fair(k, bills[k].plan, bills, s, top)
              /\ given = "approved" => top >= 1
    BY <1>2, <2>1, <2>2, PlansAre DEF Fair
  <2> QED
    BY <1>1, <2>1, <2>3, StartFair
<1>3. ASSUME NEW p \in Plans, NEW q \in S!Paid, NEW state, NEW due, NEW paid \in BOOLEAN, NEW given,
             S!StartWith(S!StripeUser(p, state), S!Has(q, due), <<S!Bill(q, paid)>>, S!NoStore, given)
      PROVE  FairInv
  <2> DEFINE bills == <<S!Bill(q, paid)>>
             s == S!Has(q, due)
             row == S!StripeUser(p, state)
  <2>1. s.invoice = 1 /\ s.price = q /\ s.paid = q
    BY DEF S!Has, S!NoSub
  <2>2. row.plan = p /\ row.pending = 0 /\ row.invoice = 0
    BY PlansAre DEF S!StripeUser, S!FreeUser
  <2>3. Len(bills) = 1 /\ bills[1].plan = q
    BY DEF S!Bill
  <2>4. S!StartWith(row, s, bills, S!NoStore, given)
    BY <1>3
  <2> HIDE DEF row, s, bills
  <2>5. \A top \in Plans : row.plan <= top /\ s.paid <= top =>
              /\ Fair(s.invoice, s.price, bills, s, top) /\ Fair(row.invoice, row.pending, bills, s, top)
              /\ \A k \in 1..Len(bills) : Fair(k, bills[k].plan, bills, s, top)
              /\ given = "approved" => top >= 1
    BY <2>1, <2>2, <2>3, PlansAre DEF Fair
  <2> QED
    BY <1>1, <2>4, <2>5, StartFair
<1>4. CASE S!StartWith([S!StripeUser(S!Pro, "active") EXCEPT !.pending = S!Scale, !.invoice = 2],
                       [S!Has(S!Pro, "active") EXCEPT !.price = S!Scale, !.invoice = 2],
                       <<S!Bill(S!Pro, TRUE), S!Bill(S!Free, FALSE)>>, S!NoStore, "none")
  <2> DEFINE row == [S!StripeUser(S!Pro, "active") EXCEPT !.pending = S!Scale, !.invoice = 2]
             s == [S!Has(S!Pro, "active") EXCEPT !.price = S!Scale, !.invoice = 2]
             bills == <<S!Bill(S!Pro, TRUE), S!Bill(S!Free, FALSE)>>
             given == "none"
  <2>1. s.invoice = 2 /\ s.price = 2 /\ s.paid = 1
    BY PlansAre DEF S!Has, S!NoSub
  <2>2. row.plan = 1 /\ row.pending = 2 /\ row.invoice = 2
    BY PlansAre DEF S!StripeUser, S!FreeUser
  <2>3. Len(bills) = 2 /\ bills[1].plan = 1 /\ bills[2].plan = 0 /\ bills[2].settled = FALSE
    BY PlansAre DEF S!Bill
  <2>4. S!StartWith(row, s, bills, S!NoStore, given) /\ given # "approved"
    BY <1>4
  <2> HIDE DEF row, s, bills, given
  <2>5. \A top \in Plans : row.plan <= top /\ s.paid <= top =>
              /\ Fair(s.invoice, s.price, bills, s, top) /\ Fair(row.invoice, row.pending, bills, s, top)
              /\ \A k \in 1..Len(bills) : Fair(k, bills[k].plan, bills, s, top)
              /\ given = "approved" => top >= 1
    BY <2>1, <2>2, <2>3, <2>4, PlansAre DEF Fair
  <2> QED
    BY <1>1, <2>4, <2>5, StartFair
<1>5. /\ S!FreeUser \in Users /\ S!FreeUser.pending = 0 /\ S!FreeUser.invoice = 0
      /\ S!CreatorUser \in Users /\ S!CreatorUser.pending = 0 /\ S!CreatorUser.invoice = 0 /\ S!CreatorUser.plan = 1
      /\ S!AppleUser(S!Pro, 1) \in Users /\ S!AppleUser(S!Pro, 1).pending = 0 /\ S!AppleUser(S!Pro, 1).invoice = 0
      /\ S!AppleUser(S!Pro, 1).plan = 1
  BY PlansAre DEF S!FreeUser, S!CreatorUser, S!AppleUser, Users
<1>6. S!Gone => FairInv
  <2> DEFINE given == "none"
  <2>1. S!Gone => S!StartWith(S!FreeUser, S!NoSub, <<>>, S!NoStore, given)
    BY DEF S!Gone
  <2>2. given # "approved"
    OBVIOUS
  <2> HIDE DEF given
  <2> QED
    BY <1>2, <1>5, <2>1, <2>2
<1>7. S!StartWith(S!CreatorUser, S!NoSub, <<>>, S!NoStore, "approved") => FairInv
  BY <1>2, <1>5
<1>8. S!StartWith(S!AppleUser(S!Pro, 1), S!NoSub, <<>>, [plan |-> S!Pro, end |-> 1], "approved") => FairInv
  <2> DEFINE apple == [plan |-> S!Pro, end |-> 1]
  <2>1. S!StartWith(S!AppleUser(S!Pro, 1), S!NoSub, <<>>, [plan |-> S!Pro, end |-> 1], "approved")
          => S!StartWith(S!AppleUser(S!Pro, 1), S!NoSub, <<>>, apple, "approved")
    OBVIOUS
  <2>2. S!AppleUser(S!Pro, 1).plan >= 1
    BY <1>5
  <2> HIDE DEF apple
  <2> QED
    BY <1>2, <1>5, <2>1, <2>2
<1> QED
  BY <1>3, <1>4, <1>6, <1>7, <1>8, PlansAre DEF BillingInit, S!Init

\* For any number of handlers, changes and failures, in any order of the events: the row
\* never has a plan higher than any that was paid for, but after a checkout or a summary
\* that took its price from Stripe before it was paid.
THEOREM NoPlanUnpaidCorrect == BillingSpec => []S!NoPlanUnpaid
<1>1. PlanInv /\ PlanInv' /\ FairInv /\ [BillingNext]_<<part, vars, subscription>> => FairInv'
  BY FairStep
<1>2. FairInv => S!NoPlanUnpaid
  BY DEF FairInv, RowFair, S!NoPlanUnpaid
<1> QED
  BY <1>1, <1>2, FairStart, PlansInductive, PTL DEF BillingSpec

\* The composition is one of its parts at a time: what is proved of the minutes, and what
\* holds of the subscription, holds of it.
THEOREM BillingHasBoth == BillingSpec => Spec /\ S!Spec
<1>1. BillingInit => Init /\ S!Init
  BY DEF BillingInit, S!Init
<1>2. [BillingNext]_<<part, vars, subscription>> => [Next]_vars /\ [S!Next]_S!svars
  BY DEF BillingNext, subscription, S!svars
<1> QED
  BY <1>1, <1>2, PTL DEF BillingSpec, Spec, S!Spec
======================================================================
