-------------------------- MODULE ClipsWorkspaceProofs --------------------------
(***************************************************************************)
(* Proofs about where a task's media comes from, in the behaviours of      *)
(* ClipParts: the download of a stream (StreamSource) and the workspace of *)
(* an upload (SourceWorkspace), for any number of runs, operations and     *)
(* failures.  With the two parts proved beside it (ClipsSourcesProofs),    *)
(* they make the sources sound; with all parts (ClipsWorkProofs), every    *)
(* variable keeps to its domain.                                           *)
(***************************************************************************)
EXTENDS ClipsSourcesProofs, ClipsWorkProofs

-----------------------------------------------------------------------------
(* The download of a stream.                                               *)

ToldLengths == {"short", "long", "unknown"}
ActorAnswers == ToldLengths \cup {"unasked", "failed"}
Memories == [expected : ToldLengths, preferred : 1..3, answer : [T!Actors -> ActorAnswers], failed : BOOLEAN, local : BOOLEAN]
StreamCalls == [at : {"none", "try", "media", "done", "broken", "refused", "over"},
          kind : {"none", "audio", "sections", "video"}, provider : 1..3]
StreamFiles == SUBSET {"audio", "sections", "video", "shared"}
StreamBills == [T!Actors -> 0..1]
Speeches == [length : ToldLengths, measured : BOOLEAN]
StreamTasks == [at : {"new", "refused", "queued", "speech", "pictures", "render", "failing", "ended"}, kept : BOOLEAN]
StreamTyped ==
    /\ video \in [private : BOOLEAN, length : {"short", "long"}] /\ task \in StreamTasks
    /\ memory \in [T!Operations -> Memories] /\ providerCall \in [T!Operations -> StreamCalls]
    /\ taskFiles \in [T!Operations -> StreamFiles] /\ bills \in [T!Operations -> StreamBills]
    /\ got \in Speeches /\ happened \in [runs : Nat, faults : Nat] /\ happened.faults <= MaxFaults
\* An actor that was paid has left an answer, be it that it failed; what was delivered is
\* there; an operation that has failed tries nothing; and media comes of an answer.
OperationSound(m, c, f, b) ==
    /\ \A a \in T!Actors : b[a] = 1 => m.answer[a] # "unasked"
    /\ c.at = "done" => c.kind \in f
    /\ m.failed => c.at \in {"refused", "none"}
    /\ c.at \in {"try", "media"} => c.kind # "none"
    /\ c.at = "media" => c.provider # 1 /\ m.answer[T!Providers[c.provider]] \in ToldLengths
\* What the job has at each of its stages.
JobHas(stage, m, c, f, g) ==
    /\ stage \notin {"speech", "pictures"} => c = T!NoCall
    /\ stage \notin {"speech", "pictures", "render", "failing"} => m = T!Fresh
    /\ stage = "speech" => c.kind \in {"audio", "video"} /\ c.at \in {"try", "media", "done", "broken", "refused"}
    /\ stage = "pictures" => IF c.at = "none" THEN "video" \in f ELSE c.kind \in {"sections", "video"}
    /\ stage \in {"pictures", "render"} => f # {} /\ (g.length = "long" => ~g.measured)
    /\ stage = "render" => f \cap {"sections", "video"} # {}
    /\ m.expected = "long" => c.at = "refused" \/ stage = "failing"
StreamInv ==
    /\ StreamTyped
    /\ \A o \in T!Operations : OperationSound(memory[o], providerCall[o], taskFiles[o], bills[o])
    /\ JobHas(task.at, memory["job"], providerCall["job"], taskFiles["job"], got)

-----------------------------------------------------------------------------
(* The operations of a stream.                                              *)

LEMMA ProvidersAre ==
    /\ Len(T!Providers) = 3 /\ T!Providers[1] \notin T!Actors
    /\ T!Providers[2] = "apify_kick_hls" /\ T!Providers[3] = "apify_kick_mp4"
    /\ \A i \in 1..3 : T!Providers[i] \in T!Actors => i # 1
BY DEF T!Providers, T!Actors

LEMMA StreamIs ==
    ASSUME StreamInv, NEW o \in T!Operations
    PROVE  /\ memory[o] \in Memories /\ providerCall[o] \in StreamCalls /\ taskFiles[o] \in StreamFiles
           /\ bills[o] \in StreamBills /\ got \in Speeches /\ task \in StreamTasks
           /\ OperationSound(memory[o], providerCall[o], taskFiles[o], bills[o])
           /\ JobHas(task.at, memory["job"], providerCall["job"], taskFiles["job"], got)
           /\ "job" \in T!Operations /\ "edit" \in T!Operations
BY DEF StreamInv, StreamTyped, T!Operations

LEMMA StreamJobIs ==
    ASSUME StreamInv
    PROVE  /\ "job" \in T!Operations /\ "edit" \in T!Operations /\ got \in Speeches /\ task \in StreamTasks
           /\ JobHas(task.at, memory["job"], providerCall["job"], taskFiles["job"], got)
BY DEF StreamInv, StreamTyped, T!Operations

\* A step of one operation.
OnlyOf(o, m, c, f, b) ==
    /\ m \in Memories /\ c \in StreamCalls /\ f \in StreamFiles /\ b \in StreamBills
    /\ memory' = [memory EXCEPT ![o] = m] /\ providerCall' = [providerCall EXCEPT ![o] = c]
    /\ taskFiles' = [taskFiles EXCEPT ![o] = f] /\ bills' = [bills EXCEPT ![o] = b]
LEMMA StepOf ==
    ASSUME StreamInv, NEW o \in T!Operations, NEW m, NEW c, NEW f, NEW b, OnlyOf(o, m, c, f, b),
           OperationSound(m, c, f, b), task' \in StreamTasks, got' \in Speeches,
           video' \in [private : BOOLEAN, length : {"short", "long"}],
           happened' \in [runs : Nat, faults : Nat], happened'.faults <= MaxFaults,
           o = "job" => JobHas(task'.at, m, c, f, got'),
           o = "edit" => JobHas(task'.at, memory["job"], providerCall["job"], taskFiles["job"], got')
    PROVE  StreamInv'
<1>1. /\ memory' \in [T!Operations -> Memories] /\ memory'[o] = m
      /\ \A p \in T!Operations : p # o => memory'[p] = memory[p]
  BY DEF StreamInv, StreamTyped, OnlyOf
<1>2. /\ providerCall' \in [T!Operations -> StreamCalls] /\ providerCall'[o] = c
      /\ \A p \in T!Operations : p # o => providerCall'[p] = providerCall[p]
  BY DEF StreamInv, StreamTyped, OnlyOf
<1>3. /\ taskFiles' \in [T!Operations -> StreamFiles] /\ taskFiles'[o] = f
      /\ \A p \in T!Operations : p # o => taskFiles'[p] = taskFiles[p]
  BY DEF StreamInv, StreamTyped, OnlyOf
<1>4. /\ bills' \in [T!Operations -> StreamBills] /\ bills'[o] = b
      /\ \A p \in T!Operations : p # o => bills'[p] = bills[p]
  BY DEF StreamInv, StreamTyped, OnlyOf
<1>5. StreamTyped'
  BY <1>1, <1>2, <1>3, <1>4 DEF StreamTyped
<1>6. \A p \in T!Operations : OperationSound(memory'[p], providerCall'[p], taskFiles'[p], bills'[p])
  BY <1>1, <1>2, <1>3, <1>4, StreamIs
<1>7. JobHas(task'.at, memory'["job"], providerCall'["job"], taskFiles'["job"], got')
  <2>1. "job" \in T!Operations /\ "job" # "edit" /\ (o = "job" \/ o = "edit")
    BY DEF T!Operations
  <2> QED
    BY <1>1, <1>2, <1>3, <2>1
<1>8. \A p \in T!Operations : OperationSound(memory[p], providerCall[p], taskFiles[p], bills[p])'
  BY <1>6 DEF OperationSound
<1>9. JobHas(task.at, memory["job"], providerCall["job"], taskFiles["job"], got)'
  BY <1>7 DEF JobHas
<1> QED
  BY <1>5, <1>8, <1>9 DEF StreamInv

LEMMA Unmoved ==
    ASSUME StreamInv, NEW o \in T!Operations
    PROVE  /\ memory = [memory EXCEPT ![o] = memory[o]] /\ providerCall = [providerCall EXCEPT ![o] = providerCall[o]]
           /\ taskFiles = [taskFiles EXCEPT ![o] = taskFiles[o]] /\ bills = [bills EXCEPT ![o] = bills[o]]
BY DEF StreamInv, StreamTyped

\* What does not concern either operation is as it was.
Around == UNCHANGED <<video, task, happened>>
LEMMA AroundIs ==
    ASSUME StreamInv, Around
    PROVE  /\ task' = task /\ task' \in StreamTasks /\ video' \in [private : BOOLEAN, length : {"short", "long"}]
           /\ happened' \in [runs : Nat, faults : Nat] /\ happened'.faults <= MaxFaults
BY DEF StreamInv, StreamTyped, Around

\* What is counted of the world.
WorldTyped ==
    /\ video \in [private : BOOLEAN, length : {"short", "long"}]
    /\ happened \in [runs : Nat, faults : Nat] /\ happened.faults <= MaxFaults
FaultCounted == happened' \in [runs : Nat, faults : Nat] /\ happened'.faults <= MaxFaults
LEMMA FaultIs == ASSUME StreamInv, T!Fault PROVE FaultCounted /\ happened'.runs = happened.runs
<1>1. MaxFaults \in Nat /\ happened \in [runs : Nat, faults : Nat] /\ happened.faults < MaxFaults
      /\ happened' = [happened EXCEPT !.faults = happened.faults + 1]
  BY EditorAssumption DEF T!Fault, StreamInv, StreamTyped
<1> DEFINE n == happened.faults + 1
<1>2. n \in Nat /\ n <= MaxFaults /\ happened' = [happened EXCEPT !.faults = n]
  BY <1>1
<1> HIDE DEF n
<1> QED
  BY <1>1, <1>2 DEF FaultCounted

\* A download goes on, ends or is refused, with what it found.
LEMMA CallGoesOn ==
    ASSUME StreamInv, NEW o \in T!Operations, NEW m, NEW c, NEW f, NEW b, OnlyOf(o, m, c, f, b),
           OperationSound(m, c, f, b), Around, got' \in Speeches, got' = got \/ (o = "job" /\ task.at = "speech"),
           providerCall[o].at \in {"try", "media"}, c.kind = providerCall[o].kind,
           c.at \in {"try", "media", "done", "broken", "refused"}, taskFiles[o] \subseteq f,
           o = "job" /\ m.expected = "long" => c.at = "refused"
    PROVE  StreamInv'
<1>1. JobHas(task.at, memory["job"], providerCall["job"], taskFiles["job"], got)
  BY StreamIs
<1>2. ASSUME o = "job" PROVE JobHas(task.at, m, c, f, got')
  <2>1. task.at \in {"speech", "pictures"}
    BY <1>1, <1>2 DEF JobHas, T!NoCall
  <2>2. CASE task.at = "speech"
    BY <1>1, <1>2, <2>2 DEF JobHas
  <2>3. CASE task.at = "pictures"
    BY <1>1, <1>2, <2>3 DEF JobHas
  <2> QED
    BY <2>1, <2>2, <2>3
<1>3. ASSUME o = "edit" PROVE JobHas(task.at, memory["job"], providerCall["job"], taskFiles["job"], got')
  BY <1>1, <1>3
<1> QED
  BY <1>2, <1>3, AroundIs, StepOf

LEMMA CallSettled ==
    ASSUME NEW m \in Memories, NEW c \in StreamCalls, NEW f, NEW b, c.at \in {"try", "refused"}, c.kind # "none" \/ c.at = "refused",
           m.failed => c.at = "refused",
           \A a \in T!Actors : b[a] = 1 => m.answer[a] # "unasked"
    PROVE  OperationSound(m, c, f, b)
BY DEF OperationSound

\* The next provider is tried, or all have failed.
LEMMA Advances ==
    ASSUME StreamInv, NEW o \in T!Operations, NEW m \in Memories, NEW f \in StreamFiles, NEW b \in StreamBills,
           T!Advance(o, m), Around, got' = got, providerCall[o].at \in {"try", "media"}, m.failed = FALSE,
           taskFiles' = [taskFiles EXCEPT ![o] = f], bills' = [bills EXCEPT ![o] = b], taskFiles[o] \subseteq f,
           \A a \in T!Actors : b[a] = 1 => m.answer[a] # "unasked", o = "job" => m.expected # "long"
    PROVE  StreamInv'
<1> DEFINE k == providerCall[o]
<1>1. k \in StreamCalls /\ got \in Speeches /\ k.provider \in 1..3 /\ Len(T!Providers) = 3 /\ k.kind # "none"
  BY StreamIs, ProvidersAre DEF StreamCalls, OperationSound
<1>2. CASE k.provider < Len(T!Providers)
  <2> DEFINE provider == k.provider + 1
             c == [k EXCEPT !.at = "try", !.provider = provider]
  <2>1. provider \in 1..3
    BY <1>1, <1>2
  <2>2. memory' = [memory EXCEPT ![o] = m] /\ providerCall' = [providerCall EXCEPT ![o] = c]
    BY <1>1, <1>2 DEF T!Advance, StreamInv, StreamTyped, StreamCalls
  <2> HIDE DEF provider
  <2>3. c \in StreamCalls /\ c.at = "try" /\ c.kind = k.kind
    BY <1>1, <2>1 DEF StreamCalls
  <2> HIDE DEF c
  <2>4. OnlyOf(o, m, c, f, b)
    BY <2>2, <2>3 DEF OnlyOf
  <2>5. OperationSound(m, c, f, b)
    BY <1>1, <2>3, CallSettled
  <2> QED
    BY <1>1, <2>3, <2>4, <2>5, CallGoesOn
<1>3. CASE ~(k.provider < Len(T!Providers))
  <2> DEFINE c == [k EXCEPT !.at = "refused"]
             n == [m EXCEPT !.failed = TRUE]
  <2>1. memory' = [memory EXCEPT ![o] = n] /\ providerCall' = [providerCall EXCEPT ![o] = c]
    BY <1>3 DEF T!Advance, T!Refuse, T!At, StreamInv, StreamTyped
  <2>2. c \in StreamCalls /\ c.at = "refused" /\ c.kind = k.kind
    BY <1>1 DEF StreamCalls
  <2>3. n \in Memories /\ n.expected = m.expected /\ n.answer = m.answer
    BY DEF Memories
  <2> HIDE DEF c, n
  <2>4. OnlyOf(o, n, c, f, b)
    BY <2>1, <2>2, <2>3 DEF OnlyOf
  <2>5. OperationSound(n, c, f, b)
    BY <2>2, <2>3, CallSettled
  <2> QED
    BY <1>1, <2>2, <2>3, <2>4, <2>5, CallGoesOn
<1> QED
  BY <1>2, <1>3

LEMMA AdvancesAlone ==
    ASSUME StreamInv, NEW o \in T!Operations, NEW m \in Memories,
           T!Advance(o, m), Around, UNCHANGED <<taskFiles, got>>, UNCHANGED bills,
           providerCall[o].at \in {"try", "media"}, m.failed = FALSE,
           \A a \in T!Actors : bills[o][a] = 1 => m.answer[a] # "unasked", o = "job" => m.expected # "long"
    PROVE  StreamInv'
<1> DEFINE f == taskFiles[o]
           b == bills[o]
<1>1. f \in StreamFiles /\ b \in StreamBills /\ taskFiles' = [taskFiles EXCEPT ![o] = f] /\ bills' = [bills EXCEPT ![o] = b]
      /\ taskFiles[o] \subseteq f /\ (\A a \in T!Actors : b[a] = 1 => m.answer[a] # "unasked") /\ got' = got
  BY StreamIs, Unmoved
<1> HIDE DEF f, b
<1> QED
  BY <1>1, Advances

LEMMA Refuses ==
    ASSUME StreamInv, NEW o \in T!Operations, NEW m \in Memories, T!Refuse(o), memory' = [memory EXCEPT ![o] = m],
           Around, UNCHANGED <<taskFiles, bills, got>>, providerCall[o].at \in {"try", "media"},
           m.answer = memory[o].answer
    PROVE  StreamInv'
<1> DEFINE k == providerCall[o]
           c == [k EXCEPT !.at = "refused"]
<1>1. /\ k \in StreamCalls /\ got \in Speeches /\ taskFiles[o] \in StreamFiles /\ bills[o] \in StreamBills
      /\ \A a \in T!Actors : bills[o][a] = 1 => m.answer[a] # "unasked"
  BY StreamIs DEF OperationSound
<1>2. c \in StreamCalls /\ c.at = "refused" /\ c.kind = k.kind
  BY <1>1 DEF StreamCalls
<1>3. providerCall' = [providerCall EXCEPT ![o] = c]
  BY DEF T!Refuse, T!At, StreamInv, StreamTyped
<1> HIDE DEF c
<1>4. OnlyOf(o, m, c, taskFiles[o], bills[o])
  BY <1>1, <1>2, <1>3, Unmoved DEF OnlyOf
<1>5. OperationSound(m, c, taskFiles[o], bills[o])
  BY <1>1, <1>2, CallSettled
<1> QED
  BY <1>1, <1>2, <1>4, <1>5, CallGoesOn

LEMMA Delivers ==
    ASSUME StreamInv, NEW o \in T!Operations, NEW m \in Memories, NEW there \in StreamFiles, T!Deliver(o, m, there),
           Around, UNCHANGED bills, providerCall[o].at \in {"try", "media"}, taskFiles[o] \subseteq there,
           m.answer = memory[o].answer, m.failed = FALSE,
           o = "job" => m.expected # "long"
    PROVE  StreamInv'
<1> DEFINE k == providerCall[o]
           c == [k EXCEPT !.at = "done"]
           n == [m EXCEPT !.preferred = k.provider]
           f == there \cup {k.kind}
<1>1. /\ k \in StreamCalls /\ got \in Speeches /\ bills[o] \in StreamBills /\ k.kind # "none"
      /\ \A a \in T!Actors : bills[o][a] = 1 => m.answer[a] # "unasked"
  BY StreamIs DEF OperationSound
<1>2. c \in StreamCalls /\ c.at = "done" /\ c.kind = k.kind
  BY <1>1 DEF StreamCalls
<1>3. n \in Memories /\ n.expected = m.expected /\ n.answer = m.answer /\ n.failed = FALSE
  BY <1>1 DEF Memories, StreamCalls
<1>4. f \in StreamFiles /\ taskFiles[o] \subseteq f /\ k.kind \in f
  BY <1>1 DEF StreamFiles, StreamCalls
<1>5. providerCall' = [providerCall EXCEPT ![o] = c] /\ memory' = [memory EXCEPT ![o] = n] /\ taskFiles' = [taskFiles EXCEPT ![o] = f]
  BY DEF T!Deliver, T!At, StreamInv, StreamTyped
<1>6. got' \in Speeches /\ (got' = got \/ (o = "job" /\ task.at = "speech"))
  BY <1>1 DEF T!Deliver, StreamInv, StreamTyped, Speeches, ToldLengths
<1> HIDE DEF c, n, f
<1>7. OnlyOf(o, n, c, f, bills[o])
  BY <1>1, <1>2, <1>3, <1>4, <1>5, Unmoved DEF OnlyOf
<1>8. OperationSound(n, c, f, bills[o])
  BY <1>1, <1>2, <1>3, <1>4 DEF OperationSound
<1> QED
  BY <1>2, <1>3, <1>4, <1>6, <1>7, <1>8, CallGoesOn

LEMMA ExpectIs ==
    ASSUME NEW m \in Memories, NEW length \in ToldLengths
    PROVE  /\ T!Expect(m, length) \in Memories /\ T!Expect(m, length).answer = m.answer
           /\ T!Expect(m, length).failed = m.failed
           /\ T!Expect(m, length).expected = IF m.expected = "unknown" THEN length ELSE m.expected
BY DEF T!Expect, Memories

LEMMA ToldAre == StreamInv => T!Told \subseteq ToldLengths /\ "unknown" \in ToldLengths
BY DEF StreamInv, StreamTyped, T!Told, ToldLengths

\* What a download under way has.
LEMMA UnderWay ==
    ASSUME StreamInv, NEW o \in T!Operations, providerCall[o].at \in {"try", "media"}
    PROVE  /\ memory[o] \in Memories /\ memory[o].failed = FALSE /\ taskFiles[o] \in StreamFiles /\ bills[o] \in StreamBills
           /\ \A a \in T!Actors : bills[o][a] = 1 => memory[o].answer[a] # "unasked"
           /\ o = "job" => memory[o].expected # "long"
<1>1. memory[o] \in Memories /\ taskFiles[o] \in StreamFiles /\ bills[o] \in StreamBills
      /\ OperationSound(memory[o], providerCall[o], taskFiles[o], bills[o])
      /\ JobHas(task.at, memory["job"], providerCall["job"], taskFiles["job"], got)
  BY StreamIs
<1>2. memory[o].failed = FALSE
  BY <1>1 DEF OperationSound, Memories
<1>3. o = "job" => memory[o].expected # "long"
  BY <1>1 DEF JobHas, T!NoCall
<1> QED
  BY <1>1, <1>2, <1>3 DEF OperationSound

LEMMA ShortEnough ==
    ASSUME StreamInv, NEW o \in T!Operations, providerCall[o].at \in {"try", "media"}, NEW told \in ToldLengths,
           ~T!TooLong(o, told, T!Expect(memory[o], told))
    PROVE  o = "job" => T!Expect(memory[o], told).expected # "long"
<1>1. memory[o] \in Memories /\ (o = "job" => memory[o].expected # "long")
  BY UnderWay
<1>2. T!Expect(memory[o], told).expected = IF memory[o].expected = "unknown" THEN told ELSE memory[o].expected
  BY <1>1, ExpectIs
<1> QED
  BY <1>1, <1>2 DEF T!TooLong

LEMMA TryFreeKeeps == ASSUME StreamInv, NEW o \in T!Operations, T!TryFree(o) PROVE StreamInv'
<1>1. providerCall[o].at = "try" /\ providerCall[o].at \in {"try", "media"} /\ Around /\ UNCHANGED bills
  BY DEF T!TryFree, T!In, Around
<1>2. /\ memory[o] \in Memories /\ memory[o].failed = FALSE /\ taskFiles[o] \in StreamFiles /\ bills[o] \in StreamBills
      /\ \A a \in T!Actors : bills[o][a] = 1 => memory[o].answer[a] # "unasked"
      /\ o = "job" => memory[o].expected # "long"
      /\ taskFiles = [taskFiles EXCEPT ![o] = taskFiles[o]] /\ bills = [bills EXCEPT ![o] = bills[o]]
      /\ memory = [memory EXCEPT ![o] = memory[o]]
  BY <1>1, UnderWay, Unmoved
<1>3. CASE T!Advance(o, memory[o]) /\ UNCHANGED <<taskFiles, got>>
  BY <1>1, <1>2, <1>3, AdvancesAlone
<1>4. CASE T!Refuse(o) /\ UNCHANGED <<memory, taskFiles, got>>
  BY <1>1, <1>2, <1>4, Refuses
<1>5. ASSUME NEW told \in T!Told,
             LET m == T!Expect(memory[o], told)
             IN \/ /\ T!TooLong(o, told, m) /\ memory' = [memory EXCEPT ![o] = m]
                   /\ T!Refuse(o) /\ UNCHANGED <<taskFiles, got>>
                \/ ~T!TooLong(o, told, m) /\ T!Deliver(o, m, taskFiles[o])
                \/ ~T!TooLong(o, told, m) /\ T!Advance(o, m) /\ UNCHANGED <<taskFiles, got>>
      PROVE  StreamInv'
  <2> DEFINE m == T!Expect(memory[o], told)
  <2>1. told \in ToldLengths
    BY ToldAre
  <2>2. m \in Memories /\ m.answer = memory[o].answer /\ m.failed = FALSE
    BY <1>2, <2>1, ExpectIs
  <2>3. ~T!TooLong(o, told, m) => (o = "job" => m.expected # "long")
    BY <1>1, <2>1, ShortEnough
  <2>4. \/ memory' = [memory EXCEPT ![o] = m] /\ T!Refuse(o) /\ UNCHANGED <<taskFiles, got>>
        \/ (o = "job" => m.expected # "long") /\ T!Deliver(o, m, taskFiles[o])
        \/ (o = "job" => m.expected # "long") /\ T!Advance(o, m) /\ UNCHANGED <<taskFiles, got>>
    BY <1>5, <2>3
  <2> HIDE DEF m
  <2>5. CASE memory' = [memory EXCEPT ![o] = m] /\ T!Refuse(o) /\ UNCHANGED <<taskFiles, got>>
    BY <1>1, <2>2, <2>5, Refuses
  <2>6. CASE (o = "job" => m.expected # "long") /\ T!Deliver(o, m, taskFiles[o])
    BY <1>1, <1>2, <2>2, <2>6, Delivers
  <2>7. CASE (o = "job" => m.expected # "long") /\ T!Advance(o, m) /\ UNCHANGED <<taskFiles, got>>
    <3>1. /\ T!Advance(o, m) /\ UNCHANGED <<taskFiles, got>> /\ (o = "job" => m.expected # "long")
          /\ \A a \in T!Actors : bills[o][a] = 1 => m.answer[a] # "unasked"
      BY <1>2, <2>2, <2>7
    <3> QED
      BY <1>1, <2>2, <3>1, AdvancesAlone
  <2> QED
    BY <2>4, <2>5, <2>6, <2>7
<1> QED
  BY <1>3, <1>4, <1>5 DEF T!TryFree

\* The answer of an actor, and what it is paid.
LEMMA AnsweredIs ==
    ASSUME StreamInv, NEW o \in T!Operations, T!Provider(o) \in T!Actors, NEW answer \in ActorAnswers
    PROVE  /\ T!Answered(o, answer) \in Memories /\ T!Answered(o, answer).failed = memory[o].failed
           /\ T!Answered(o, answer).expected = memory[o].expected
           /\ T!Answered(o, answer).answer = [memory[o].answer EXCEPT ![T!Provider(o)] = answer]
<1>1. memory[o] \in Memories
  BY StreamIs
<1> QED
  BY <1>1 DEF T!Answered, Memories

LEMMA PaysFor ==
    ASSUME StreamInv, NEW o \in T!Operations, T!Provider(o) \in T!Actors, T!Pay(o),
           memory[o].answer[T!Provider(o)] = "unasked"
    PROVE  \E b \in StreamBills :
              /\ bills' = [bills EXCEPT ![o] = b]
              /\ \A a \in T!Actors : a # T!Provider(o) => b[a] = bills[o][a]
<1> DEFINE p == T!Provider(o)
           b == [bills[o] EXCEPT ![p] = 1]
<1>1. bills[o] \in StreamBills /\ p \in T!Actors /\ (bills[o][p] = 1 => memory[o].answer[p] # "unasked")
  BY StreamIs DEF OperationSound
<1>2. bills[o][p] = 0
  BY <1>1 DEF StreamBills
<1>3. bills' = [bills EXCEPT ![o][p] = bills[o][p] + 1]
  BY DEF T!Pay, StreamInv, StreamTyped
<1>4. bills' = [bills EXCEPT ![o] = b]
  BY <1>2, <1>3
<1>5. b \in StreamBills /\ \A a \in T!Actors : a # p => b[a] = bills[o][a]
  BY <1>1 DEF StreamBills
<1> QED
  BY <1>4, <1>5

LEMMA TryActorKeeps == ASSUME StreamInv, NEW o \in T!Operations, T!TryActor(o) PROVE StreamInv'
<1> DEFINE p == T!Provider(o)
           answer == memory[o].answer[p]
           k == providerCall[o]
           c == [k EXCEPT !.at = "media"]
<1>1. k.at = "try" /\ k.at \in {"try", "media"} /\ p \in T!Actors /\ Around /\ UNCHANGED <<taskFiles, got>>
  BY DEF T!TryActor, T!In, Around
<1>2. /\ memory[o] \in Memories /\ memory[o].failed = FALSE /\ taskFiles[o] \in StreamFiles /\ bills[o] \in StreamBills
      /\ \A a \in T!Actors : bills[o][a] = 1 => memory[o].answer[a] # "unasked"
      /\ o = "job" => memory[o].expected # "long"
      /\ taskFiles = [taskFiles EXCEPT ![o] = taskFiles[o]] /\ bills = [bills EXCEPT ![o] = bills[o]]
      /\ memory = [memory EXCEPT ![o] = memory[o]]
  BY <1>1, UnderWay, Unmoved
<1>3. /\ k \in StreamCalls /\ got \in Speeches /\ k.kind # "none" /\ p = T!Providers[k.provider] /\ k.provider # 1
  <2>1. k \in StreamCalls /\ got \in Speeches /\ k.kind # "none"
    BY <1>1, StreamIs DEF OperationSound
  <2>2. p = T!Providers[k.provider] /\ k.provider \in 1..3
    BY <2>1 DEF T!Provider, StreamCalls
  <2> QED
    BY <1>1, <2>1, <2>2, ProvidersAre
<1>4. c \in StreamCalls /\ c.at = "media" /\ c.kind = k.kind /\ c.provider = k.provider
  BY <1>3 DEF StreamCalls
<1>5. T!At(o, "media") => providerCall' = [providerCall EXCEPT ![o] = c]
  BY DEF T!At, StreamInv, StreamTyped
<1>6. "failed" \in ActorAnswers /\ ToldLengths \subseteq ActorAnswers /\ "unasked" \notin ToldLengths /\ T!Told \subseteq ToldLengths
      /\ T!Lengths \cup {"unknown"} \subseteq ToldLengths
  BY ToldAre DEF ActorAnswers, ToldLengths, T!Lengths
<1> DEFINE lost == T!Answered(o, "failed")
<1>7. /\ lost \in Memories /\ lost.failed = FALSE /\ lost.expected = memory[o].expected
      /\ lost.answer = [memory[o].answer EXCEPT ![p] = "failed"]
  BY <1>1, <1>2, <1>6, AnsweredIs
<1>8. \A a \in T!Actors : lost.answer[a] = IF a = p THEN "failed" ELSE memory[o].answer[a]
  BY <1>1, <1>2, <1>7 DEF Memories
<1> HIDE DEF c, lost
<1>9. CASE answer \in T!Lengths \cup {"unknown"} /\ T!At(o, "media") /\ UNCHANGED <<memory, bills>>
  <2>1. OnlyOf(o, memory[o], c, taskFiles[o], bills[o])
    BY <1>1, <1>2, <1>4, <1>5, <1>9 DEF OnlyOf
  <2>2. OperationSound(memory[o], c, taskFiles[o], bills[o])
    BY <1>2, <1>3, <1>4, <1>6, <1>9 DEF OperationSound
  <2> QED
    BY <1>1, <1>2, <1>3, <1>4, <2>1, <2>2, CallGoesOn
<1>10. CASE answer = "failed" /\ T!Advance(o, memory[o]) /\ UNCHANGED bills
  BY <1>1, <1>2, <1>10, AdvancesAlone
<1>11. CASE T!Advance(o, lost) /\ UNCHANGED bills
  <2>1. \A a \in T!Actors : bills[o][a] = 1 => lost.answer[a] # "unasked"
    BY <1>2, <1>8
  <2> QED
    BY <1>1, <1>2, <1>7, <1>11, <2>1, AdvancesAlone
<1>12. CASE answer = "unasked" /\ T!Pay(o) /\ T!Advance(o, lost)
  <2>1. PICK b \in StreamBills :
              bills' = [bills EXCEPT ![o] = b] /\ \A a \in T!Actors : a # p => b[a] = bills[o][a]
    BY <1>1, <1>12, PaysFor
  <2>2. \A a \in T!Actors : b[a] = 1 => lost.answer[a] # "unasked"
    BY <1>2, <1>8, <2>1
  <2> DEFINE f == taskFiles[o]
  <2>3. f \in StreamFiles /\ taskFiles[o] \subseteq f /\ taskFiles' = [taskFiles EXCEPT ![o] = f] /\ got' = got
    BY <1>1, <1>2
  <2> HIDE DEF f
  <2>4. lost.expected = memory[o].expected /\ (o = "job" => lost.expected # "long")
    BY <1>2, <1>7
  <2> QED
    BY <1>1, <1>7, <1>12, <2>1, <2>2, <2>3, <2>4, Advances
<1>13. ASSUME answer = "unasked", T!Pay(o), T!At(o, "media"), NEW told \in ToldLengths,
              memory' = [memory EXCEPT ![o] = T!Answered(o, told)]
       PROVE  StreamInv'
  <2> DEFINE m == T!Answered(o, told)
  <2>1. PICK b \in StreamBills :
              bills' = [bills EXCEPT ![o] = b] /\ \A a \in T!Actors : a # p => b[a] = bills[o][a]
    BY <1>1, <1>13, PaysFor
  <2>2. /\ m \in Memories /\ m.failed = FALSE /\ m.expected = memory[o].expected
        /\ m.answer = [memory[o].answer EXCEPT ![p] = told]
    BY <1>1, <1>2, <1>6, AnsweredIs
  <2> HIDE DEF m
  <2>3. \A a \in T!Actors : m.answer[a] = IF a = p THEN told ELSE memory[o].answer[a]
    BY <1>1, <1>2, <2>2 DEF Memories
  <2>4. OnlyOf(o, m, c, taskFiles[o], b)
    BY <1>1, <1>2, <1>4, <1>5, <1>13, <2>1, <2>2 DEF OnlyOf, m
  <2>5. \A a \in T!Actors : b[a] = 1 => m.answer[a] # "unasked"
    BY <1>2, <1>6, <2>1, <2>3
  <2>6. m.answer[T!Providers[c.provider]] \in ToldLengths
    BY <1>1, <1>3, <1>4, <2>3
  <2>7. OperationSound(m, c, taskFiles[o], b)
    BY <1>3, <1>4, <2>2, <2>5, <2>6 DEF OperationSound
  <2> QED
    BY <1>1, <1>2, <1>3, <1>4, <2>2, <2>4, <2>7, CallGoesOn
<1>14. (IF p = "apify_kick_mp4" THEN {video.length} ELSE T!Told) \subseteq ToldLengths
  BY <1>6 DEF T!Told
<1> QED
  BY <1>9, <1>10, <1>11, <1>12, <1>13, <1>14 DEF T!TryActor, lost

LEMMA MediaOfKeeps == ASSUME StreamInv, NEW o \in T!Operations, T!Media(o) PROVE StreamInv'
<1> DEFINE told == memory[o].answer[T!Provider(o)]
           m == T!Expect(memory[o], told)
           fetched == [m EXCEPT !.local = TRUE]
<1>1. providerCall[o].at = "media" /\ providerCall[o].at \in {"try", "media"} /\ Around /\ UNCHANGED bills
  BY DEF T!Media, T!In, Around
<1>2. /\ memory[o] \in Memories /\ memory[o].failed = FALSE /\ taskFiles[o] \in StreamFiles /\ bills[o] \in StreamBills
      /\ \A a \in T!Actors : bills[o][a] = 1 => memory[o].answer[a] # "unasked"
      /\ taskFiles = [taskFiles EXCEPT ![o] = taskFiles[o]] /\ bills = [bills EXCEPT ![o] = bills[o]]
  BY <1>1, UnderWay, Unmoved
<1>3. told \in ToldLengths
  BY <1>1, StreamIs DEF OperationSound, T!Provider
<1>4. m \in Memories /\ m.answer = memory[o].answer /\ m.failed = FALSE
  BY <1>2, <1>3, ExpectIs
<1>5. ~T!TooLong(o, told, m) => (o = "job" => m.expected # "long")
  BY <1>1, <1>3, ShortEnough
<1>6. fetched \in Memories /\ fetched.answer = m.answer /\ fetched.failed = FALSE /\ fetched.expected = m.expected
  BY <1>4 DEF Memories
<1> DEFINE shared == taskFiles[o] \cup {"shared"}
<1>7. shared \in StreamFiles /\ taskFiles[o] \subseteq shared
  BY <1>2 DEF StreamFiles
<1>8. \/ T!Refuse(o) /\ memory' = [memory EXCEPT ![o] = m] /\ UNCHANGED <<taskFiles, got>>
      \/ (o = "job" => m.expected # "long") /\ T!Advance(o, m) /\ UNCHANGED <<taskFiles, got>>
      \/ (o = "job" => m.expected # "long") /\ T!Deliver(o, m, taskFiles[o])
      \/ (o = "job" => m.expected # "long") /\ T!Deliver(o, fetched, shared)
      \/ /\ o = "job" => m.expected # "long"
         /\ T!Advance(o, fetched) /\ taskFiles' = [taskFiles EXCEPT ![o] = shared] /\ UNCHANGED got
  BY <1>5 DEF T!Media
<1> HIDE DEF told, m, fetched, shared
<1>9. CASE T!Refuse(o) /\ memory' = [memory EXCEPT ![o] = m] /\ UNCHANGED <<taskFiles, got>>
  BY <1>1, <1>4, <1>9, Refuses
<1>10. CASE (o = "job" => m.expected # "long") /\ T!Advance(o, m) /\ UNCHANGED <<taskFiles, got>>
  <2>1. /\ T!Advance(o, m) /\ UNCHANGED <<taskFiles, got>> /\ (o = "job" => m.expected # "long")
        /\ \A a \in T!Actors : bills[o][a] = 1 => m.answer[a] # "unasked"
    BY <1>2, <1>4, <1>10
  <2> QED
    BY <1>1, <1>4, <2>1, AdvancesAlone
<1>11. CASE (o = "job" => m.expected # "long") /\ T!Deliver(o, m, taskFiles[o])
  BY <1>1, <1>2, <1>4, <1>11, Delivers
<1>12. CASE (o = "job" => m.expected # "long") /\ T!Deliver(o, fetched, shared)
  BY <1>1, <1>4, <1>6, <1>7, <1>12, Delivers
<1>13. CASE /\ o = "job" => m.expected # "long"
            /\ T!Advance(o, fetched) /\ taskFiles' = [taskFiles EXCEPT ![o] = shared] /\ UNCHANGED got
  <2> DEFINE b == bills[o]
  <2>1. /\ b \in StreamBills /\ bills' = [bills EXCEPT ![o] = b] /\ got' = got
        /\ \A a \in T!Actors : b[a] = 1 => fetched.answer[a] # "unasked"
        /\ o = "job" => fetched.expected # "long"
    BY <1>1, <1>2, <1>4, <1>6, <1>13
  <2> HIDE DEF b
  <2> QED
    BY <1>1, <1>6, <1>7, <1>13, <2>1, Advances
<1> QED
  BY <1>8, <1>9, <1>10, <1>11, <1>12, <1>13

\* The disk fails under a download.
LEMMA DiskFailsKeeps == ASSUME StreamInv, NEW o \in T!Operations, T!DiskFails(o) PROVE StreamInv'
<1> DEFINE k == providerCall[o]
           c == [k EXCEPT !.at = "broken"]
<1>1. k.at \in {"try", "media"} /\ T!Fault /\ T!At(o, "broken") /\ UNCHANGED <<video, task, memory, taskFiles, bills, got>>
  BY DEF T!DiskFails
<1>2. /\ memory[o] \in Memories /\ memory[o].failed = FALSE /\ taskFiles[o] \in StreamFiles /\ bills[o] \in StreamBills
      /\ \A a \in T!Actors : bills[o][a] = 1 => memory[o].answer[a] # "unasked"
      /\ o = "job" => memory[o].expected # "long"
  BY <1>1, UnderWay
<1>3. k \in StreamCalls /\ got \in Speeches /\ task \in StreamTasks
      /\ JobHas(task.at, memory["job"], providerCall["job"], taskFiles["job"], got)
  BY StreamIs
<1>4. c \in StreamCalls /\ c.at = "broken" /\ c.kind = k.kind
  BY <1>3 DEF StreamCalls
<1>5. providerCall' = [providerCall EXCEPT ![o] = c]
  BY <1>1 DEF T!At, StreamInv, StreamTyped
<1> HIDE DEF c
<1>6. OnlyOf(o, memory[o], c, taskFiles[o], bills[o])
  BY <1>1, <1>2, <1>4, <1>5, Unmoved DEF OnlyOf
<1>7. OperationSound(memory[o], c, taskFiles[o], bills[o])
  BY <1>2, <1>4 DEF OperationSound
<1>8. o = "job" => JobHas(task.at, memory[o], c, taskFiles[o], got)
  <2>1. o = "job" => task.at \in {"speech", "pictures"}
    BY <1>1, <1>3 DEF JobHas, T!NoCall
  <2>2. o = "job" /\ task.at = "speech" => JobHas(task.at, memory[o], c, taskFiles[o], got)
    BY <1>1, <1>2, <1>3, <1>4 DEF JobHas
  <2>3. o = "job" /\ task.at = "pictures" => JobHas(task.at, memory[o], c, taskFiles[o], got)
    BY <1>1, <1>2, <1>3, <1>4 DEF JobHas
  <2> QED
    BY <2>1, <2>2, <2>3
<1>9. task' = task /\ got' = got /\ FaultCounted
  BY <1>1, FaultIs
<1>10. o = "edit" => JobHas(task'.at, memory["job"], providerCall["job"], taskFiles["job"], got')
  BY <1>3, <1>9
<1>11. o = "job" => JobHas(task'.at, memory[o], c, taskFiles[o], got')
  BY <1>8, <1>9
<1>12. /\ task' \in StreamTasks /\ got' \in Speeches /\ video' \in [private : BOOLEAN, length : {"short", "long"}]
       /\ happened' \in [runs : Nat, faults : Nat] /\ happened'.faults <= MaxFaults
  BY <1>1, <1>3, <1>9 DEF FaultCounted, StreamInv, StreamTyped
<1> QED
  BY <1>6, <1>7, <1>10, <1>11, <1>12, StepOf

\* A step of the task alone.
LEMMA TaskOnly ==
    ASSUME StreamInv, UNCHANGED <<memory, providerCall, taskFiles, bills, got>>, task' \in StreamTasks, WorldTyped',
           JobHas(task'.at, memory["job"], providerCall["job"], taskFiles["job"], got)
    PROVE  StreamInv'
<1>1. StreamTyped'
  BY DEF StreamInv, StreamTyped, WorldTyped
<1>2. \A o \in T!Operations : OperationSound(memory[o], providerCall[o], taskFiles[o], bills[o])'
  BY DEF StreamInv, OperationSound
<1>3. JobHas(task.at, memory["job"], providerCall["job"], taskFiles["job"], got)'
  BY DEF JobHas
<1> QED
  BY <1>1, <1>2, <1>3 DEF StreamInv

LEMMA PreflightKeeps == ASSUME StreamInv, T!Preflight PROVE StreamInv'
<1>1. task.at = "new" /\ task'.at \in {"refused", "queued"} /\ task' \in StreamTasks /\ UNCHANGED video /\ T!Same
  BY DEF T!Preflight, StreamInv, StreamTyped, StreamTasks
<1>2. JobHas("new", memory["job"], providerCall["job"], taskFiles["job"], got)
  BY <1>1, StreamJobIs
<1>3. JobHas(task'.at, memory["job"], providerCall["job"], taskFiles["job"], got)
  BY <1>1, <1>2 DEF JobHas
<1> QED
  BY <1>1, <1>3, TaskOnly DEF T!Same, WorldTyped, StreamInv, StreamTyped

LEMMA AnswerAgesKeeps == ASSUME StreamInv, T!AnswerAges PROVE StreamInv'
<1>1. task'.at = task.at /\ task' \in StreamTasks /\ UNCHANGED video /\ T!Same
  BY DEF T!AnswerAges, StreamInv, StreamTyped, StreamTasks
<1> QED
  BY <1>1, StreamJobIs, TaskOnly DEF T!Same, WorldTyped, StreamInv, StreamTyped

LEMMA VideoChangesKeeps == ASSUME StreamInv, T!VideoChanges PROVE StreamInv'
<1>1. /\ UNCHANGED <<task, memory, taskFiles, providerCall, bills, got>> /\ FaultCounted
      /\ video' \in [private : BOOLEAN, length : {"short", "long"}]
  BY FaultIs DEF T!VideoChanges, StreamInv, StreamTyped
<1>2. /\ task' = task /\ task' \in StreamTasks /\ WorldTyped'
      /\ JobHas(task.at, memory["job"], providerCall["job"], taskFiles["job"], got)
  BY <1>1, StreamJobIs DEF WorldTyped, FaultCounted
<1>3. JobHas(task'.at, memory["job"], providerCall["job"], taskFiles["job"], got)
  BY <1>2
<1> QED
  BY <1>1, <1>2, <1>3, TaskOnly

\* A download of the job begins, or is refused for having failed.
LEMMA StreamDownloadIs ==
    ASSUME StreamInv, NEW o \in T!Operations, NEW kind \in {"audio", "sections", "video"}, T!Download(o, kind)
    PROVE  \E c \in StreamCalls :
              /\ providerCall' = [providerCall EXCEPT ![o] = c]
              /\ IF memory[o].failed THEN c.at = "refused" ELSE c.at = "try" /\ c.kind = kind
<1> DEFINE gone == [T!NoCall EXCEPT !.at = "refused"]
           new == [at |-> "try", kind |-> kind, provider |-> memory[o].preferred]
           c == IF memory[o].failed THEN gone ELSE new
<1>1. memory[o].preferred \in 1..3
  BY StreamIs DEF Memories
<1>2. gone \in StreamCalls /\ gone.at = "refused"
  BY DEF T!NoCall, StreamCalls
<1>3. new \in StreamCalls /\ new.at = "try" /\ new.kind = kind
  BY <1>1 DEF StreamCalls
<1>4. providerCall' = [providerCall EXCEPT ![o] = c]
  BY DEF T!Download
<1> HIDE DEF gone, new
<1> QED
  BY <1>2, <1>3, <1>4

LEMMA StartJobKeeps == ASSUME StreamInv, T!StartJob PROVE StreamInv'
<1>1. /\ task.at = "queued" /\ task' \in StreamTasks /\ task'.at = "speech"
      /\ T!Download("job", "audio") /\ UNCHANGED <<video, taskFiles, bills, got>>
      /\ happened' \in [runs : Nat, faults : Nat] /\ happened'.faults <= MaxFaults
  <2>1. happened' = [happened EXCEPT !.runs = happened.runs + 1] /\ happened \in [runs : Nat, faults : Nat]
        /\ happened.faults <= MaxFaults
    BY DEF T!StartJob, StreamInv, StreamTyped
  <2> DEFINE n == happened.runs + 1
  <2>2. n \in Nat /\ happened' = [happened EXCEPT !.runs = n]
    BY <2>1
  <2> HIDE DEF n
  <2> QED
    BY <2>1, <2>2 DEF T!StartJob, T!Stage, StreamInv, StreamTyped, StreamTasks
<1>2. /\ memory["job"] = T!Fresh /\ taskFiles["job"] \in StreamFiles /\ bills["job"] \in StreamBills /\ got \in Speeches
      /\ \A a \in T!Actors : bills["job"][a] = 1 => memory["job"].answer[a] # "unasked"
      /\ "job" \in T!Operations
  BY <1>1, StreamIs, StreamJobIs DEF JobHas, OperationSound
<1>3. PICK seeded \in BOOLEAN :
        LET m == T!Expect(T!Fresh, IF seeded THEN "short" ELSE "unknown")
            known == seeded /\ task.kept
        IN memory' = [memory EXCEPT !["job"] = IF known THEN [m EXCEPT !.answer["apify_kick_hls"] = "short"] ELSE m]
  BY <1>2 DEF T!StartJob
<1> DEFINE m == T!Expect(T!Fresh, IF seeded THEN "short" ELSE "unknown")
           told == [m EXCEPT !.answer["apify_kick_hls"] = "short"]
           n == IF seeded /\ task.kept THEN told ELSE m
<1>4. T!Fresh \in Memories /\ T!Fresh.expected = "unknown" /\ T!Fresh.failed = FALSE /\ \A a \in T!Actors : T!Fresh.answer[a] = "unasked"
  BY DEF T!Fresh, Memories, ToldLengths, ActorAnswers
<1>5. m \in Memories /\ m.expected \in {"short", "unknown"} /\ m.failed = FALSE
  BY <1>4, ExpectIs DEF ToldLengths
<1> HIDE DEF m
<1>6. told \in Memories /\ told.expected \in {"short", "unknown"} /\ told.failed = FALSE
  BY <1>5 DEF Memories, ActorAnswers, ToldLengths, T!Actors
<1> HIDE DEF told
<1>7. n \in Memories /\ n.expected \in {"short", "unknown"} /\ n.failed = FALSE
  BY <1>5, <1>6
<1>8. memory' = [memory EXCEPT !["job"] = n]
  BY <1>3 DEF m, told
<1> HIDE DEF n
<1>9. PICK c \in StreamCalls : /\ providerCall' = [providerCall EXCEPT !["job"] = c]
                               /\ IF memory["job"].failed THEN c.at = "refused" ELSE c.at = "try" /\ c.kind = "audio"
  BY <1>1, <1>2, StreamDownloadIs
<1>10. c.at = "try" /\ c.kind = "audio"
  BY <1>2, <1>4, <1>9
<1>11. OnlyOf("job", n, c, taskFiles["job"], bills["job"])
  BY <1>1, <1>2, <1>7, <1>8, <1>9, Unmoved DEF OnlyOf
<1>12. \A a \in T!Actors : bills["job"][a] # 1
  BY <1>2, <1>4
<1>13. OperationSound(n, c, taskFiles["job"], bills["job"])
  BY <1>7, <1>10, <1>12 DEF OperationSound
<1>14. JobHas("speech", n, c, taskFiles["job"], got')
  BY <1>7, <1>10 DEF JobHas
<1>15. video' \in [private : BOOLEAN, length : {"short", "long"}] /\ got' \in Speeches
  BY <1>1 DEF StreamInv, StreamTyped
<1>16. JobHas(task'.at, n, c, taskFiles["job"], got')
  BY <1>1, <1>14
<1> QED
  BY <1>1, <1>2, <1>11, <1>13, <1>15, <1>16, StepOf

\* The job alone takes a step, within the world as it is.
LEMMA JobStep ==
    ASSUME StreamInv, NEW m, NEW c, NEW f, NEW b, OnlyOf("job", m, c, f, b), OperationSound(m, c, f, b),
           task' \in StreamTasks, got' \in Speeches, WorldTyped', JobHas(task'.at, m, c, f, got')
    PROVE  StreamInv'
BY StreamJobIs, StepOf DEF WorldTyped

LEMMA WorldIs == ASSUME StreamInv, UNCHANGED <<video, happened>> PROVE WorldTyped'
BY DEF StreamInv, StreamTyped, WorldTyped

\* The download of the job is over, or another one begins.
LEMMA NextDownload ==
    ASSUME StreamInv, NEW c \in StreamCalls, providerCall' = [providerCall EXCEPT !["job"] = c],
           UNCHANGED <<memory, taskFiles, bills, video, happened>>, task' \in StreamTasks, got' \in Speeches,
           c.at \in {"none", "try", "refused"}, c.at = "try" => c.kind # "none" /\ ~memory["job"].failed,
           JobHas(task'.at, memory["job"], c, taskFiles["job"], got')
    PROVE  StreamInv'
<1>1. /\ memory["job"] \in Memories /\ taskFiles["job"] \in StreamFiles /\ bills["job"] \in StreamBills
      /\ OperationSound(memory["job"], providerCall["job"], taskFiles["job"], bills["job"])
  BY StreamJobIs, StreamIs
<1>2. OperationSound(memory["job"], c, taskFiles["job"], bills["job"])
  BY <1>1 DEF OperationSound
<1>3. OnlyOf("job", memory["job"], c, taskFiles["job"], bills["job"])
  BY <1>1, StreamJobIs, Unmoved DEF OnlyOf
<1> QED
  BY <1>2, <1>3, JobStep, WorldIs

LEMMA NoCallIs == T!NoCall \in StreamCalls /\ T!NoCall.at = "none"
BY DEF T!NoCall, StreamCalls

LEMMA SpeechThereKeeps == ASSUME StreamInv, T!SpeechThere PROVE StreamInv'
<1>1. task.at = "speech" /\ providerCall["job"].at = "done" /\ UNCHANGED <<video, memory, taskFiles, bills, happened>>
  BY DEF T!SpeechThere, T!In
<1>2. PICK measured \in BOOLEAN :
         /\ got' = [got EXCEPT !.measured = measured]
         /\ IF measured /\ got.length = "long"
            THEN T!Stage("failing") /\ providerCall' = [providerCall EXCEPT !["job"] = T!NoCall]
            ELSE /\ T!Stage("pictures")
                 /\ IF providerCall["job"].kind = "audio" THEN T!Download("job", "sections")
                    ELSE providerCall' = [providerCall EXCEPT !["job"] = T!NoCall]
  BY DEF T!SpeechThere
<1>3. /\ "job" \in T!Operations /\ memory["job"] \in Memories /\ ~memory["job"].failed
      /\ providerCall["job"].kind \in taskFiles["job"] /\ providerCall["job"].kind \in {"audio", "video"}
      /\ memory["job"].expected # "long" /\ taskFiles["job"] \in StreamFiles
  <2>1. "job" \in T!Operations /\ JobHas("speech", memory["job"], providerCall["job"], taskFiles["job"], got)
    BY <1>1, StreamJobIs
  <2>2. /\ memory["job"] \in Memories /\ taskFiles["job"] \in StreamFiles
        /\ OperationSound(memory["job"], providerCall["job"], taskFiles["job"], bills["job"])
    BY <2>1, StreamIs
  <2> QED
    BY <1>1, <2>1, <2>2 DEF JobHas, OperationSound, Memories
<1>4. got' \in Speeches /\ got'.length = got.length /\ got'.measured = measured
  BY <1>2, StreamJobIs DEF Speeches
<1>5. \A stage \in {"failing", "pictures"} : T!Stage(stage) => task' \in StreamTasks /\ task'.at = stage
  BY StreamJobIs DEF T!Stage, StreamTasks
<1>6. CASE measured /\ got.length = "long"
  <2>1. task' \in StreamTasks /\ task'.at = "failing" /\ providerCall' = [providerCall EXCEPT !["job"] = T!NoCall]
    BY <1>2, <1>5, <1>6
  <2>2. JobHas("failing", memory["job"], T!NoCall, taskFiles["job"], got')
    BY <1>3 DEF JobHas
  <2>3. JobHas(task'.at, memory["job"], T!NoCall, taskFiles["job"], got')
    BY <2>1, <2>2
  <2> QED
    BY <1>1, <1>4, <2>1, <2>3, NoCallIs, NextDownload
<1>7. CASE ~(measured /\ got.length = "long") /\ providerCall["job"].kind = "audio"
  <2>1. task' \in StreamTasks /\ task'.at = "pictures" /\ T!Download("job", "sections")
    BY <1>2, <1>5, <1>7
  <2>2. PICK c \in StreamCalls : providerCall' = [providerCall EXCEPT !["job"] = c] /\ c.at = "try" /\ c.kind = "sections"
    BY <1>3, <2>1, StreamDownloadIs
  <2>3. JobHas("pictures", memory["job"], c, taskFiles["job"], got')
    BY <1>2, <1>3, <1>4, <1>7, <2>2 DEF JobHas
  <2>4. JobHas(task'.at, memory["job"], c, taskFiles["job"], got')
    BY <2>1, <2>3
  <2> QED
    BY <1>1, <1>3, <1>4, <2>1, <2>2, <2>4, NextDownload
<1>8. CASE ~(measured /\ got.length = "long") /\ providerCall["job"].kind # "audio"
  <2>1. task' \in StreamTasks /\ task'.at = "pictures" /\ providerCall' = [providerCall EXCEPT !["job"] = T!NoCall]
    BY <1>2, <1>5, <1>8
  <2>2. JobHas("pictures", memory["job"], T!NoCall, taskFiles["job"], got')
    BY <1>2, <1>3, <1>4, <1>8, NoCallIs DEF JobHas
  <2>3. JobHas(task'.at, memory["job"], T!NoCall, taskFiles["job"], got')
    BY <2>1, <2>2
  <2> QED
    BY <1>1, <1>3, <1>4, <2>1, <2>3, NoCallIs, NextDownload
<1> QED
  BY <1>6, <1>7, <1>8

LEMMA FallBackKeeps == ASSUME StreamInv, T!FallBack PROVE StreamInv'
<1>1. /\ task.at \in {"speech", "pictures"} /\ providerCall["job"].at = "broken" /\ T!Download("job", "video")
      /\ UNCHANGED <<video, task, memory, taskFiles, bills, got, happened>>
  BY DEF T!FallBack, T!In
<1>2. "job" \in T!Operations /\ JobHas(task.at, memory["job"], providerCall["job"], taskFiles["job"], got)
      /\ got \in Speeches /\ task \in StreamTasks
  BY StreamJobIs
<1>3. memory["job"].failed = FALSE
  BY <1>1, <1>2, StreamIs DEF OperationSound, Memories
<1>4. PICK c \in StreamCalls : providerCall' = [providerCall EXCEPT !["job"] = c] /\ c.at = "try" /\ c.kind = "video"
  BY <1>1, <1>2, <1>3, StreamDownloadIs
<1>5. task.at = "speech" => JobHas("speech", memory["job"], c, taskFiles["job"], got)
  BY <1>1, <1>2, <1>4 DEF JobHas
<1>6. task.at = "pictures" => JobHas("pictures", memory["job"], c, taskFiles["job"], got)
  BY <1>1, <1>2, <1>4 DEF JobHas
<1>7. task' \in StreamTasks /\ got' \in Speeches /\ JobHas(task'.at, memory["job"], c, taskFiles["job"], got')
  BY <1>1, <1>2, <1>5, <1>6
<1> QED
  BY <1>1, <1>3, <1>4, <1>7, NextDownload

LEMMA JobFailsKeeps == ASSUME StreamInv, T!JobFails PROVE StreamInv'
<1>1. /\ T!Stage("failing") /\ providerCall' = [providerCall EXCEPT !["job"] = T!NoCall]
      /\ UNCHANGED <<video, memory, taskFiles, bills, got, happened>>
  BY DEF T!JobFails
<1>2. task' \in StreamTasks /\ task'.at = "failing" /\ got' \in Speeches
  BY <1>1, StreamJobIs DEF T!Stage, StreamTasks
<1>3. JobHas("failing", memory["job"], T!NoCall, taskFiles["job"], got')
  BY DEF JobHas
<1>4. JobHas(task'.at, memory["job"], T!NoCall, taskFiles["job"], got')
  BY <1>2, <1>3
<1> QED
  BY <1>1, <1>2, <1>4, NoCallIs, NextDownload

LEMMA RenderKeeps == ASSUME StreamInv, T!Render PROVE StreamInv'
<1>1. /\ task.at = "pictures" /\ providerCall["job"].at \in {"done", "none"} /\ T!Stage("render")
      /\ providerCall' = [providerCall EXCEPT !["job"] = T!NoCall]
      /\ UNCHANGED <<video, memory, taskFiles, bills, got, happened>>
  BY DEF T!Render
<1>2. task' \in StreamTasks /\ task'.at = "render" /\ got' \in Speeches
  BY <1>1, StreamJobIs DEF T!Stage, StreamTasks
<1>3. "job" \in T!Operations /\ JobHas("pictures", memory["job"], providerCall["job"], taskFiles["job"], got)
  BY <1>1, StreamJobIs
<1>4. OperationSound(memory["job"], providerCall["job"], taskFiles["job"], bills["job"]) /\ providerCall["job"] \in StreamCalls
      /\ memory["job"] \in Memories
  BY <1>3, StreamIs
<1>5. CASE providerCall["job"].at = "none"
  <2>1. "video" \in taskFiles["job"] /\ memory["job"].expected # "long"
    BY <1>3, <1>5 DEF JobHas
  <2>2. JobHas("render", memory["job"], T!NoCall, taskFiles["job"], got')
    BY <1>1, <1>3, <2>1 DEF JobHas
  <2>3. JobHas(task'.at, memory["job"], T!NoCall, taskFiles["job"], got')
    BY <1>2, <2>2
  <2> QED
    BY <1>1, <1>2, <2>3, NoCallIs, NextDownload
<1>6. CASE providerCall["job"].at = "done"
  <2>1. /\ providerCall["job"].kind \in {"sections", "video"} /\ providerCall["job"].kind \in taskFiles["job"]
        /\ memory["job"].expected # "long" /\ ~memory["job"].failed
    BY <1>3, <1>4, <1>6 DEF JobHas, OperationSound
  <2>2. JobHas("render", memory["job"], T!NoCall, taskFiles["job"], got')
    BY <1>1, <1>3, <2>1 DEF JobHas
  <2>3. JobHas(task'.at, memory["job"], T!NoCall, taskFiles["job"], got')
    BY <1>2, <2>2
  <2> QED
    BY <1>1, <1>2, <2>1, <2>3, NoCallIs, NextDownload
<1> QED
  BY <1>1, <1>5, <1>6

\* The memory of an operation goes, with its bills, and its files or not.
LEMMA FreshIs ==
    ASSUME NEW f
    PROVE  /\ T!Fresh \in Memories /\ T!Unpaid \in StreamBills /\ OperationSound(T!Fresh, T!NoCall, f, T!Unpaid)
           /\ T!NoCall \in StreamCalls /\ T!NotGot \in Speeches
           /\ \A stage \in {"queued", "ended"} : JobHas(stage, T!Fresh, T!NoCall, f, T!NotGot)
<1>1. T!Fresh \in Memories /\ T!Fresh.failed = FALSE /\ T!Fresh.expected = "unknown"
  BY DEF T!Fresh, Memories, ToldLengths, ActorAnswers
<1>2. T!Unpaid \in StreamBills /\ \A a \in T!Actors : T!Unpaid[a] # 1
  BY DEF T!Unpaid, StreamBills
<1>3. T!NotGot \in Speeches
  BY DEF T!NotGot, Speeches, ToldLengths
<1>4. OperationSound(T!Fresh, T!NoCall, f, T!Unpaid)
  BY <1>1, <1>2, NoCallIs DEF OperationSound
<1>5. \A stage \in {"queued", "ended"} : JobHas(stage, T!Fresh, T!NoCall, f, T!NotGot)
  BY <1>1 DEF JobHas
<1> QED
  BY <1>1, <1>2, <1>3, <1>4, <1>5, NoCallIs

LEMMA EndJobKeeps == ASSUME StreamInv, T!EndJob PROVE StreamInv'
<1>1. /\ task.at \in {"render", "failing"} /\ T!Remove("job") /\ bills' = [bills EXCEPT !["job"] = T!Unpaid]
      /\ got' = T!NotGot /\ UNCHANGED <<video, providerCall, happened>>
      /\ task' \in {[task EXCEPT !.at = "queued"], [at |-> "ended", kept |-> FALSE]}
  BY DEF T!EndJob
<1>2. task' \in StreamTasks /\ task'.at \in {"queued", "ended"}
  <2>1. task \in [at : {"new", "refused", "queued", "speech", "pictures", "render", "failing", "ended"}, kept : BOOLEAN]
    BY StreamJobIs DEF StreamTasks
  <2>2. CASE task' = [task EXCEPT !.at = "queued"]
    BY <2>1, <2>2 DEF StreamTasks
  <2>3. CASE task' = [at |-> "ended", kept |-> FALSE]
    BY <2>3 DEF StreamTasks
  <2> QED
    BY <1>1, <2>2, <2>3
<1>3. JobHas(task.at, memory["job"], providerCall["job"], taskFiles["job"], got) /\ "job" \in T!Operations
  BY StreamJobIs
<1>4. providerCall["job"] = T!NoCall
  BY <1>1, <1>3 DEF JobHas
<1> DEFINE f == {}
<1>5. f \in StreamFiles /\ taskFiles' = [taskFiles EXCEPT !["job"] = f] /\ memory' = [memory EXCEPT !["job"] = T!Fresh]
  BY <1>1 DEF T!Remove, StreamFiles
<1> HIDE DEF f
<1>6. providerCall' = [providerCall EXCEPT !["job"] = T!NoCall]
  BY <1>1, <1>3, <1>4, Unmoved
<1>7. OnlyOf("job", T!Fresh, T!NoCall, f, T!Unpaid)
  BY <1>1, <1>5, <1>6, FreshIs DEF OnlyOf
<1>8. JobHas(task'.at, T!Fresh, T!NoCall, f, got')
  BY <1>1, <1>2, FreshIs
<1>9. OperationSound(T!Fresh, T!NoCall, f, T!Unpaid) /\ got' \in Speeches /\ WorldTyped'
  BY <1>1, FreshIs, WorldIs
<1> QED
  BY <1>2, <1>7, <1>8, <1>9, JobStep

LEMMA StreamCrashKeeps == ASSUME StreamInv, T!Crash PROVE StreamInv'
<1>1. /\ T!Fault /\ T!Stage("queued") /\ memory' = [memory EXCEPT !["job"] = T!Fresh]
      /\ bills' = [bills EXCEPT !["job"] = T!Unpaid] /\ providerCall' = [providerCall EXCEPT !["job"] = T!NoCall]
      /\ got' = T!NotGot /\ UNCHANGED <<video, taskFiles>>
  BY DEF T!Crash
<1>2. task' \in StreamTasks /\ task'.at = "queued"
  BY <1>1, StreamJobIs DEF T!Stage, StreamTasks
<1> DEFINE f == taskFiles["job"]
<1>3. f \in StreamFiles /\ taskFiles' = [taskFiles EXCEPT !["job"] = f]
  BY <1>1, StreamJobIs, StreamIs, Unmoved
<1> HIDE DEF f
<1>4. OnlyOf("job", T!Fresh, T!NoCall, f, T!Unpaid)
  BY <1>1, <1>3, FreshIs DEF OnlyOf
<1>5. JobHas("queued", T!Fresh, T!NoCall, f, T!NotGot)
  BY FreshIs
<1>6. JobHas(task'.at, T!Fresh, T!NoCall, f, got')
  BY <1>1, <1>2, <1>5
<1>7. OperationSound(T!Fresh, T!NoCall, f, T!Unpaid) /\ got' \in Speeches
  BY <1>1, FreshIs
<1>8. WorldTyped'
  BY <1>1, FaultIs DEF FaultCounted, WorldTyped, StreamInv, StreamTyped
<1> QED
  BY <1>2, <1>4, <1>6, <1>7, <1>8, JobStep

\* An edit takes a step; the job is where it was.
LEMMA EditStep ==
    ASSUME StreamInv, NEW m, NEW c, NEW f, NEW b, OnlyOf("edit", m, c, f, b), OperationSound(m, c, f, b),
           UNCHANGED <<task, got>>, WorldTyped'
    PROVE  StreamInv'
BY StreamJobIs, StepOf DEF WorldTyped

LEMMA StartEditKeeps == ASSUME StreamInv, T!StartEdit PROVE StreamInv'
<1>1. /\ T!Fault /\ memory' = [memory EXCEPT !["edit"].expected = "short"] /\ T!Download("edit", "sections")
      /\ UNCHANGED <<video, task, taskFiles, bills, got>>
  BY DEF T!StartEdit
<1>2. /\ "edit" \in T!Operations /\ memory["edit"] \in Memories /\ taskFiles["edit"] \in StreamFiles
      /\ bills["edit"] \in StreamBills
      /\ \A a \in T!Actors : bills["edit"][a] = 1 => memory["edit"].answer[a] # "unasked"
  BY StreamJobIs, StreamIs DEF OperationSound
<1> DEFINE m == [memory["edit"] EXCEPT !.expected = "short"]
<1>3. m \in Memories /\ m.answer = memory["edit"].answer /\ m.failed = memory["edit"].failed
  BY <1>2 DEF Memories, ToldLengths
<1>4. memory' = [memory EXCEPT !["edit"] = m]
  BY <1>1
<1> HIDE DEF m
<1>5. PICK c \in StreamCalls : /\ providerCall' = [providerCall EXCEPT !["edit"] = c]
                               /\ IF memory["edit"].failed THEN c.at = "refused" ELSE c.at = "try" /\ c.kind = "sections"
  BY <1>1, <1>2, StreamDownloadIs
<1>6. OnlyOf("edit", m, c, taskFiles["edit"], bills["edit"])
  BY <1>1, <1>2, <1>3, <1>4, <1>5, Unmoved DEF OnlyOf
<1>7. OperationSound(m, c, taskFiles["edit"], bills["edit"])
  BY <1>2, <1>3, <1>5 DEF OperationSound
<1>8. WorldTyped'
  BY <1>1, FaultIs DEF FaultCounted, WorldTyped, StreamInv, StreamTyped
<1> QED
  BY <1>1, <1>6, <1>7, <1>8, EditStep

LEMMA EndEditKeeps == ASSUME StreamInv, T!EndEdit PROVE StreamInv'
<1>1. /\ T!Remove("edit") /\ providerCall' = [providerCall EXCEPT !["edit"] = [T!NoCall EXCEPT !.at = "over"]]
      /\ bills' = [bills EXCEPT !["edit"] = T!Unpaid] /\ UNCHANGED <<video, task, got, happened>>
  BY DEF T!EndEdit
<1> DEFINE c == [T!NoCall EXCEPT !.at = "over"]
           f == {}
<1>2. c \in StreamCalls /\ c.at = "over"
  BY DEF T!NoCall, StreamCalls
<1>3. f \in StreamFiles /\ taskFiles' = [taskFiles EXCEPT !["edit"] = f] /\ memory' = [memory EXCEPT !["edit"] = T!Fresh]
  BY <1>1 DEF T!Remove, StreamFiles
<1> HIDE DEF c, f
<1>4. T!Fresh \in Memories /\ T!Unpaid \in StreamBills /\ OperationSound(T!Fresh, T!NoCall, f, T!Unpaid)
      /\ T!Fresh.failed = FALSE
  BY FreshIs DEF T!Fresh
<1>5. OperationSound(T!Fresh, c, f, T!Unpaid)
  BY <1>2, <1>4 DEF OperationSound
<1>6. providerCall' = [providerCall EXCEPT !["edit"] = c]
  BY <1>1 DEF c
<1>7. OnlyOf("edit", T!Fresh, c, f, T!Unpaid)
  BY <1>1, <1>2, <1>3, <1>4, <1>6 DEF OnlyOf
<1> QED
  BY <1>1, <1>5, <1>7, WorldIs, EditStep

LEMMA StreamStepKeeps == ASSUME StreamInv, T!Next PROVE StreamInv'
BY PreflightKeeps, AnswerAgesKeeps, VideoChangesKeeps, StartJobKeeps, SpeechThereKeeps, FallBackKeeps, JobFailsKeeps,
   RenderKeeps, EndJobKeeps, StreamCrashKeeps, StartEditKeeps, EndEditKeeps, TryFreeKeeps, TryActorKeeps, MediaOfKeeps,
   DiskFailsKeeps DEF T!Next

LEMMA StreamStays == ASSUME StreamInv, UNCHANGED stream PROVE StreamInv'
<1>1. StreamTyped'
  BY DEF stream, StreamInv, StreamTyped
<1>2. \A o \in T!Operations : OperationSound(memory[o], providerCall[o], taskFiles[o], bills[o])'
  BY DEF stream, StreamInv, OperationSound
<1>3. JobHas(task.at, memory["job"], providerCall["job"], taskFiles["job"], got)'
  BY StreamJobIs DEF stream, JobHas
<1> QED
  BY <1>1, <1>2, <1>3 DEF StreamInv

LEMMA StreamInitHolds == Init => StreamInv
<1> SUFFICES ASSUME NEW stage \in {"new", "ended"}, T!StartIn(stage),
                    video \in [private : BOOLEAN, length : {"short", "long"}]
             PROVE  StreamInv
  <2>1. [private |-> FALSE, length |-> "short"] \in [private : BOOLEAN, length : {"short", "long"}]
    OBVIOUS
  <2>2. ASSUME T!Init PROVE T!StartIn("new") /\ video \in [private : BOOLEAN, length : {"short", "long"}]
    BY <2>2 DEF T!Init, T!Lengths
  <2>3. ASSUME T!Gone PROVE T!StartIn("ended") /\ video \in [private : BOOLEAN, length : {"short", "long"}]
    BY <2>1, <2>3 DEF T!Gone
  <2>4. Init => T!Init \/ T!Gone
    BY DEF Init
  <2> QED
    BY <2>2, <2>3, <2>4
<1> DEFINE f == {}
<1>1. /\ task = [at |-> stage, kept |-> FALSE] /\ memory = [o \in T!Operations |-> T!Fresh]
      /\ taskFiles = [o \in T!Operations |-> f] /\ providerCall = [o \in T!Operations |-> T!NoCall]
      /\ bills = [o \in T!Operations |-> T!Unpaid] /\ got = T!NotGot /\ happened = [runs |-> 0, faults |-> 0]
  BY DEF T!StartIn
<1>2. f \in StreamFiles
  BY DEF StreamFiles
<1> HIDE DEF f
<1>3. /\ T!Fresh \in Memories /\ T!Unpaid \in StreamBills /\ OperationSound(T!Fresh, T!NoCall, f, T!Unpaid)
      /\ T!NoCall \in StreamCalls /\ T!NotGot \in Speeches
  BY FreshIs
<1>4. JobHas(stage, T!Fresh, T!NoCall, f, T!NotGot)
  BY <1>3 DEF JobHas, T!Fresh
<1>5. StreamTyped
  <2>1. task \in StreamTasks /\ task.at = stage
    BY <1>1 DEF StreamTasks
  <2>2. happened \in [runs : Nat, faults : Nat] /\ happened.faults <= MaxFaults
    BY <1>1, EditorAssumption
  <2>3. /\ memory \in [T!Operations -> Memories] /\ providerCall \in [T!Operations -> StreamCalls]
        /\ taskFiles \in [T!Operations -> StreamFiles] /\ bills \in [T!Operations -> StreamBills]
    BY <1>1, <1>2, <1>3
  <2> QED
    BY <1>1, <1>3, <2>1, <2>2, <2>3 DEF StreamTyped
<1>6. \A o \in T!Operations : OperationSound(memory[o], providerCall[o], taskFiles[o], bills[o])
  BY <1>1, <1>3
<1>7. JobHas(task.at, memory["job"], providerCall["job"], taskFiles["job"], got)
  BY <1>1, <1>4 DEF T!Operations
<1> QED
  BY <1>5, <1>6, <1>7 DEF StreamInv

\* A stream's operations pay each actor once for an answer, keep what they were given and try
\* nothing once all providers have failed (stream_source.py), in every reachable state.
THEOREM StreamInductive == Spec => []StreamInv
<1>1. StreamInv /\ [Next]_<<part, drafts, editorExports, aiEdits, replicas,
                           generation, accounts, sourceCache, download, workspace, stream>> => StreamInv'
  BY StreamStepKeeps, StreamStays DEF Next
<1> QED
  BY <1>1, StreamInitHolds, PTL DEF Spec

LEMMA StreamSound == StreamInv => T!StreamHolds
<1> SUFFICES ASSUME StreamInv PROVE T!StreamHolds
  OBVIOUS
<1>1. \A o \in T!Operations : bills[o] \in StreamBills /\ OperationSound(memory[o], providerCall[o], taskFiles[o], bills[o])
  BY StreamIs
<1>2. \A o \in T!Operations : \A a \in T!Actors : bills[o][a] <= 1
  BY <1>1 DEF StreamBills
<1>3. \A o \in T!Operations : providerCall[o].at = "done" => providerCall[o].kind \in taskFiles[o]
  BY <1>1 DEF OperationSound
<1>4. \A o \in T!Operations : memory[o].failed => providerCall[o].at \in {"refused", "none"}
  BY <1>1 DEF OperationSound
<1>5. /\ task.at \in {"pictures", "render"} => taskFiles["job"] # {} /\ (got.length = "long" => ~got.measured)
      /\ task.at = "render" => taskFiles["job"] \cap {"sections", "video"} # {} /\ memory["job"].expected # "long"
  BY StreamJobIs DEF JobHas, T!NoCall
<1> QED
  BY <1>2, <1>3, <1>4, <1>5 DEF T!StreamHolds, T!In
-----------------------------------------------------------------------------
(* The workspace of an upload.                                              *)

Capped == W!Encoded(TallUpload)
Kepts == [picture : {W!None, TallUpload, Capped}, audio : {"none", "empty", "partial", "whole"}, words : Int,
          due : BOOLEAN]
Shelves == [capped : {W!None, Capped}, words : Int]
Workers == [at : {"rest", "done", "evict", "release", "probe", "encode", "publish", "speech", "audio", "extract",
                  "upload", "submit", "poll", "wrote", "keep", "store", "work"},
            tries : Nat, unread : BOOLEAN, own : BOOLEAN, path : {"none", "audio", "video"}, whole : BOOLEAN,
            text : Nat]
Checkpoints == [text : Nat, words : Nat]
Tallies == [runs : Nat, faults : Nat, encodes : Nat, bills : Nat, partial : BOOLEAN, cut : BOOLEAN,
            heard : SUBSET Tasks, twice : BOOLEAN, mixed : BOOLEAN]
WorkspaceTyped ==
    /\ kept \in Kepts /\ shelf \in Shelves /\ worker \in [Tasks -> Workers]
    /\ saved \in [Tasks -> Checkpoints] /\ offered \in Nat /\ tally \in Tallies

\* Who evicts is alone.
Resting == {"rest", "done"}
LeaseInv ==
    \A t \in Tasks : worker[t].at = "evict" => \A u \in Tasks \ {t} : worker[u].at \in Resting
\* What a run needs of the picture where it is; one run at a time brings it below the ceiling,
\* and an original is fetched only while there is no copy below it.
Idle == {"rest", "done", "evict", "release"}
Ready(r, picture) ==
    /\ r.at = "encode" => picture = TallUpload
    /\ r.at = "publish" => picture = Capped
    /\ r.at \notin Idle => picture # W!None
    /\ r.at \notin Idle \cup {"probe", "encode"} /\ ~r.unread => picture = Capped
CeilingInv ==
    /\ kept.picture = TallUpload => shelf.capped = W!None
    /\ \A t \in Tasks : worker[t].at \in W!Capping => \A u \in Tasks \ {t} : worker[u].at \notin W!Capping
    /\ \A t \in Tasks : Ready(worker[t], kept.picture)
\* What was encoded is copied to the store, unless something failed.
CopyMade == shelf.capped # W!None \/ \E t \in Tasks : worker[t].at = "publish"
EncodesInv == tally.encodes <= tally.faults + Once(CopyMade)
\* Who may still pay for a transcript in this run.
Paying == {"probe", "encode", "publish", "speech", "audio", "extract", "upload", "submit"}
Payers == {t \in Tasks : worker[t].at \in Paying}
BillsInv == tally.bills + Cardinality(Payers) <= tally.runs
\* As long as no extraction was cut short and no two worked at once, who uploads the audio
\* has all of it, and audio that is not whole is being written by its one owner.
Speaking == {"extract", "upload"}
Alone == \A t \in Tasks : worker[t].at \in Speaking => \A u \in Tasks \ {t} : worker[u].at \notin Speaking
Whole(r) == r.whole /\ (r.at = "upload" => r.path # "none")
CutInv ==
    /\ tally.partial => tally.cut
    /\ ~tally.cut =>
         /\ \A t \in Tasks : Whole(worker[t])
         /\ Alone
         /\ kept.audio \in {"empty", "partial"} => \E t \in Tasks : worker[t].at = "extract" /\ worker[t].own
\* A task that went on to work has its transcript saved, and its timings, unless two runs
\* were at them at once.
HeardOf(r, s, heard) ==
    /\ heard => s.text # 0 /\ s.words # 0 /\ r.at \notin {"audio", "extract", "upload", "submit"}
    /\ r.at \in {"poll", "wrote", "keep", "store", "work"} => r.text # 0
    /\ r.at = "store" => s.text # 0 /\ s.words # 0
HeardInv ==
    /\ tally.twice => tally.mixed
    /\ ~tally.mixed => \A t \in Tasks : HeardOf(worker[t], saved[t], t \in tally.heard)
WorkspaceInv == WorkspaceTyped /\ LeaseInv /\ CeilingInv /\ EncodesInv /\ BillsInv /\ CutInv /\ HeardInv


-----------------------------------------------------------------------------
(* The runs over one upload.                                                *)

\* The upload is above the ceiling, its encoded copy is not, and neither is nothing.
LEMMA CeilingIs ==
    /\ W!ExceedsLimits(TallUpload) /\ ~W!ExceedsLimits(Capped) /\ ~W!ExceedsLimits(W!None)
    /\ Capped # TallUpload /\ Capped # W!None /\ TallUpload # W!None
<1> DEFINE g == TallUpload
<1>1. g.width = 3840 /\ g.height = 2160 /\ g.shape = <<1, 1>> /\ g.turned = FALSE /\ g.rate = 120000
  BY DEF TallUpload
<1>2. \A h : h.shape = <<1, 1>> /\ h.turned = FALSE => ~W!Anamorphic(h) /\ W!DisplaySize(h) = <<h.width, h.height>>
  BY DEF W!Anamorphic, W!DisplaySize, W!Distance, W!Larger, W!Smaller
<1>3. W!DisplaySize(g) = <<3840, 2160>> /\ W!TooFast(g) /\ ~W!Anamorphic(g)
  BY <1>1, <1>2 DEF W!TooFast
<1> DEFINE size == <<3840, 2160>>
           fitted == W!FitWithin(size)
<1>4. W!Larger(3840, 2160) = 3840 /\ W!Smaller(3840, 2160) = 2160
  BY DEF W!Larger, W!Smaller
<1>5. W!Rounded(3840 * 1920, 3840) = 1920 /\ W!Rounded(2160 * 1920, 3840) = 1080
  BY DEF W!Rounded
<1>6. W!Evened(1920) = 1920 /\ W!Evened(1080) = 1080
  BY DEF W!Evened
<1>7. /\ W!Smaller(1920, 1920) = 1920 /\ W!Smaller(1080, 1080) = 1080
      /\ W!Larger(2, 1920) = 1920 /\ W!Larger(2, 1080) = 1080
  BY DEF W!Larger, W!Smaller
<1>8. fitted[1] = 1920 /\ fitted[2] = 1080
  BY <1>4, <1>5, <1>6, <1>7 DEF W!FitWithin
<1>9. Capped.width = 1920 /\ Capped.height = 1080 /\ Capped.shape = <<1, 1>> /\ Capped.turned = FALSE /\ Capped.rate = 60000
  <2>1. fitted # size
    BY <1>8
  <2>2. W!DisplaySize(TallUpload) = size /\ W!FitWithin(W!DisplaySize(TallUpload)) = fitted /\ W!TooFast(TallUpload)
    BY <1>3
  <2> HIDE DEF fitted, size
  <2>3. /\ Capped.width = fitted[1] /\ Capped.height = fitted[2] /\ Capped.shape = <<1, 1>>
        /\ Capped.turned = FALSE /\ Capped.rate = 60000
    BY <2>1, <2>2 DEF Capped, W!Encoded
  <2> QED
    BY <1>8, <2>3
<1>10. W!DisplaySize(Capped) = <<1920, 1080>> /\ ~W!TooFast(Capped)
  BY <1>2, <1>9 DEF W!TooFast
<1>11. W!None.width = 0 /\ W!None.height = 0 /\ W!None.rate = 0 /\ W!None.shape = <<1, 1>> /\ W!None.turned = FALSE
  BY DEF W!None
<1>12. W!DisplaySize(W!None) = <<0, 0>> /\ ~W!TooFast(W!None)
  BY <1>2, <1>11 DEF W!TooFast
<1>13. W!ExceedsLimits(TallUpload)
  BY <1>3 DEF W!ExceedsLimits
<1>14. ~W!ExceedsLimits(Capped)
  BY <1>10 DEF W!ExceedsLimits, W!Larger, W!Smaller
<1>15. ~W!ExceedsLimits(W!None)
  BY <1>12 DEF W!ExceedsLimits, W!Larger, W!Smaller
<1> QED
  BY <1>1, <1>9, <1>11, <1>13, <1>14, <1>15

\* The run of task t is now r; of the others at most the audio is no longer theirs.
MovedTo(t, r) ==
    /\ worker' \in [Tasks -> Workers] /\ worker'[t] = r
    /\ \A u \in Tasks \ {t} :
         /\ worker'[u].at = worker[u].at /\ worker'[u].unread = worker[u].unread
         /\ worker'[u].whole = worker[u].whole /\ worker'[u].text = worker[u].text
         /\ worker'[u].path = worker[u].path
OwnersStay(t) == \A u \in Tasks \ {t} : worker'[u].own = worker[u].own

LEMMA MoveIs ==
    ASSUME WorkspaceInv, NEW t \in Tasks, NEW r \in Workers, worker' = [worker EXCEPT ![t] = r]
    PROVE  MovedTo(t, r) /\ OwnersStay(t)
BY DEF WorkspaceInv, WorkspaceTyped, MovedTo, OwnersStay

LEMMA WorkspaceIs ==
    ASSUME WorkspaceInv, NEW t \in Tasks
    PROVE  /\ kept \in Kepts /\ shelf \in Shelves /\ worker \in [Tasks -> Workers] /\ worker[t] \in Workers
           /\ saved \in [Tasks -> Checkpoints] /\ saved[t] \in Checkpoints /\ offered \in Nat /\ tally \in Tallies
           /\ Ready(worker[t], kept.picture)
           /\ ~tally.mixed => HeardOf(worker[t], saved[t], t \in tally.heard)
BY DEF WorkspaceInv, WorkspaceTyped, CeilingInv, HeardInv

\* The end of a run, and where another stage begins.
Ended(stage) == [W!NoJob EXCEPT !.at = stage]
LEMMA EndedIs ==
    /\ W!NoJob \in Workers /\ W!NoJob.at = "rest" /\ W!NoJob.whole = TRUE
    /\ \A stage \in {"rest", "done", "evict", "release", "probe"} :
         /\ Ended(stage) \in Workers /\ Ended(stage).at = stage /\ Ended(stage).whole = TRUE /\ Ended(stage).own = FALSE
         /\ Ended(stage).text = 0
BY DEF W!NoJob, Ended, Workers

LEMMA GoIs ==
    ASSUME WorkspaceInv, NEW t \in Tasks,
           NEW stage \in {"evict", "encode", "publish", "speech", "poll", "wrote", "keep", "store", "work"}, W!Go(t, stage)
    PROVE  \E r \in Workers : /\ worker' = [worker EXCEPT ![t] = r] /\ r.at = stage /\ r.tries = worker[t].tries
                              /\ r.unread = worker[t].unread /\ r.own = worker[t].own /\ r.path = worker[t].path
                              /\ r.whole = worker[t].whole /\ r.text = worker[t].text
<1> DEFINE r == [worker[t] EXCEPT !.at = stage]
<1>1. worker[t] \in Workers
  BY WorkspaceIs
<1>2. worker' = [worker EXCEPT ![t] = r]
  BY DEF W!Go, WorkspaceInv, WorkspaceTyped
<1>3. r \in Workers
  BY <1>1 DEF Workers
<1> QED
  BY <1>1, <1>2, <1>3 DEF Workers

\* A fault is counted, and nothing else of what is counted changes.
LEMMA FaultOf ==
    ASSUME NEW c \in Tallies, W!Fault(c)
    PROVE  /\ tally' \in Tallies /\ tally'.faults = c.faults + 1 /\ tally'.runs = c.runs /\ tally'.encodes = c.encodes
           /\ tally'.bills = c.bills /\ tally'.partial = c.partial /\ tally'.cut = c.cut /\ tally'.heard = c.heard
           /\ tally'.twice = c.twice /\ tally'.mixed = c.mixed
<1> DEFINE n == c.faults + 1
<1>1. n \in Nat /\ tally' = [c EXCEPT !.faults = n]
  BY DEF W!Fault, Tallies
<1>2. n = c.faults + 1
  OBVIOUS
<1> HIDE DEF n
<1> QED
  BY <1>1, <1>2 DEF Tallies

\* What a step leaves of what is counted, but for faults.
SameTally ==
    /\ tally' \in Tallies /\ tally'.faults >= tally.faults /\ tally'.runs >= tally.runs /\ tally'.encodes = tally.encodes
    /\ tally'.bills = tally.bills /\ tally'.partial = tally.partial /\ tally'.heard = tally.heard
    /\ tally'.twice = tally.twice /\ tally'.mixed = tally.mixed /\ (tally.cut => tally'.cut)
LEMMA SameTallyIs ==
    ASSUME WorkspaceInv
    PROVE  /\ tally' = tally => SameTally /\ tally'.cut = tally.cut
           /\ W!Fault(tally) => SameTally /\ tally'.cut = tally.cut /\ tally'.faults = tally.faults + 1
<1>1. tally \in Tallies
  BY DEF WorkspaceInv, WorkspaceTyped
<1>2. tally' = tally => SameTally /\ tally'.cut = tally.cut
  BY <1>1 DEF SameTally, Tallies
<1>3. W!Fault(tally) => SameTally /\ tally'.cut = tally.cut /\ tally'.faults = tally.faults + 1
  <2> HAVE W!Fault(tally)
  <2>1. /\ tally' \in Tallies /\ tally'.faults = tally.faults + 1 /\ tally'.runs = tally.runs /\ tally'.encodes = tally.encodes
        /\ tally'.bills = tally.bills /\ tally'.partial = tally.partial /\ tally'.cut = tally.cut /\ tally'.heard = tally.heard
        /\ tally'.twice = tally.twice /\ tally'.mixed = tally.mixed
    BY <1>1, FaultOf
  <2>2. tally.faults \in Nat /\ tally.runs \in Nat
    BY <1>1 DEF Tallies
  <2> QED
    BY <2>1, <2>2 DEF SameTally
<1> QED
  BY <1>2, <1>3

\* The parts of the invariant, one by one, under a step of one run.
LEMMA LeaseKeeps ==
    ASSUME WorkspaceInv, NEW t \in Tasks, NEW r \in Workers, MovedTo(t, r),
           r.at = "evict" => \A u \in Tasks \ {t} : worker[u].at \in Resting,
           worker[t].at \in Resting => r.at \in Resting \/ \A u \in Tasks \ {t} : worker[u].at # "evict"
    PROVE  LeaseInv'
<1> SUFFICES ASSUME NEW v \in Tasks, worker'[v].at = "evict", NEW u \in Tasks \ {v}
             PROVE  worker'[u].at \in Resting
  BY DEF LeaseInv
<1>1. LeaseInv
  BY DEF WorkspaceInv
<1>2. CASE v = t
  BY <1>2 DEF MovedTo
<1>3. CASE v # t
  <2>1. worker[v].at = "evict"
    BY <1>3 DEF MovedTo
  <2>2. worker[u].at \in Resting /\ worker[t].at \in Resting
    BY <1>1, <1>3, <2>1 DEF LeaseInv
  <2>3. r.at \in Resting
    BY <1>3, <2>1, <2>2
  <2> QED
    BY <2>2, <2>3 DEF MovedTo
<1> QED
  BY <1>2, <1>3

LEMMA CeilingKeeps ==
    ASSUME WorkspaceInv, NEW t \in Tasks, NEW r \in Workers, MovedTo(t, r),
           kept'.picture = kept.picture, shelf'.capped = shelf.capped \/ kept.picture # TallUpload,
           Ready(r, kept.picture),
           r.at \in W!Capping => worker[t].at \in W!Capping \/ \A u \in Tasks \ {t} : worker[u].at \notin W!Capping
    PROVE  CeilingInv'
<1>1. CeilingInv
  BY DEF WorkspaceInv
<1>2. (kept.picture = TallUpload => shelf.capped = W!None)'
  BY <1>1 DEF CeilingInv
<1>3. ASSUME NEW v \in Tasks, worker'[v].at \in W!Capping, NEW u \in Tasks \ {v} PROVE worker'[u].at \notin W!Capping
  <2>1. CASE v = t
    BY <1>1, <1>3, <2>1 DEF MovedTo, CeilingInv
  <2>2. CASE v # t
    <3>1. worker[v].at \in W!Capping
      BY <1>3, <2>2 DEF MovedTo
    <3>2. worker[u].at \notin W!Capping /\ worker[t].at \notin W!Capping
      BY <1>1, <2>2, <3>1 DEF CeilingInv
    <3>3. r.at \notin W!Capping
      BY <2>2, <3>1, <3>2
    <3> QED
      BY <3>2, <3>3 DEF MovedTo
  <2> QED
    BY <2>1, <2>2
<1>4. ASSUME NEW v \in Tasks PROVE Ready(worker'[v], kept'.picture)
  <2>1. CASE v = t
    BY <2>1 DEF MovedTo
  <2>2. CASE v # t
    <3>1. worker'[v].at = worker[v].at /\ worker'[v].unread = worker[v].unread /\ Ready(worker[v], kept.picture)
      BY <1>1, <2>2 DEF MovedTo, CeilingInv
    <3> QED
      BY <3>1 DEF Ready
  <2> QED
    BY <2>1, <2>2
<1>5. \A v \in Tasks : Ready(worker[v], kept.picture)'
  BY <1>4 DEF Ready
<1> QED
  BY <1>2, <1>3, <1>5 DEF CeilingInv, W!Capping

LEMMA EncodesKeeps ==
    ASSUME WorkspaceInv, NEW t \in Tasks, NEW r \in Workers, MovedTo(t, r), tally' \in Tallies,
           shelf'.capped = shelf.capped \/ shelf'.capped # W!None,
           tally'.encodes = tally.encodes, tally'.faults >= tally.faults,
           worker[t].at = "publish" => r.at = "publish" \/ tally'.faults > tally.faults \/ shelf'.capped # W!None
    PROVE  EncodesInv'
<1>1. EncodesInv /\ tally \in Tallies
  BY DEF WorkspaceInv, WorkspaceTyped
<1>2. tally.encodes \in Nat /\ tally.faults \in Nat /\ tally'.faults \in Nat
  BY <1>1 DEF Tallies
<1>3. CopyMade => CopyMade' \/ tally'.faults > tally.faults
  BY DEF CopyMade, MovedTo
<1>4. tally.encodes <= tally.faults + Once(CopyMade)
  BY <1>1 DEF EncodesInv
<1>5. tally'.encodes <= tally'.faults + Once(CopyMade')
  BY <1>2, <1>3, <1>4 DEF Once
<1> QED
  BY <1>5 DEF EncodesInv, Once

\* How many may still pay is a number, and no larger for fewer runs.
LEMMA FewerPay ==
    ASSUME NEW P \in SUBSET Tasks, NEW Q \in SUBSET P
    PROVE  Cardinality(P) \in Nat /\ Cardinality(Q) \in Nat /\ Cardinality(Q) <= Cardinality(P)
<1>1. IsFiniteSet(P)
  BY SourcesAssumption, FS_Subset
<1> QED
  BY <1>1, FS_Subset, FS_CardinalityType

LEMMA BillsKeeps ==
    ASSUME WorkspaceInv, NEW t \in Tasks, NEW r \in Workers, MovedTo(t, r), tally' \in Tallies,
           tally'.bills = tally.bills, tally'.runs >= tally.runs, r.at \in Paying => worker[t].at \in Paying
    PROVE  BillsInv'
<1> DEFINE Q == {u \in Tasks : worker'[u].at \in Paying}
<1>1. Q \subseteq Payers
  BY DEF Payers, MovedTo
<1>2. Payers \in SUBSET Tasks
  BY DEF Payers
<1> HIDE DEF Q
<1>3. Cardinality(Payers) \in Nat /\ Cardinality(Q) \in Nat /\ Cardinality(Q) <= Cardinality(Payers)
  BY <1>1, <1>2, FewerPay
<1>4. tally.bills + Cardinality(Payers) <= tally.runs /\ tally.bills \in Nat /\ tally.runs \in Nat /\ tally'.runs \in Nat
  BY DEF WorkspaceInv, BillsInv, WorkspaceTyped, Tallies
<1>5. tally'.bills + Cardinality(Q) <= tally'.runs
  BY <1>3, <1>4
<1>6. Payers' = Q
  BY DEF Payers, Q, Paying
<1> QED
  BY <1>5, <1>6 DEF BillsInv

\* The run goes on with as much of the audio as it had.
SpeaksOn(t, r) ==
    /\ Whole(worker[t]) => Whole(r)
    /\ r.at \in Speaking => worker[t].at \in Speaking
    /\ worker[t].at = "extract" /\ worker[t].own => r.at = "extract" /\ r.own
LEMMA CutKeeps ==
    ASSUME WorkspaceInv, NEW t \in Tasks, NEW r \in Workers, MovedTo(t, r),
           tally'.partial = tally.partial, tally.cut => tally'.cut,
           tally'.cut \/ (SpeaksOn(t, r) /\ OwnersStay(t) /\ kept'.audio = kept.audio)
    PROVE  CutInv'
<1>1. CutInv
  BY DEF WorkspaceInv
<1>2. (tally.partial => tally.cut)'
  BY <1>1 DEF CutInv
<1>3. ASSUME ~tally'.cut
      PROVE  /\ \A v \in Tasks : Whole(worker'[v])
             /\ \A v \in Tasks : worker'[v].at \in Speaking => \A u \in Tasks \ {v} : worker'[u].at \notin Speaking
             /\ kept'.audio \in {"empty", "partial"} => \E v \in Tasks : worker'[v].at = "extract" /\ worker'[v].own
  <2>1. /\ \A v \in Tasks : Whole(worker[v])
        /\ \A v \in Tasks : worker[v].at \in Speaking => \A u \in Tasks \ {v} : worker[u].at \notin Speaking
        /\ kept.audio \in {"empty", "partial"} => \E v \in Tasks : worker[v].at = "extract" /\ worker[v].own
        /\ SpeaksOn(t, r) /\ OwnersStay(t) /\ kept'.audio = kept.audio
    BY <1>1, <1>3 DEF CutInv, Alone
  <2>2. \A v \in Tasks : Whole(worker'[v])
    BY <2>1 DEF SpeaksOn, MovedTo, Whole
  <2>3. \A v \in Tasks : worker'[v].at \in Speaking => worker[v].at \in Speaking
    BY <2>1 DEF SpeaksOn, MovedTo
  <2>4. \A v \in Tasks : worker[v].at = "extract" /\ worker[v].own => worker'[v].at = "extract" /\ worker'[v].own
    BY <2>1 DEF SpeaksOn, MovedTo, OwnersStay
  <2>5. \A v \in Tasks : worker'[v].at \in Speaking => \A u \in Tasks \ {v} : worker'[u].at \notin Speaking
    BY <2>1, <2>3
  <2>6. kept'.audio \in {"empty", "partial"} => \E v \in Tasks : worker'[v].at = "extract" /\ worker'[v].own
    BY <2>1, <2>4
  <2> QED
    BY <2>2, <2>5, <2>6
<1> QED
  BY <1>2, <1>3 DEF CutInv, Alone, Speaking, Whole

\* The audio goes, or is whole: no owner of it is needed.
LEMMA NoneSpeak ==
    ASSUME WorkspaceInv, NEW t \in Tasks, NEW r \in Workers, MovedTo(t, r),
           tally'.partial = tally.partial, tally.cut => tally'.cut, Whole(r),
           r.at \in Speaking => worker[t].at \in Speaking \/ tally'.cut, kept'.audio \in {"none", "whole"}
    PROVE  CutInv'
<1>1. CutInv
  BY DEF WorkspaceInv
<1>2. (tally.partial => tally.cut)'
  BY <1>1 DEF CutInv
<1>3. ASSUME ~tally'.cut
      PROVE  /\ \A v \in Tasks : Whole(worker'[v])
             /\ \A v \in Tasks : worker'[v].at \in Speaking => \A u \in Tasks \ {v} : worker'[u].at \notin Speaking
  <2>1. /\ \A v \in Tasks : Whole(worker[v])
        /\ \A v \in Tasks : worker[v].at \in Speaking => \A u \in Tasks \ {v} : worker[u].at \notin Speaking
    BY <1>1, <1>3 DEF CutInv, Alone
  <2>2. \A v \in Tasks : Whole(worker'[v])
    BY <2>1 DEF MovedTo, Whole
  <2>3. \A v \in Tasks : worker'[v].at \in Speaking => worker[v].at \in Speaking
    BY <1>3 DEF MovedTo
  <2> QED
    BY <2>1, <2>2, <2>3
<1> QED
  BY <1>2, <1>3 DEF CutInv, Alone, Speaking, Whole

LEMMA HeardKeeps ==
    ASSUME WorkspaceInv, NEW t \in Tasks, NEW r \in Workers, MovedTo(t, r), saved' = saved,
           tally'.heard = tally.heard, tally'.twice = tally.twice, tally'.mixed = tally.mixed,
           ~tally.mixed => HeardOf(r, saved[t], t \in tally.heard)
    PROVE  HeardInv'
<1>1. HeardInv
  BY DEF WorkspaceInv
<1>2. (tally.twice => tally.mixed)'
  BY <1>1 DEF HeardInv
<1>3. ASSUME ~tally'.mixed, NEW v \in Tasks PROVE HeardOf(worker'[v], saved'[v], v \in tally'.heard)
  <2>1. CASE v = t
    BY <1>3, <2>1 DEF MovedTo
  <2>2. CASE v # t
    <3>1. worker'[v].at = worker[v].at /\ worker'[v].text = worker[v].text
      BY <2>2 DEF MovedTo
    <3>2. HeardOf(worker[v], saved[v], v \in tally.heard)
      BY <1>1, <1>3 DEF HeardInv
    <3> QED
      BY <3>1, <3>2 DEF HeardOf
  <2> QED
    BY <2>1, <2>2
<1> QED
  BY <1>2, <1>3 DEF HeardInv, HeardOf

LEMMA WorkspaceTypedKeeps ==
    ASSUME NEW t \in Tasks, NEW r, MovedTo(t, r), kept' \in Kepts, shelf' \in Shelves, tally' \in Tallies, offered' \in Nat,
           saved' \in [Tasks -> Checkpoints]
    PROVE  WorkspaceTyped'
BY DEF WorkspaceTyped, MovedTo

\* A run goes on without anything that the others rely on.
Quiet(t, r) ==
    /\ r.at = "evict" => \A u \in Tasks \ {t} : worker[u].at \in Resting
    /\ worker[t].at \in Resting => r.at \in Resting \/ \A u \in Tasks \ {t} : worker[u].at # "evict"
    /\ Ready(worker[t], kept.picture) => Ready(r, kept.picture)
    /\ r.at \in W!Capping => worker[t].at \in W!Capping \/ \A u \in Tasks \ {t} : worker[u].at \notin W!Capping
    /\ r.at \in Paying => worker[t].at \in Paying
    /\ ~tally.mixed /\ HeardOf(worker[t], saved[t], t \in tally.heard) => HeardOf(r, saved[t], t \in tally.heard)
Outside ==
    /\ kept' \in Kepts /\ kept'.picture = kept.picture /\ shelf' \in Shelves /\ shelf'.capped = shelf.capped
    /\ saved' = saved /\ offered' \in Nat /\ SameTally
LEMMA QuietBut ==
    ASSUME WorkspaceInv, NEW t \in Tasks, NEW r \in Workers, MovedTo(t, r), Outside, Quiet(t, r),
           worker[t].at = "publish" => r.at = "publish" \/ tally'.faults > tally.faults,
           CutInv'
    PROVE  WorkspaceInv'
<1>1. /\ kept' \in Kepts /\ shelf' \in Shelves /\ tally' \in Tallies /\ offered' \in Nat /\ saved' = saved
      /\ saved \in [Tasks -> Checkpoints]
  BY DEF Outside, SameTally, WorkspaceInv, WorkspaceTyped
<1>2. WorkspaceTyped'
  BY <1>1, WorkspaceTypedKeeps
<1>3. LeaseInv'
  BY LeaseKeeps DEF Quiet
<1>4. Ready(r, kept.picture) /\ (~tally.mixed => HeardOf(r, saved[t], t \in tally.heard))
  BY WorkspaceIs DEF Quiet
<1>5. CeilingInv'
  BY <1>4, CeilingKeeps DEF Quiet, Outside
<1>6. EncodesInv'
  BY <1>1, EncodesKeeps DEF Outside, SameTally
<1>7. BillsInv'
  <2>1. tally'.bills = tally.bills /\ tally'.runs >= tally.runs /\ (r.at \in Paying => worker[t].at \in Paying)
    BY DEF Quiet, Outside, SameTally
  <2> QED
    BY <1>1, <2>1, BillsKeeps
<1>9. HeardInv'
  BY <1>4, HeardKeeps DEF Outside, SameTally
<1> QED
  BY <1>2, <1>3, <1>5, <1>6, <1>7, <1>9 DEF WorkspaceInv

LEMMA QuietKeeps ==
    ASSUME WorkspaceInv, NEW t \in Tasks, NEW r \in Workers, MovedTo(t, r), Outside, Quiet(t, r),
           worker[t].at = "publish" => r.at = "publish" \/ tally'.faults > tally.faults,
           tally'.cut \/ (SpeaksOn(t, r) /\ OwnersStay(t) /\ kept'.audio = kept.audio)
    PROVE  WorkspaceInv'
<1>1. CutInv'
  BY CutKeeps DEF Outside, SameTally
<1> QED
  BY <1>1, QuietBut

\* A run ends where it is: its lease is released, or its worker is gone.
LEMMA EndKeeps ==
    ASSUME WorkspaceInv, NEW t \in Tasks, NEW stage \in {"rest", "release"}, worker' = [worker EXCEPT ![t] = Ended(stage)],
           worker[t].at \notin Resting, Outside, kept'.audio = kept.audio,
           worker[t].at = "publish" => tally'.faults > tally.faults, worker[t].at = "extract" => tally'.cut
    PROVE  WorkspaceInv'
<1> DEFINE r == Ended(stage)
<1>1. r \in Workers /\ r.at = stage /\ r.whole = TRUE /\ r.own = FALSE
  BY EndedIs
<1> HIDE DEF r
<1>2. MovedTo(t, r) /\ OwnersStay(t)
  BY <1>1, MoveIs DEF r
<1>3. Quiet(t, r)
  BY <1>1 DEF Quiet, Ready, HeardOf, W!Capping, Paying, Idle, Resting
<1>4. tally'.cut \/ (SpeaksOn(t, r) /\ OwnersStay(t) /\ kept'.audio = kept.audio)
  BY <1>1, <1>2 DEF SpeaksOn, Speaking, Whole
<1> QED
  BY <1>1, <1>2, <1>3, <1>4, QuietKeeps

LEMMA EndIs ==
    ASSUME NEW t \in Tasks
    PROVE  /\ W!End(t) => worker' = [worker EXCEPT ![t] = Ended("release")]
           /\ worker' = [worker EXCEPT ![t] = W!NoJob] => worker' = [worker EXCEPT ![t] = Ended("rest")]
<1>1. Ended("rest") = W!NoJob
  BY DEF Ended, W!NoJob
<1> QED
  BY <1>1 DEF W!End, Ended

LEMMA OutsideIs ==
    ASSUME WorkspaceInv, UNCHANGED <<kept, shelf, saved>>, offered' \in Nat, SameTally
    PROVE  Outside /\ kept'.audio = kept.audio
BY DEF Outside, WorkspaceInv, WorkspaceTyped

LEMMA BeginKeeps == ASSUME WorkspaceInv, NEW t \in Tasks, W!Begin(t) PROVE WorkspaceInv'
<1> DEFINE runs == [tally EXCEPT !.runs = @ + 1]
           words == IF kept.words = 0 THEN shelf.words ELSE kept.words
           timed == [kept EXCEPT !.words = words]
           picture == IF kept.picture # W!None THEN kept.picture
                      ELSE IF shelf.capped # W!None THEN shelf.capped ELSE TallUpload
           probing == Ended("probe")
           failed == Ended("release")
<1>1. worker[t].at = "rest" /\ (\A u \in Tasks \ {t} : worker[u].at # "evict") /\ UNCHANGED <<shelf, saved, offered>>
  BY DEF W!Begin, W!At, W!OthersAt
<1>2. kept \in Kepts /\ shelf \in Shelves /\ tally \in Tallies /\ saved \in [Tasks -> Checkpoints] /\ offered \in Nat
      /\ worker[t] \in Workers
  BY WorkspaceIs
<1>3. words \in Int /\ picture \in {W!None, TallUpload, Capped} /\ picture # W!None
  BY <1>2, CeilingIs DEF Kepts, Shelves
<1>4. timed \in Kepts /\ timed.picture = kept.picture /\ timed.audio = kept.audio
  BY <1>2, <1>3 DEF Kepts
<1>5. /\ runs \in Tallies /\ runs.runs = tally.runs + 1 /\ runs.faults = tally.faults /\ runs.encodes = tally.encodes
      /\ runs.bills = tally.bills /\ runs.partial = tally.partial /\ runs.cut = tally.cut /\ runs.heard = tally.heard
      /\ runs.twice = tally.twice /\ runs.mixed = tally.mixed
  <2> DEFINE n == tally.runs + 1
  <2>1. n \in Nat /\ runs = [tally EXCEPT !.runs = n]
    BY <1>2 DEF Tallies
  <2>2. n = tally.runs + 1
    OBVIOUS
  <2> HIDE DEF n, runs
  <2> QED
    BY <1>2, <2>1, <2>2 DEF Tallies
<1>6. \/ /\ tally' = runs /\ kept' = [timed EXCEPT !.picture = picture]
         /\ worker' = [worker EXCEPT ![t] = probing]
      \/ W!Fault(runs) /\ kept' \in {kept, timed} /\ worker' = [worker EXCEPT ![t] = failed]
  <2>1. \/ /\ tally' = runs
           /\ kept' = [timed EXCEPT !.picture = IF @ # W!None THEN @ ELSE IF shelf.capped # W!None THEN shelf.capped
                                                ELSE TallUpload]
           /\ worker' = [worker EXCEPT ![t] = probing]
        \/ W!Fault(runs) /\ kept' \in {kept, timed} /\ worker' = [worker EXCEPT ![t] = failed]
    BY DEF W!Begin, Ended
  <2> HIDE DEF timed, runs, probing, failed
  <2> QED
    BY <1>4, <2>1
<1> HIDE DEF runs, words, timed, picture
<1>7. ASSUME tally' = runs, kept' = [timed EXCEPT !.picture = picture], worker' = [worker EXCEPT ![t] = probing]
      PROVE  WorkspaceInv'
  <2>1. probing \in Workers /\ probing.at = "probe" /\ probing.whole = TRUE
    BY EndedIs
  <2> HIDE DEF probing, failed
  <2>2. MovedTo(t, probing) /\ OwnersStay(t)
    BY <1>7, <2>1, MoveIs
  <2>3. kept' \in Kepts /\ kept'.picture = picture /\ kept'.audio = kept.audio
    BY <1>3, <1>4, <1>7 DEF Kepts
  <2>4. WorkspaceTyped'
    BY <1>1, <1>2, <1>5, <1>7, <2>2, <2>3, WorkspaceTypedKeeps
  <2>5. LeaseInv'
    BY <1>1, <2>1, <2>2, LeaseKeeps
  <2>6. CeilingInv'
    <3>1. CeilingInv
      BY DEF WorkspaceInv
    <3>2. (kept.picture = TallUpload => shelf.capped = W!None)'
      <4>1. shelf.capped \in {W!None, Capped} /\ (kept.picture = TallUpload => shelf.capped = W!None)
        BY <1>2, <3>1 DEF Shelves, CeilingInv
      <4>2. picture = TallUpload => shelf.capped = W!None
        BY <4>1, CeilingIs DEF picture
      <4> QED
        BY <1>1, <2>3, <4>2
    <3>3. \A v \in Tasks : worker'[v].at \in W!Capping => \A u \in Tasks \ {v} : worker'[u].at \notin W!Capping
      BY <2>1, <2>2, <3>1 DEF CeilingInv, MovedTo, W!Capping
    <3>4. ASSUME NEW v \in Tasks PROVE Ready(worker'[v], picture)
      <4>1. CASE v = t
        BY <1>3, <2>1, <2>2, <4>1 DEF MovedTo, Ready
      <4>2. CASE v # t
        <5>1. worker'[v].at = worker[v].at /\ worker'[v].unread = worker[v].unread /\ Ready(worker[v], kept.picture)
          BY <2>2, <3>1, <4>2 DEF MovedTo, CeilingInv
        <5>2. kept.picture = W!None => worker[v].at \in Idle
          BY <5>1 DEF Ready
        <5>3. kept.picture # W!None => picture = kept.picture
          BY DEF picture
        <5> QED
          BY <5>1, <5>2, <5>3 DEF Ready, Idle
      <4> QED
        BY <4>1, <4>2
    <3>5. \A v \in Tasks : Ready(worker[v], kept.picture)'
      BY <2>3, <3>4 DEF Ready
    <3> QED
      BY <3>2, <3>3, <3>5 DEF CeilingInv, W!Capping
  <2>7. EncodesInv'
    BY <1>1, <1>2, <1>5, <1>7, <2>1, <2>2, EncodesKeeps DEF Tallies
  <2>8. BillsInv'
    <3> DEFINE Q == {u \in Tasks : worker'[u].at \in Paying}
    <3>1. Q \subseteq Payers \cup {t} /\ Payers \in SUBSET Tasks
      BY <2>2 DEF Payers, MovedTo
    <3>2. IsFiniteSet(Payers)
      BY <3>1, SourcesAssumption, FS_Subset
    <3>3. IsFiniteSet(Payers \cup {t}) /\ Cardinality(Payers) \in Nat
          /\ Cardinality(Payers \cup {t}) <= Cardinality(Payers) + 1 /\ Cardinality(Payers \cup {t}) \in Nat
      <4>1. /\ IsFiniteSet(Payers \cup {t}) /\ Cardinality(Payers) \in Nat
            /\ Cardinality(Payers \cup {t}) = IF t \in Payers THEN Cardinality(Payers) ELSE Cardinality(Payers) + 1
        BY <3>2, FS_AddElement, FS_CardinalityType
      <4> QED
        BY <4>1
    <3> HIDE DEF Q
    <3>4. Cardinality(Q) \in Nat /\ Cardinality(Q) <= Cardinality(Payers \cup {t})
      BY <3>1, <3>3, FS_Subset, FS_CardinalityType
    <3>5. tally.bills + Cardinality(Payers) <= tally.runs /\ tally.bills \in Nat /\ tally.runs \in Nat
      BY <1>2 DEF WorkspaceInv, BillsInv, Tallies
    <3>6. tally'.bills + Cardinality(Q) <= tally'.runs
      BY <1>5, <1>7, <3>3, <3>4, <3>5
    <3>7. Payers' = Q
      BY DEF Payers, Q, Paying
    <3> QED
      BY <3>6, <3>7 DEF BillsInv
  <2>9. CutInv'
    <3>1. SpeaksOn(t, probing)
      BY <1>1, <2>1 DEF SpeaksOn, Speaking, Whole
    <3> QED
      BY <1>5, <1>7, <2>1, <2>2, <2>3, <3>1, CutKeeps
  <2>10. HeardInv'
    <3>1. ~tally.mixed => HeardOf(probing, saved[t], t \in tally.heard)
      BY <2>1, WorkspaceIs DEF HeardOf
    <3> QED
      BY <1>1, <1>5, <1>7, <2>1, <2>2, <3>1, HeardKeeps
  <2> QED
    BY <2>4, <2>5, <2>6, <2>7, <2>8, <2>9, <2>10 DEF WorkspaceInv
<1>8. ASSUME W!Fault(runs), kept' \in {kept, timed}, worker' = [worker EXCEPT ![t] = failed] PROVE WorkspaceInv'
  <2>1. failed \in Workers /\ failed.at = "release" /\ failed.whole = TRUE
    BY EndedIs
  <2> HIDE DEF probing, failed
  <2>2. MovedTo(t, failed) /\ OwnersStay(t)
    BY <1>8, <2>1, MoveIs
  <2>3. SameTally
    <3>1. /\ tally' \in Tallies /\ tally'.faults = runs.faults + 1 /\ tally'.runs = runs.runs /\ tally'.encodes = runs.encodes
          /\ tally'.bills = runs.bills /\ tally'.partial = runs.partial /\ tally'.cut = runs.cut /\ tally'.heard = runs.heard
          /\ tally'.twice = runs.twice /\ tally'.mixed = runs.mixed
      BY <1>5, <1>8, FaultOf
    <3>2. tally.faults \in Nat /\ tally.runs \in Nat
      BY <1>2 DEF Tallies
    <3> QED
      BY <1>5, <3>1, <3>2 DEF SameTally
  <2>4. Outside /\ kept'.audio = kept.audio
    BY <1>1, <1>2, <1>4, <1>8, <2>3 DEF Outside
  <2>5. Quiet(t, failed)
    BY <1>1, <2>1 DEF Quiet, Ready, HeardOf, W!Capping, Paying, Idle, Resting
  <2>6. SpeaksOn(t, failed)
    BY <1>1, <2>1 DEF SpeaksOn, Speaking, Whole
  <2> QED
    BY <1>1, <2>1, <2>2, <2>4, <2>5, <2>6, QuietKeeps
<1> QED
  BY <1>6, <1>7, <1>8

LEMMA ReleaseKeeps == ASSUME WorkspaceInv, NEW t \in Tasks, W!Release(t) PROVE WorkspaceInv'
<1> DEFINE r == Ended("evict")
<1>1. worker[t].at = "release" /\ UNCHANGED <<kept, shelf, saved, offered>> /\ offered' \in Nat
  BY WorkspaceIs DEF W!Release, W!At
<1>2. \/ /\ \A u \in Tasks \ {t} : worker[u].at \in Resting
         /\ worker' = [worker EXCEPT ![t] = r] /\ tally' = tally
      \/ worker' = [worker EXCEPT ![t] = W!NoJob] /\ (tally' = tally \/ W!Fault(tally))
  BY DEF W!Release, W!Leased, W!OthersAt, W!At, Resting, Ended
<1>3. SameTally /\ Outside /\ kept'.audio = kept.audio
  BY <1>1, <1>2, SameTallyIs, OutsideIs
<1>4. CASE worker' = [worker EXCEPT ![t] = W!NoJob]
  BY <1>1, <1>3, <1>4, EndIs, EndKeeps DEF Resting
<1>5. CASE (\A u \in Tasks \ {t} : worker[u].at \in Resting) /\ worker' = [worker EXCEPT ![t] = r]
  <2>1. r \in Workers /\ r.at = "evict" /\ r.whole = TRUE
    BY EndedIs
  <2> HIDE DEF r
  <2>2. MovedTo(t, r) /\ OwnersStay(t)
    BY <1>5, <2>1, MoveIs
  <2>3. Quiet(t, r)
    BY <1>1, <1>5, <2>1 DEF Quiet, Ready, HeardOf, W!Capping, Paying, Idle, Resting
  <2>4. SpeaksOn(t, r)
    BY <1>1, <2>1 DEF SpeaksOn, Speaking, Whole
  <2> QED
    BY <1>1, <1>3, <2>1, <2>2, <2>3, <2>4, QuietKeeps
<1> QED
  BY <1>2, <1>4, <1>5

\* The directory is emptied.
LEMMA EmptiedIs ==
    ASSUME WorkspaceInv, W!Emptied
    PROVE  /\ kept' \in Kepts /\ kept'.picture = W!None /\ kept'.audio = "none" /\ shelf' \in Shelves
           /\ shelf'.capped = shelf.capped /\ SameTally /\ tally'.cut = tally.cut
<1>1. kept \in Kepts /\ shelf \in Shelves /\ tally \in Tallies
  BY DEF WorkspaceInv, WorkspaceTyped
<1>2. ASSUME W!Sync(kept) PROVE shelf' \in Shelves /\ shelf'.capped = shelf.capped
  <2> DEFINE words == IF kept.words # 0 THEN kept.words ELSE shelf.words
  <2>1. shelf' = [shelf EXCEPT !.words = words] /\ words \in Int
    BY <1>1, <1>2 DEF W!Sync, Kepts, Shelves
  <2> HIDE DEF words
  <2> QED
    BY <1>1, <2>1 DEF Shelves
<1>3. CASE W!Sync(kept) /\ tally' = tally /\ kept' = [picture |-> W!None, audio |-> "none", words |-> 0, due |-> FALSE]
  BY <1>2, <1>3, SameTallyIs DEF Kepts
<1>4. CASE /\ W!Fault(tally) /\ UNCHANGED shelf
           /\ kept' = [kept EXCEPT !.picture = W!None, !.audio = "none", !.due = kept.words # 0]
  <2> DEFINE due == kept.words # 0
  <2>1. due \in BOOLEAN /\ kept' = [kept EXCEPT !.picture = W!None, !.audio = "none", !.due = due]
    BY <1>4
  <2> HIDE DEF due
  <2>2. kept' \in Kepts /\ kept'.picture = W!None /\ kept'.audio = "none"
    BY <1>1, <2>1 DEF Kepts
  <2> QED
    BY <1>1, <1>4, <2>2, SameTallyIs
<1> QED
  BY <1>3, <1>4 DEF W!Emptied

\* With no run under way but the evicting one, the picture and the audio may go.
LEMMA EvictKeeps == ASSUME WorkspaceInv, NEW t \in Tasks, W!Evict(t) PROVE WorkspaceInv'
<1> DEFINE r == Ended("rest")
<1>1. worker[t].at = "evict" /\ W!Emptied /\ worker' = [worker EXCEPT ![t] = r] /\ UNCHANGED <<saved, offered>>
  BY EndIs DEF W!Evict, W!At
<1>2. r \in Workers /\ r.at = "rest" /\ r.whole = TRUE
  BY EndedIs
<1> HIDE DEF r
<1>3. MovedTo(t, r) /\ OwnersStay(t)
  BY <1>1, <1>2, MoveIs
<1>4. /\ kept' \in Kepts /\ kept'.picture = W!None /\ kept'.audio = "none" /\ shelf' \in Shelves
      /\ shelf'.capped = shelf.capped /\ SameTally /\ tally'.cut = tally.cut
  BY <1>1, EmptiedIs
<1>5. WorkspaceTyped' /\ tally' \in Tallies
  <2>1. saved' \in [Tasks -> Checkpoints] /\ offered' \in Nat /\ tally' \in Tallies
    BY <1>1, <1>4, WorkspaceIs DEF SameTally
  <2> QED
    BY <1>3, <1>4, <2>1, WorkspaceTypedKeeps
<1>6. LeaseInv'
  BY <1>2, <1>3, LeaseKeeps DEF Resting
<1>7. \A v \in Tasks : worker'[v].at \in Resting
  <2>1. \A u \in Tasks \ {t} : worker[u].at \in Resting
    BY <1>1 DEF WorkspaceInv, LeaseInv
  <2> QED
    BY <1>2, <1>3, <2>1 DEF MovedTo, Resting
<1>8. CeilingInv'
  <2>1. (kept.picture = TallUpload => shelf.capped = W!None)'
    BY <1>4, CeilingIs
  <2>2. \A v \in Tasks : worker'[v].at \notin W!Capping
    BY <1>7 DEF Resting, W!Capping
  <2>3. \A v \in Tasks : Ready(worker[v], kept.picture)'
    BY <1>7 DEF Ready, Resting, Idle
  <2> QED
    BY <2>1, <2>2, <2>3 DEF CeilingInv, W!Capping
<1>9. EncodesInv'
  BY <1>1, <1>2, <1>3, <1>4, <1>5, EncodesKeeps DEF SameTally
<1>10. BillsInv'
  <2>1. r.at \notin Paying
    BY <1>2 DEF Paying
  <2> QED
    BY <1>2, <1>3, <1>4, <1>5, <2>1, BillsKeeps DEF SameTally
<1>11. CutInv'
  BY <1>2, <1>3, <1>4, NoneSpeak DEF SameTally, Speaking, Whole
<1>12. HeardInv'
  <2>1. ~tally.mixed => HeardOf(r, saved[t], t \in tally.heard)
    BY <1>2, WorkspaceIs DEF HeardOf
  <2> QED
    BY <1>1, <1>2, <1>3, <1>4, <2>1, HeardKeeps DEF SameTally
<1> QED
  BY <1>5, <1>6, <1>8, <1>9, <1>10, <1>11, <1>12 DEF WorkspaceInv

\* Neither the sweep nor a copy that is due moves a run.
LEMMA StillKeeps ==
    ASSUME WorkspaceInv, UNCHANGED <<worker, saved, offered>>, kept' \in Kepts, shelf' \in Shelves, SameTally,
           tally'.cut = tally.cut, shelf'.capped = shelf.capped,
           \/ kept'.picture = kept.picture /\ kept'.audio = kept.audio
           \/ kept'.picture = W!None /\ kept'.audio = "none" /\ \A t \in Tasks : worker[t].at \in Resting
    PROVE  WorkspaceInv'
<1>1. WorkspaceTyped'
  BY DEF WorkspaceInv, WorkspaceTyped, SameTally
<1>2. LeaseInv'
  BY DEF WorkspaceInv, LeaseInv
<1>3. CeilingInv'
  <2>1. CeilingInv
    BY DEF WorkspaceInv
  <2>2. (kept.picture = TallUpload => shelf.capped = W!None)'
    BY <2>1, CeilingIs DEF CeilingInv
  <2>3. \A v \in Tasks : Ready(worker[v], kept'.picture)
    BY <2>1 DEF CeilingInv, Ready, Resting, Idle
  <2>4. \A v \in Tasks : Ready(worker[v], kept.picture)'
    BY <2>3 DEF Ready
  <2> QED
    BY <2>1, <2>2, <2>4 DEF CeilingInv, W!Capping
<1>4. EncodesInv'
  <2>1. tally.encodes \in Nat /\ tally.faults \in Nat /\ tally'.faults \in Nat /\ tally'.faults >= tally.faults
        /\ tally'.encodes = tally.encodes /\ tally.encodes <= tally.faults + Once(CopyMade)
    BY DEF WorkspaceInv, WorkspaceTyped, EncodesInv, Tallies, SameTally
  <2>2. CopyMade' = CopyMade
    BY DEF CopyMade
  <2>3. tally'.encodes <= tally'.faults + Once(CopyMade)
    BY <2>1 DEF Once
  <2> QED
    BY <2>2, <2>3 DEF EncodesInv, Once
<1>5. BillsInv'
  <2>1. Payers' = Payers
    BY DEF Payers, Paying
  <2>2. Cardinality(Payers) \in Nat
    BY FewerPay DEF Payers
  <2>3. /\ tally.bills \in Nat /\ tally.runs \in Nat /\ tally'.runs \in Nat /\ tally'.runs >= tally.runs
        /\ tally'.bills = tally.bills /\ tally.bills + Cardinality(Payers) <= tally.runs
    BY DEF WorkspaceInv, WorkspaceTyped, BillsInv, Tallies, SameTally
  <2>4. tally'.bills + Cardinality(Payers) <= tally'.runs
    BY <2>2, <2>3
  <2> QED
    BY <2>1, <2>4 DEF BillsInv
<1>6. CutInv'
  <2>1. CutInv /\ tally'.partial = tally.partial
    BY DEF WorkspaceInv, SameTally
  <2>2. Alone => Alone'
    BY DEF Alone, Speaking
  <2> QED
    BY <2>1, <2>2 DEF CutInv
<1>7. HeardInv'
  BY DEF WorkspaceInv, HeardInv, HeardOf, SameTally
<1> QED
  BY <1>1, <1>2, <1>3, <1>4, <1>5, <1>6, <1>7 DEF WorkspaceInv

LEMMA WorkspaceSweepKeeps == ASSUME WorkspaceInv, W!Sweep PROVE WorkspaceInv'
<1>1. W!Emptied /\ UNCHANGED <<worker, saved, offered>> /\ \A t \in Tasks : worker[t].at \in Resting
  BY DEF W!Sweep, W!At, Resting
<1>2. /\ kept' \in Kepts /\ kept'.picture = W!None /\ kept'.audio = "none" /\ shelf' \in Shelves
      /\ shelf'.capped = shelf.capped /\ SameTally /\ tally'.cut = tally.cut
  BY <1>1, EmptiedIs
<1> QED
  BY <1>1, <1>2, StillKeeps

\* The timings are copied to the store.
LEMMA SyncIs ==
    ASSUME WorkspaceInv, NEW d \in Kepts, W!Sync(d)
    PROVE  shelf' \in Shelves /\ shelf'.capped = shelf.capped
<1> DEFINE words == IF d.words # 0 THEN d.words ELSE shelf.words
<1>1. shelf \in Shelves
  BY DEF WorkspaceInv, WorkspaceTyped
<1>2. shelf' = [shelf EXCEPT !.words = words] /\ words \in Int
  BY <1>1 DEF W!Sync, Kepts, Shelves
<1> HIDE DEF words
<1> QED
  BY <1>1, <1>2 DEF Shelves

LEMMA SyncDueKeeps == ASSUME WorkspaceInv, W!SyncDue PROVE WorkspaceInv'
<1>1. kept \in Kepts /\ W!Sync(kept) /\ kept' = [kept EXCEPT !.due = FALSE]
      /\ UNCHANGED <<worker, saved, offered, tally>>
  BY DEF W!SyncDue, WorkspaceInv, WorkspaceTyped
<1>2. kept' \in Kepts /\ kept'.picture = kept.picture /\ kept'.audio = kept.audio
  BY <1>1 DEF Kepts
<1>3. shelf' \in Shelves /\ shelf'.capped = shelf.capped /\ SameTally /\ tally'.cut = tally.cut
  BY <1>1, SyncIs, SameTallyIs
<1> QED
  BY <1>1, <1>2, <1>3, StillKeeps

\* A run tries again what it was at.
LEMMA AgainKeeps ==
    ASSUME WorkspaceInv, NEW t \in Tasks, NEW r \in Workers, worker' = [worker EXCEPT ![t] = r],
           r.at = worker[t].at, r.unread = worker[t].unread, r.own = worker[t].own, r.whole = worker[t].whole,
           r.text = worker[t].text, r.path = worker[t].path, worker[t].at \notin {"evict", "rest"},
           UNCHANGED <<kept, shelf, saved, tally>>, offered' \in Nat
    PROVE  WorkspaceInv'
<1>1. MovedTo(t, r) /\ OwnersStay(t)
  BY MoveIs
<1>2. Outside /\ kept'.audio = kept.audio
  BY SameTallyIs, OutsideIs
<1>3. Quiet(t, r)
  BY DEF Quiet, Ready, HeardOf, Resting
<1>4. SpeaksOn(t, r)
  BY DEF SpeaksOn, Whole
<1> QED
  BY <1>1, <1>2, <1>3, <1>4, QuietKeeps

LEMMA ProbeKeeps == ASSUME WorkspaceInv, NEW t \in Tasks, W!Probe(t) PROVE WorkspaceInv'
<1> DEFINE j == worker[t]
           away == \A u \in Tasks \ {t} : worker[u].at \notin W!Capping
<1>1. /\ j.at = "probe" /\ away /\ UNCHANGED <<kept, shelf, saved, offered>> /\ offered' \in Nat
      /\ j \in Workers /\ Ready(j, kept.picture) /\ kept \in Kepts
  BY WorkspaceIs DEF W!Probe, W!At, W!OthersAt
<1>2. \/ /\ IF W!ExceedsLimits(kept.picture) THEN W!Go(t, "encode") ELSE W!Go(t, "speech")
         /\ tally' = tally
      \/ W!Fault(tally) /\ W!End(t)
      \/ W!Fault(tally) /\ worker' = [worker EXCEPT ![t].at = "speech", ![t].unread = TRUE]
  BY DEF W!Probe
<1>3. SameTally /\ Outside /\ kept'.audio = kept.audio
  BY <1>1, <1>2, SameTallyIs, OutsideIs
<1>4. kept.picture \in {TallUpload, Capped}
  BY <1>1 DEF Ready, Kepts, Idle
<1>5. ASSUME NEW r \in Workers, worker' = [worker EXCEPT ![t] = r], r.at \in {"encode", "speech"},
             r.whole = j.whole, r.own = j.own, r.at = "encode" => kept.picture = TallUpload,
             r.at = "speech" => r.unread \/ kept.picture = Capped
      PROVE  WorkspaceInv'
  <2>1. MovedTo(t, r) /\ OwnersStay(t)
    BY <1>5, MoveIs
  <2>2. kept.picture # W!None
    BY <1>4, CeilingIs
  <2>3. Quiet(t, r)
    <3>1. Ready(r, kept.picture)
      BY <1>5, <2>2 DEF Ready, Idle
    <3>2. HeardOf(j, saved[t], t \in tally.heard) => HeardOf(r, saved[t], t \in tally.heard)
      BY <1>5 DEF HeardOf
    <3> QED
      BY <1>1, <1>5, <3>1, <3>2 DEF Quiet, Paying, Resting
  <2>4. SpeaksOn(t, r)
    BY <1>1, <1>5 DEF SpeaksOn, Speaking, Whole
  <2> QED
    BY <1>1, <1>3, <1>5, <2>1, <2>3, <2>4, QuietKeeps
<1>6. CASE W!ExceedsLimits(kept.picture) /\ W!Go(t, "encode")
  <2>1. PICK r \in Workers : worker' = [worker EXCEPT ![t] = r] /\ r.at = "encode" /\ r.whole = j.whole /\ r.own = j.own
    BY <1>6, GoIs
  <2>2. kept.picture = TallUpload
    BY <1>4, <1>6, CeilingIs
  <2> QED
    BY <1>5, <2>1, <2>2
<1>7. CASE ~W!ExceedsLimits(kept.picture) /\ W!Go(t, "speech")
  <2>1. PICK r \in Workers : worker' = [worker EXCEPT ![t] = r] /\ r.at = "speech" /\ r.whole = j.whole /\ r.own = j.own
    BY <1>7, GoIs
  <2>2. kept.picture = Capped
    BY <1>4, <1>7, CeilingIs
  <2> QED
    BY <1>5, <2>1, <2>2
<1>8. CASE W!End(t)
  BY <1>1, <1>3, <1>8, EndIs, EndKeeps DEF Resting
<1>9. CASE worker' = [worker EXCEPT ![t].at = "speech", ![t].unread = TRUE]
  <2> DEFINE r == [j EXCEPT !.at = "speech", !.unread = TRUE]
  <2>1. worker' = [worker EXCEPT ![t] = r]
    BY <1>9, WorkspaceIs
  <2>2. r \in Workers /\ r.at = "speech" /\ r.whole = j.whole /\ r.own = j.own /\ r.unread = TRUE
    BY <1>1 DEF Workers
  <2> HIDE DEF r
  <2> QED
    BY <1>5, <2>1, <2>2
<1> QED
  BY <1>2, <1>6, <1>7, <1>8, <1>9

LEMMA EncodeKeeps == ASSUME WorkspaceInv, NEW t \in Tasks, W!Encode(t) PROVE WorkspaceInv'
<1> DEFINE j == worker[t]
<1>1. /\ j.at = "encode" /\ UNCHANGED <<shelf, saved, offered>> /\ offered' \in Nat
      /\ kept \in Kepts /\ tally \in Tallies /\ j \in Workers /\ saved \in [Tasks -> Checkpoints] /\ shelf \in Shelves
  BY WorkspaceIs DEF W!Encode, W!At
<1>2. \/ /\ kept' = [kept EXCEPT !.picture = W!Encoded(@)] /\ W!Go(t, "publish")
         /\ tally' = [tally EXCEPT !.encodes = @ + 1]
      \/ worker' = [worker EXCEPT ![t].tries = @ + 1] /\ UNCHANGED <<kept, tally>>
      \/ W!Fault(tally) /\ W!End(t) /\ UNCHANGED kept
  BY DEF W!Encode
<1>3. CASE W!Fault(tally) /\ W!End(t) /\ UNCHANGED kept
  BY <1>1, <1>3, SameTallyIs, OutsideIs, EndIs, EndKeeps DEF Resting
<1>4. CASE worker' = [worker EXCEPT ![t].tries = @ + 1] /\ UNCHANGED <<kept, tally>>
  <2> DEFINE n == j.tries + 1
             r == [j EXCEPT !.tries = n]
  <2>1. n \in Nat /\ worker' = [worker EXCEPT ![t] = r]
    BY <1>1, <1>4, WorkspaceIs DEF Workers
  <2> HIDE DEF n
  <2>2. /\ r \in Workers /\ r.at = j.at /\ r.unread = j.unread /\ r.own = j.own /\ r.whole = j.whole /\ r.text = j.text
        /\ r.path = j.path
    BY <1>1, <2>1 DEF Workers
  <2> HIDE DEF r
  <2> QED
    BY <1>1, <1>4, <2>1, <2>2, AgainKeeps
<1>5. CASE /\ kept' = [kept EXCEPT !.picture = W!Encoded(@)] /\ W!Go(t, "publish")
           /\ tally' = [tally EXCEPT !.encodes = @ + 1]
  <2>1. CeilingInv /\ EncodesInv /\ Ready(j, kept.picture)
    BY WorkspaceIs DEF WorkspaceInv
  <2>2. kept.picture = TallUpload /\ shelf.capped = W!None
    BY <1>1, <2>1 DEF Ready, CeilingInv
  <2>3. kept' \in Kepts /\ kept'.picture = Capped /\ kept'.audio = kept.audio
    <3>1. kept' = [kept EXCEPT !.picture = Capped]
      BY <1>1, <1>5, <2>2 DEF Capped, Kepts
    <3> QED
      BY <1>1, <3>1 DEF Kepts
  <2> DEFINE n == tally.encodes + 1
  <2>4. n \in Nat /\ tally' = [tally EXCEPT !.encodes = n]
    BY <1>1, <1>5 DEF Tallies
  <2>5. n = tally.encodes + 1
    OBVIOUS
  <2> HIDE DEF n
  <2>6. /\ tally' \in Tallies /\ tally'.encodes = tally.encodes + 1 /\ tally'.faults = tally.faults /\ tally'.runs = tally.runs
        /\ tally'.bills = tally.bills /\ tally'.partial = tally.partial /\ tally'.cut = tally.cut
        /\ tally'.heard = tally.heard /\ tally'.twice = tally.twice /\ tally'.mixed = tally.mixed
    BY <1>1, <2>4, <2>5 DEF Tallies
  <2>7. PICK r \in Workers : /\ worker' = [worker EXCEPT ![t] = r] /\ r.at = "publish" /\ r.own = j.own
                             /\ r.whole = j.whole
    BY <1>5, GoIs
  <2>8. MovedTo(t, r) /\ OwnersStay(t)
    BY <2>7, MoveIs
  <2>9. WorkspaceTyped'
    BY <1>1, <2>3, <2>6, <2>8, WorkspaceTypedKeeps
  <2>10. LeaseInv'
    BY <1>1, <2>7, <2>8, LeaseKeeps DEF Resting
  <2>11. \A u \in Tasks \ {t} : worker[u].at \notin W!Capping
    BY <1>1, <2>1 DEF CeilingInv, W!Capping
  <2>12. CeilingInv'
    <3>1. (kept.picture = TallUpload => shelf.capped = W!None)'
      BY <2>3, CeilingIs
    <3>2. \A v \in Tasks : worker'[v].at \in W!Capping => \A u \in Tasks \ {v} : worker'[u].at \notin W!Capping
      BY <2>8, <2>11 DEF MovedTo
    <3>3. ASSUME NEW v \in Tasks PROVE Ready(worker'[v], Capped)
      <4>1. CASE v = t
        BY <2>7, <2>8, <4>1, CeilingIs DEF MovedTo, Ready
      <4>2. CASE v # t
        <5>1. /\ worker'[v].at = worker[v].at /\ worker'[v].unread = worker[v].unread /\ worker[v].at \notin {"encode", "publish"}
          BY <2>8, <2>11, <4>2 DEF MovedTo, W!Capping
        <5> QED
          BY <5>1, CeilingIs DEF Ready
      <4> QED
        BY <4>1, <4>2
    <3>4. \A v \in Tasks : Ready(worker[v], kept.picture)'
      BY <2>3, <3>3 DEF Ready
    <3> QED
      BY <3>1, <3>2, <3>4 DEF CeilingInv, W!Capping
  <2>13. EncodesInv'
    <3>1. ~CopyMade
      BY <1>1, <2>2, <2>11 DEF CopyMade, W!Capping
    <3>2. tally.encodes <= tally.faults /\ tally.encodes \in Nat /\ tally.faults \in Nat
      BY <1>1, <2>1, <3>1 DEF EncodesInv, Once, Tallies
    <3>3. CopyMade'
      BY <2>7, <2>8 DEF CopyMade, MovedTo
    <3>4. tally'.encodes <= tally'.faults + 1
      BY <2>6, <3>2
    <3> QED
      BY <3>3, <3>4 DEF EncodesInv, Once
  <2>14. BillsInv'
    <3>1. j.at \in Paying /\ tally'.runs >= tally.runs
      BY <1>1, <2>6 DEF Paying, Tallies
    <3> QED
      BY <2>6, <2>7, <2>8, <3>1, BillsKeeps
  <2>15. CutInv'
    <3>1. SpeaksOn(t, r)
      BY <1>1, <2>7 DEF SpeaksOn, Speaking, Whole
    <3> QED
      BY <2>3, <2>6, <2>7, <2>8, <3>1, CutKeeps
  <2>16. HeardInv'
    <3>1. ~tally.mixed => HeardOf(r, saved[t], t \in tally.heard)
      BY <1>1, <2>7, WorkspaceIs DEF HeardOf
    <3> QED
      BY <1>1, <2>6, <2>7, <2>8, <3>1, HeardKeeps
  <2> QED
    BY <2>9, <2>10, <2>12, <2>13, <2>14, <2>15, <2>16 DEF WorkspaceInv
<1> QED
  BY <1>2, <1>3, <1>4, <1>5

LEMMA PublishKeeps == ASSUME WorkspaceInv, NEW t \in Tasks, W!Publish(t) PROVE WorkspaceInv'
<1> DEFINE j == worker[t]
           first == 1
           r == [j EXCEPT !.at = "speech", !.tries = first]
<1>1. /\ j.at = "publish" /\ UNCHANGED <<kept, saved, offered>> /\ offered' \in Nat
      /\ kept \in Kepts /\ tally \in Tallies /\ j \in Workers /\ saved \in [Tasks -> Checkpoints] /\ shelf \in Shelves
      /\ Ready(j, kept.picture)
  BY WorkspaceIs DEF W!Publish, W!At
<1>2. worker' = [worker EXCEPT ![t] = r] /\ first \in Nat
  BY WorkspaceIs DEF W!Publish
<1>3. \/ shelf' = [shelf EXCEPT !.capped = kept.picture] /\ tally' = tally
      \/ W!Fault(tally) /\ UNCHANGED shelf
  BY DEF W!Publish
<1> HIDE DEF first
<1>4. r \in Workers /\ r.at = "speech" /\ r.whole = j.whole /\ r.own = j.own
  BY <1>1, <1>2 DEF Workers
<1> HIDE DEF r
<1>5. MovedTo(t, r) /\ OwnersStay(t) /\ kept.picture = Capped
  BY <1>1, <1>2, <1>4, MoveIs DEF Ready
<1>6. Ready(r, kept.picture) /\ SpeaksOn(t, r) /\ (~tally.mixed => HeardOf(r, saved[t], t \in tally.heard))
  <2>1. Ready(r, kept.picture)
    BY <1>4, <1>5, CeilingIs DEF Ready
  <2>2. SpeaksOn(t, r)
    BY <1>1, <1>4 DEF SpeaksOn, Speaking, Whole
  <2>3. ~tally.mixed => HeardOf(r, saved[t], t \in tally.heard)
    BY <1>1, <1>4, WorkspaceIs DEF HeardOf
  <2> QED
    BY <2>1, <2>2, <2>3
<1>7. CASE W!Fault(tally) /\ UNCHANGED shelf
  <2>1. Outside /\ kept'.audio = kept.audio /\ tally'.faults > tally.faults
    BY <1>1, <1>7, SameTallyIs, OutsideIs DEF Tallies
  <2>2. Quiet(t, r)
    BY <1>1, <1>4, <1>6 DEF Quiet, W!Capping, Paying, Resting
  <2> QED
    BY <1>4, <1>5, <1>6, <2>1, <2>2, QuietKeeps
<1>8. CASE shelf' = [shelf EXCEPT !.capped = kept.picture] /\ tally' = tally
  <2>1. shelf' \in Shelves /\ shelf'.capped = Capped
    BY <1>1, <1>5, <1>8 DEF Shelves
  <2>2. WorkspaceTyped'
    BY <1>1, <1>5, <1>8, <2>1, WorkspaceTypedKeeps
  <2>3. LeaseInv'
    BY <1>1, <1>4, <1>5, LeaseKeeps DEF Resting
  <2>4. CeilingInv'
    <3>1. r.at \notin W!Capping /\ kept'.picture = kept.picture /\ kept.picture # TallUpload
      BY <1>1, <1>4, <1>5, CeilingIs DEF W!Capping
    <3> QED
      BY <1>4, <1>5, <1>6, <3>1, CeilingKeeps
  <2>5. EncodesInv'
    BY <1>1, <1>4, <1>5, <1>8, <2>1, CeilingIs, EncodesKeeps DEF Tallies
  <2>6. BillsInv'
    BY <1>1, <1>4, <1>5, <1>8, BillsKeeps DEF Paying, Tallies
  <2>7. CutInv'
    BY <1>1, <1>4, <1>5, <1>6, <1>8, CutKeeps
  <2>8. HeardInv'
    BY <1>1, <1>4, <1>5, <1>6, <1>8, HeardKeeps
  <2> QED
    BY <2>2, <2>3, <2>4, <2>5, <2>6, <2>7, <2>8 DEF WorkspaceInv
<1> QED
  BY <1>3, <1>7, <1>8

LEMMA SpeechKeeps == ASSUME WorkspaceInv, NEW t \in Tasks, W!Speech(t) PROVE WorkspaceInv'
<1> DEFINE j == worker[t]
           s == saved[t]
           text == IF s.text # 0 THEN s.text ELSE offered
           words == IF text # 0 /\ W!Timed(s.words) THEN s.words ELSE kept.words
           stage == IF text = 0 \/ ~W!Timed(words) THEN "audio" ELSE "keep"
           r == [j EXCEPT !.text = text, !.at = stage]
<1>1. /\ j.at = "speech" /\ UNCHANGED <<shelf, saved, offered, tally>> /\ offered' \in Nat /\ offered \in Nat
      /\ kept \in Kepts /\ shelf \in Shelves /\ j \in Workers /\ s \in Checkpoints /\ Ready(j, kept.picture)
  BY WorkspaceIs DEF W!Speech, W!At
<1>2. text \in Nat /\ words \in Int /\ stage \in {"audio", "keep"}
  BY <1>1 DEF Checkpoints, Kepts
<1>3. (s.text # 0 /\ s.words # 0 => stage = "keep") /\ (stage = "keep" => text # 0)
  BY <1>1 DEF Checkpoints, W!Timed
<1>4. worker' = [worker EXCEPT ![t] = r] /\ kept' = [kept EXCEPT !.words = words]
  BY WorkspaceIs DEF W!Speech
<1> HIDE DEF text, words, stage
<1>5. /\ r \in Workers /\ r.at = stage /\ r.unread = j.unread /\ r.own = j.own /\ r.whole = j.whole /\ r.text = text
  BY <1>1, <1>2 DEF Workers
<1> HIDE DEF r
<1>6. MovedTo(t, r) /\ OwnersStay(t)
  BY <1>4, <1>5, MoveIs
<1>7. kept' \in Kepts /\ kept'.picture = kept.picture /\ kept'.audio = kept.audio
  BY <1>1, <1>2, <1>4 DEF Kepts
<1>8. Outside
  BY <1>1, <1>7, SameTallyIs DEF Outside
<1>9. Quiet(t, r)
  <2>1. Ready(r, kept.picture)
    BY <1>1, <1>2, <1>5 DEF Ready, Idle
  <2>2. HeardOf(j, s, t \in tally.heard) => HeardOf(r, s, t \in tally.heard)
    BY <1>1, <1>2, <1>3, <1>5 DEF HeardOf
  <2> QED
    BY <1>1, <1>2, <1>5, <2>1, <2>2 DEF Quiet, W!Capping, Paying, Resting
<1>10. SpeaksOn(t, r)
  BY <1>1, <1>2, <1>5 DEF SpeaksOn, Speaking, Whole
<1> QED
  BY <1>1, <1>5, <1>6, <1>7, <1>8, <1>9, <1>10, QuietKeeps

\* As long as nothing was cut short, audio that is not whole is with its one owner.
LEMMA CutIs ==
    ASSUME WorkspaceInv, ~tally.cut
    PROVE  /\ ~tally.partial /\ \A v \in Tasks : Whole(worker[v])
           /\ \A v \in Tasks : worker[v].at \in Speaking => \A u \in Tasks \ {v} : worker[u].at \notin Speaking
           /\ kept.audio \in {"empty", "partial"} => \E v \in Tasks : worker[v].at = "extract" /\ worker[v].own
BY DEF WorkspaceInv, CutInv, Alone

\* Of a step of task t, what makes the parts about the audio hold.
LEMMA CutAfter ==
    ASSUME WorkspaceInv, NEW t \in Tasks, NEW r \in Workers, MovedTo(t, r),
           tally'.partial => tally'.cut, tally.cut => tally'.cut,
           ~tally'.cut => /\ Whole(r)
                          /\ r.at \in Speaking => \A u \in Tasks \ {t} : worker[u].at \notin Speaking
                          /\ kept'.audio \in {"empty", "partial"} =>
                               \E v \in Tasks : worker'[v].at = "extract" /\ worker'[v].own
    PROVE  CutInv'
<1>1. ASSUME ~tally'.cut
      PROVE  /\ \A v \in Tasks : Whole(worker'[v])
             /\ \A v \in Tasks : worker'[v].at \in Speaking => \A u \in Tasks \ {v} : worker'[u].at \notin Speaking
  <2>1. /\ \A v \in Tasks : Whole(worker[v])
        /\ \A v \in Tasks : worker[v].at \in Speaking => \A u \in Tasks \ {v} : worker[u].at \notin Speaking
    BY <1>1, CutIs
  <2>2. Whole(r) /\ (r.at \in Speaking => \A u \in Tasks \ {t} : worker[u].at \notin Speaking)
    BY <1>1
  <2>3. \A v \in Tasks : Whole(worker'[v])
    BY <2>1, <2>2 DEF MovedTo, Whole
  <2>4. \A v \in Tasks \ {t} : worker'[v].at = worker[v].at
    BY DEF MovedTo
  <2>5. ASSUME NEW v \in Tasks, worker'[v].at \in Speaking, NEW u \in Tasks \ {v} PROVE worker'[u].at \notin Speaking
    <3>1. CASE v = t
      BY <2>2, <2>4, <2>5, <3>1 DEF MovedTo
    <3>2. CASE v # t /\ u = t
      BY <2>2, <2>4, <2>5, <3>2 DEF MovedTo
    <3>3. CASE v # t /\ u # t
      BY <2>1, <2>4, <2>5, <3>3
    <3> QED
      BY <3>1, <3>2, <3>3
  <2> QED
    BY <2>3, <2>5
<1> QED
  BY <1>1 DEF CutInv, Alone, Speaking, Whole

LEMMA AudioKeeps == ASSUME WorkspaceInv, NEW t \in Tasks, W!Audio(t) PROVE WorkspaceInv'
<1> DEFINE j == worker[t]
           others == \E u \in Tasks \ {t} : worker[u].at \in Speaking
           cut == tally.cut \/ others
<1>1. /\ j.at = "audio" /\ UNCHANGED <<shelf, saved, offered>> /\ offered' \in Nat
      /\ kept \in Kepts /\ shelf \in Shelves /\ tally \in Tallies /\ j \in Workers /\ Ready(j, kept.picture)
  BY WorkspaceIs DEF W!Audio, W!At
<1>2. tally' = [tally EXCEPT !.cut = cut]
  BY DEF W!Audio, W!OthersAt, W!At, Speaking
<1>3. cut \in BOOLEAN
  OBVIOUS
<1>4. cut <=> tally.cut \/ others
  OBVIOUS
<1> HIDE DEF cut
<1>5. /\ SameTally /\ (tally'.cut <=> tally.cut \/ others)
  BY <1>1, <1>2, <1>3, <1>4 DEF SameTally, Tallies
<1>6. ASSUME NEW r \in Workers, worker' = [worker EXCEPT ![t] = r], r.at \in {"upload", "extract"}, r.unread = j.unread,
             r.whole = j.whole, r.text = j.text, r.at = "upload" => r.path = "audio" /\ kept'.audio \in {"partial", "whole"},
             r.at = "extract" => r.own /\ kept'.audio = "empty", kept' \in Kepts, kept'.picture = kept.picture,
             r.at = "upload" => kept'.audio = kept.audio
      PROVE  WorkspaceInv'
  <2>1. MovedTo(t, r) /\ OwnersStay(t)
    BY <1>6, MoveIs
  <2>2. Outside
    BY <1>1, <1>5, <1>6 DEF Outside
  <2>3. Quiet(t, r)
    <3>1. Ready(r, kept.picture)
      BY <1>1, <1>6 DEF Ready, Idle
    <3>2. HeardOf(j, saved[t], t \in tally.heard) => HeardOf(r, saved[t], t \in tally.heard)
      BY <1>1, <1>6 DEF HeardOf
    <3> QED
      BY <1>1, <1>6, <3>1, <3>2 DEF Quiet, W!Capping, Paying, Resting
  <2>4. CutInv'
    <3>1. (tally'.partial => tally'.cut) /\ (tally.cut => tally'.cut)
      BY <1>5 DEF SameTally, WorkspaceInv, CutInv
    <3>2. ASSUME ~tally'.cut
          PROVE  /\ Whole(r) /\ \A u \in Tasks \ {t} : worker[u].at \notin Speaking
                 /\ kept'.audio \in {"empty", "partial"} => \E v \in Tasks : worker'[v].at = "extract" /\ worker'[v].own
      <4>1. ~tally.cut /\ \A u \in Tasks \ {t} : worker[u].at \notin Speaking
        BY <1>5, <3>2
      <4>2. Whole(r)
        BY <1>6, <4>1, CutIs DEF Whole
      <4>3. CASE r.at = "extract"
        BY <1>6, <2>1, <4>1, <4>2, <4>3 DEF MovedTo
      <4>4. CASE r.at = "upload"
        <5>1. kept.audio \notin {"empty", "partial"}
          BY <1>1, <4>1, CutIs DEF Speaking
        <5> QED
          BY <1>6, <4>1, <4>2, <4>4, <5>1
      <4> QED
        BY <1>6, <4>3, <4>4
    <3> QED
      BY <1>6, <2>1, <3>1, <3>2, CutAfter
  <2> QED
    BY <1>1, <1>6, <2>1, <2>2, <2>3, <2>4, QuietBut
<1>7. CASE /\ kept.audio \in {"partial", "whole"} /\ worker' = [worker EXCEPT ![t].at = "upload", ![t].path = "audio"]
           /\ UNCHANGED kept
  <2> DEFINE r == [j EXCEPT !.at = "upload", !.path = "audio"]
  <2>1. worker' = [worker EXCEPT ![t] = r]
    BY <1>7, WorkspaceIs
  <2>2. /\ r \in Workers /\ r.at = "upload" /\ r.path = "audio" /\ r.unread = j.unread /\ r.whole = j.whole /\ r.text = j.text
    BY <1>1 DEF Workers
  <2> HIDE DEF r
  <2> QED
    BY <1>1, <1>6, <1>7, <2>1, <2>2
<1>8. CASE /\ kept' = [kept EXCEPT !.audio = "empty"]
           /\ worker' = [worker EXCEPT ![t].at = "extract", ![t].own = TRUE]
  <2> DEFINE r == [j EXCEPT !.at = "extract", !.own = TRUE]
  <2>1. worker' = [worker EXCEPT ![t] = r]
    BY <1>8, WorkspaceIs
  <2>2. /\ r \in Workers /\ r.at = "extract" /\ r.own = TRUE /\ r.unread = j.unread /\ r.whole = j.whole /\ r.text = j.text
    BY <1>1 DEF Workers
  <2> HIDE DEF r
  <2>3. kept' \in Kepts /\ kept'.picture = kept.picture /\ kept'.audio = "empty"
    BY <1>1, <1>8 DEF Kepts
  <2> QED
    BY <1>6, <2>1, <2>2, <2>3
<1> QED
  BY <1>7, <1>8 DEF W!Audio

LEMMA ExtractingKeeps == ASSUME WorkspaceInv, NEW t \in Tasks, W!Extracting(t) PROVE WorkspaceInv'
<1> DEFINE j == worker[t]
<1>1. /\ j.at = "extract" /\ j.own /\ kept' = [kept EXCEPT !.audio = "partial"]
      /\ UNCHANGED <<shelf, worker, saved, offered, tally>> /\ offered' \in Nat
      /\ kept \in Kepts /\ j \in Workers /\ shelf \in Shelves /\ worker \in [Tasks -> Workers]
  BY WorkspaceIs DEF W!Extracting, W!At
<1>2. kept' \in Kepts /\ kept'.picture = kept.picture
  BY <1>1 DEF Kepts
<1>3. Outside /\ (tally'.cut <=> tally.cut)
  BY <1>1, <1>2, SameTallyIs DEF Outside
<1>4. MovedTo(t, j)
  BY <1>1 DEF MovedTo
<1>5. Quiet(t, j)
  BY <1>1 DEF Quiet, Resting
<1>6. CutInv'
  <2>1. /\ (tally'.partial => tally'.cut) /\ (tally.cut => tally'.cut)
    BY <1>1 DEF WorkspaceInv, CutInv
  <2>2. ~tally'.cut => Whole(j) /\ \A u \in Tasks \ {t} : worker[u].at \notin Speaking
    BY <1>1, CutIs DEF Speaking
  <2>3. \E v \in Tasks : worker'[v].at = "extract" /\ worker'[v].own
    BY <1>1
  <2> QED
    BY <1>1, <1>4, <2>1, <2>2, <2>3, CutAfter
<1> QED
  BY <1>1, <1>3, <1>4, <1>5, <1>6, QuietBut

\* A run with its transcript goes on to the next stage.
LEMMA PassKeeps ==
    ASSUME WorkspaceInv, NEW t \in Tasks, NEW stage \in {"wrote", "keep"}, W!Go(t, stage),
           worker[t].at \in {"poll", "wrote"}, Outside, kept'.audio = kept.audio
    PROVE  WorkspaceInv'
<1>1. PICK r \in Workers : /\ worker' = [worker EXCEPT ![t] = r] /\ r.at = stage /\ r.unread = worker[t].unread
                           /\ r.own = worker[t].own /\ r.whole = worker[t].whole /\ r.text = worker[t].text
  BY GoIs
<1>2. MovedTo(t, r) /\ OwnersStay(t)
  BY <1>1, MoveIs
<1>3. Quiet(t, r)
  <2>1. Ready(worker[t], kept.picture) => Ready(r, kept.picture)
    BY <1>1 DEF Ready, Idle
  <2>2. HeardOf(worker[t], saved[t], t \in tally.heard) => HeardOf(r, saved[t], t \in tally.heard)
    BY <1>1 DEF HeardOf
  <2> QED
    BY <1>1, <2>1, <2>2 DEF Quiet, W!Capping, Paying, Resting
<1>4. SpeaksOn(t, r)
  BY <1>1 DEF SpeaksOn, Speaking, Whole
<1> QED
  BY <1>1, <1>2, <1>3, <1>4, QuietKeeps

LEMMA ExtractedKeeps == ASSUME WorkspaceInv, NEW t \in Tasks, W!Extracted(t) PROVE WorkspaceInv'
<1> DEFINE j == worker[t]
           both == \E u \in Tasks \ {t} : worker[u].at = "extract" /\ worker[u].own
           audio == IF ~j.own THEN kept.audio ELSE IF both THEN "partial" ELSE "whole"
           path == IF audio \in {"none", "empty"} THEN "video" ELSE "audio"
<1>1. /\ j.at = "extract" /\ UNCHANGED <<shelf, saved, offered>> /\ offered' \in Nat
      /\ kept \in Kepts /\ shelf \in Shelves /\ tally \in Tallies /\ j \in Workers /\ Ready(j, kept.picture)
  BY WorkspaceIs DEF W!Extracted, W!At
<1>2. \/ /\ kept' = [kept EXCEPT !.audio = audio] /\ tally' = tally
         /\ worker' = [worker EXCEPT ![t].at = "upload", ![t].path = path]
      \/ /\ W!Fault([tally EXCEPT !.cut = TRUE]) /\ UNCHANGED kept
         /\ \/ worker' = [worker EXCEPT ![t].at = "upload", ![t].path = "video"]
            \/ W!End(t)
  BY DEF W!Extracted, W!At
<1>3. audio \in {"none", "empty", "partial", "whole"} /\ path \in {"audio", "video"}
  BY <1>1 DEF Kepts
<1>4. ~tally.cut => audio \notin {"empty", "partial"}
  BY <1>1, CutIs DEF Speaking
<1> HIDE DEF audio, path
<1>5. ASSUME NEW way \in {"audio", "video"}, worker' = [worker EXCEPT ![t].at = "upload", ![t].path = way],
             Outside, tally'.cut \/ (tally'.cut = tally.cut /\ kept'.audio = audio)
      PROVE  WorkspaceInv'
  <2> DEFINE r == [j EXCEPT !.at = "upload", !.path = way]
  <2>1. worker' = [worker EXCEPT ![t] = r]
    BY <1>5, WorkspaceIs
  <2>2. /\ r \in Workers /\ r.at = "upload" /\ r.path = way /\ r.unread = j.unread /\ r.whole = j.whole /\ r.text = j.text
    BY <1>1, <1>5 DEF Workers
  <2> HIDE DEF r
  <2>3. MovedTo(t, r) /\ OwnersStay(t)
    BY <2>1, <2>2, MoveIs
  <2>4. Quiet(t, r)
    <3>1. Ready(r, kept.picture)
      BY <1>1, <2>2 DEF Ready, Idle
    <3>2. HeardOf(j, saved[t], t \in tally.heard) => HeardOf(r, saved[t], t \in tally.heard)
      BY <1>1, <2>2 DEF HeardOf
    <3> QED
      BY <1>1, <2>2, <3>1, <3>2 DEF Quiet, W!Capping, Paying, Resting
  <2>5. CutInv'
    <3>1. (tally'.partial => tally'.cut) /\ (tally.cut => tally'.cut)
      BY <1>5 DEF Outside, SameTally, WorkspaceInv, CutInv
    <3>2. ASSUME ~tally'.cut
          PROVE  Whole(r) /\ (\A u \in Tasks \ {t} : worker[u].at \notin Speaking) /\ kept'.audio \notin {"empty", "partial"}
      <4>1. ~tally.cut /\ kept'.audio = audio
        BY <1>5, <3>2
      <4>2. Whole(j) /\ \A u \in Tasks \ {t} : worker[u].at \notin Speaking
        BY <1>1, <4>1, CutIs DEF Speaking
      <4> QED
        BY <1>4, <1>5, <2>2, <4>1, <4>2 DEF Whole
    <3> QED
      BY <2>2, <2>3, <3>1, <3>2, CutAfter
  <2> QED
    BY <1>1, <1>5, <2>2, <2>3, <2>4, <2>5, QuietBut
<1>6. CASE /\ kept' = [kept EXCEPT !.audio = audio] /\ tally' = tally
           /\ worker' = [worker EXCEPT ![t].at = "upload", ![t].path = path]
  <2>1. kept' \in Kepts /\ kept'.picture = kept.picture /\ kept'.audio = audio
    BY <1>1, <1>3, <1>6 DEF Kepts
  <2>2. Outside
    BY <1>1, <1>6, <2>1, SameTallyIs DEF Outside
  <2> QED
    BY <1>3, <1>5, <1>6, <2>1, <2>2
<1>7. ASSUME W!Fault([tally EXCEPT !.cut = TRUE]), UNCHANGED kept PROVE Outside /\ tally'.cut /\ kept'.audio = kept.audio
  <2> DEFINE c == [tally EXCEPT !.cut = TRUE]
  <2>1. /\ c \in Tallies /\ c.runs = tally.runs /\ c.faults = tally.faults /\ c.encodes = tally.encodes
        /\ c.bills = tally.bills /\ c.partial = tally.partial /\ c.cut = TRUE /\ c.heard = tally.heard
        /\ c.twice = tally.twice /\ c.mixed = tally.mixed /\ tally.faults \in Nat /\ tally.runs \in Nat
    BY <1>1 DEF Tallies
  <2>2. W!Fault(c)
    BY <1>7
  <2> HIDE DEF c
  <2>3. /\ tally' \in Tallies /\ tally'.faults = c.faults + 1 /\ tally'.runs = c.runs /\ tally'.encodes = c.encodes
        /\ tally'.bills = c.bills /\ tally'.partial = c.partial /\ tally'.cut = c.cut /\ tally'.heard = c.heard
        /\ tally'.twice = c.twice /\ tally'.mixed = c.mixed
    BY <2>1, <2>2, FaultOf
  <2>4. SameTally /\ tally'.cut
    BY <2>1, <2>3 DEF SameTally
  <2> QED
    BY <1>1, <1>7, <2>4, OutsideIs
<1>8. CASE /\ W!Fault([tally EXCEPT !.cut = TRUE]) /\ UNCHANGED kept
           /\ worker' = [worker EXCEPT ![t].at = "upload", ![t].path = "video"]
  BY <1>5, <1>7, <1>8
<1>9. CASE W!Fault([tally EXCEPT !.cut = TRUE]) /\ UNCHANGED kept /\ W!End(t)
  BY <1>1, <1>7, <1>9, EndIs, EndKeeps DEF Resting
<1> QED
  BY <1>2, <1>6, <1>8, <1>9

LEMMA UploadKeeps == ASSUME WorkspaceInv, NEW t \in Tasks, W!Upload(t) PROVE WorkspaceInv'
<1> DEFINE j == worker[t]
           gone == j.path = "audio" /\ kept.audio = "none"
           first == 1
           whole == j.path = "video" \/ kept.audio = "whole"
<1>1. /\ j.at = "upload" /\ UNCHANGED <<kept, shelf, saved, offered>> /\ offered' \in Nat
      /\ kept \in Kepts /\ tally \in Tallies /\ j \in Workers /\ Ready(j, kept.picture)
  BY WorkspaceIs DEF W!Upload, W!At
<1>2. \/ /\ ~gone /\ tally' = tally
         /\ worker' = [worker EXCEPT ![t].at = "submit", ![t].tries = first, ![t].path = "none", ![t].own = FALSE,
                                      ![t].whole = whole]
      \/ worker' = [worker EXCEPT ![t].tries = @ + 1] /\ tally' = tally
      \/ W!End(t) /\ (tally' = tally \/ W!Fault(tally))
  BY DEF W!Upload
<1>3. first \in Nat /\ whole \in BOOLEAN
  OBVIOUS
<1>4. whole <=> j.path = "video" \/ kept.audio = "whole"
  OBVIOUS
<1> HIDE DEF first, whole
<1>5. CASE W!End(t) /\ (tally' = tally \/ W!Fault(tally))
  BY <1>1, <1>5, SameTallyIs, OutsideIs, EndIs, EndKeeps DEF Resting
<1>6. CASE worker' = [worker EXCEPT ![t].tries = @ + 1] /\ tally' = tally
  <2> DEFINE n == j.tries + 1
             r == [j EXCEPT !.tries = n]
  <2>1. n \in Nat /\ worker' = [worker EXCEPT ![t] = r]
    BY <1>1, <1>6, WorkspaceIs DEF Workers
  <2> HIDE DEF n
  <2>2. /\ r \in Workers /\ r.at = j.at /\ r.unread = j.unread /\ r.own = j.own /\ r.whole = j.whole /\ r.text = j.text
        /\ r.path = j.path
    BY <1>1, <2>1 DEF Workers
  <2> HIDE DEF r
  <2> QED
    BY <1>1, <1>6, <2>1, <2>2, AgainKeeps
<1>7. CASE /\ ~gone /\ tally' = tally
           /\ worker' = [worker EXCEPT ![t].at = "submit", ![t].tries = first, ![t].path = "none", ![t].own = FALSE,
                                        ![t].whole = whole]
  <2> DEFINE r == [j EXCEPT !.at = "submit", !.tries = first, !.path = "none", !.own = FALSE, !.whole = whole]
  <2>1. worker' = [worker EXCEPT ![t] = r]
    BY <1>7, WorkspaceIs
  <2>2. /\ r \in Workers /\ r.at = "submit" /\ r.unread = j.unread /\ r.whole = whole /\ r.text = j.text
    BY <1>1, <1>3 DEF Workers
  <2> HIDE DEF r
  <2>3. MovedTo(t, r) /\ OwnersStay(t)
    BY <2>1, <2>2, MoveIs
  <2>4. Quiet(t, r)
    <3>1. Ready(r, kept.picture)
      BY <1>1, <2>2 DEF Ready, Idle
    <3>2. HeardOf(j, saved[t], t \in tally.heard) => HeardOf(r, saved[t], t \in tally.heard)
      BY <1>1, <2>2 DEF HeardOf
    <3> QED
      BY <1>1, <2>2, <3>1, <3>2 DEF Quiet, W!Capping, Paying, Resting
  <2>5. CutInv'
    <3>1. (tally'.partial => tally'.cut) /\ (tally.cut => tally'.cut)
      BY <1>7 DEF WorkspaceInv, CutInv
    <3>2. ASSUME ~tally'.cut PROVE Whole(r) /\ kept'.audio \notin {"empty", "partial"}
      <4>1. ~tally.cut
        BY <1>7, <3>2
      <4>2. Whole(j) /\ kept.audio \notin {"empty", "partial"}
        BY <1>1, <4>1, CutIs DEF Speaking
      <4>3. j.path \in {"audio", "video"}
        BY <1>1, <4>2 DEF Whole, Workers
      <4>4. whole
        BY <1>1, <1>4, <1>7, <4>2, <4>3 DEF Kepts
      <4> QED
        BY <1>1, <2>2, <4>2, <4>4 DEF Whole
    <3>3. r.at \notin Speaking
      BY <2>2 DEF Speaking
    <3> QED
      BY <2>2, <2>3, <3>1, <3>2, <3>3, CutAfter
  <2>6. Outside
    BY <1>1, <1>7, SameTallyIs, OutsideIs
  <2> QED
    BY <1>1, <2>2, <2>3, <2>4, <2>5, <2>6, QuietBut
<1> QED
  BY <1>2, <1>5, <1>6, <1>7

LEMMA PollKeeps == ASSUME WorkspaceInv, NEW t \in Tasks, W!Poll(t) PROVE WorkspaceInv'
<1> DEFINE j == worker[t]
<1>1. /\ j.at = "poll" /\ UNCHANGED <<shelf, saved, offered>> /\ offered' \in Nat
      /\ kept \in Kepts /\ shelf \in Shelves /\ tally \in Tallies /\ j \in Workers /\ Ready(j, kept.picture)
  BY WorkspaceIs DEF W!Poll, W!At
<1>2. \/ W!Go(t, "wrote") /\ kept' = [kept EXCEPT !.words = W!Torn] /\ tally' = tally
      \/ W!Fault(tally) /\ W!End(t) /\ UNCHANGED kept
  BY DEF W!Poll
<1>3. CASE W!Fault(tally) /\ W!End(t) /\ UNCHANGED kept
  BY <1>1, <1>3, SameTallyIs, OutsideIs, EndIs, EndKeeps DEF Resting
<1>4. CASE W!Go(t, "wrote") /\ kept' = [kept EXCEPT !.words = W!Torn] /\ tally' = tally
  <2>1. W!Torn \in Int
    BY DEF W!Torn
  <2>2. kept' \in Kepts /\ kept'.picture = kept.picture /\ kept'.audio = kept.audio
    BY <1>1, <1>4, <2>1 DEF Kepts
  <2>3. Outside
    BY <1>1, <1>4, <2>2, SameTallyIs DEF Outside
  <2> QED
    BY <1>1, <1>4, <2>2, <2>3, PassKeeps
<1> QED
  BY <1>2, <1>3, <1>4

LEMMA WroteKeeps == ASSUME WorkspaceInv, NEW t \in Tasks, W!Wrote(t) PROVE WorkspaceInv'
<1> DEFINE j == worker[t]
<1>1. /\ j.at = "wrote" /\ W!Go(t, "keep") /\ UNCHANGED <<shelf, saved, offered, tally>> /\ offered' \in Nat
      /\ kept \in Kepts /\ shelf \in Shelves /\ j \in Workers
  BY WorkspaceIs DEF W!Wrote, W!At
<1>2. PICK words \in Int : kept' = [kept EXCEPT !.words = words]
  <2>1. j.text \in Int /\ W!Torn \in Int
    BY <1>1 DEF Workers, W!Torn
  <2> QED
    BY <2>1 DEF W!Wrote
<1>3. kept' \in Kepts /\ kept'.picture = kept.picture /\ kept'.audio = kept.audio
  BY <1>1, <1>2 DEF Kepts
<1>4. Outside
  BY <1>1, <1>3, SameTallyIs DEF Outside
<1> QED
  BY <1>1, <1>3, <1>4, PassKeeps

\* The part about what was heard, when a transcript is paid for, saved or worked with.
LEMMA HeardAfter ==
    ASSUME WorkspaceInv, NEW t \in Tasks, NEW r \in Workers, MovedTo(t, r),
           \A u \in Tasks \ {t} : saved'[u] = saved[u] /\ (u \in tally'.heard <=> u \in tally.heard),
           tally.mixed => tally'.mixed, tally'.twice => tally'.mixed,
           ~tally'.mixed => HeardOf(r, saved'[t], t \in tally'.heard)
    PROVE  HeardInv'
<1>1. ASSUME ~tally'.mixed, NEW v \in Tasks PROVE HeardOf(worker'[v], saved'[v], v \in tally'.heard)
  <2>1. CASE v = t
    BY <1>1, <2>1 DEF MovedTo
  <2>2. CASE v # t
    <3>1. /\ worker'[v].at = worker[v].at /\ worker'[v].text = worker[v].text /\ saved'[v] = saved[v]
          /\ (v \in tally'.heard <=> v \in tally.heard)
      BY <2>2 DEF MovedTo
    <3>2. HeardOf(worker[v], saved[v], v \in tally.heard)
      BY <1>1 DEF WorkspaceInv, HeardInv
    <3> QED
      BY <3>1, <3>2 DEF HeardOf
  <2> QED
    BY <2>1, <2>2
<1> QED
  BY <1>1 DEF HeardInv, HeardOf

LEMMA SubmitKeeps == ASSUME WorkspaceInv, NEW t \in Tasks, W!Submit(t) PROVE WorkspaceInv'
<1> DEFINE j == worker[t]
           number == tally.bills + 1
           partial == tally.partial \/ ~j.whole
           twice == tally.twice \/ t \in tally.heard
           billed == [tally EXCEPT !.bills = number, !.partial = partial, !.twice = twice]
<1>1. /\ j.at = "submit" /\ UNCHANGED <<kept, shelf, saved, offered>> /\ offered' \in Nat
      /\ kept \in Kepts /\ shelf \in Shelves /\ tally \in Tallies /\ j \in Workers /\ Ready(j, kept.picture)
      /\ saved \in [Tasks -> Checkpoints]
  BY WorkspaceIs DEF W!Submit, W!At
<1>2. number \in Nat /\ number # 0 /\ partial \in BOOLEAN /\ twice \in BOOLEAN
  BY <1>1 DEF Tallies, Workers
<1>3. \/ /\ tally' = billed
         /\ worker' = [worker EXCEPT ![t].text = number, ![t].whole = TRUE, ![t].at = "poll"]
      \/ W!Fault(billed) /\ W!End(t)
  <2>1. billed = [tally EXCEPT !.bills = @ + 1, !.partial = @ \/ ~j.whole, !.twice = @ \/ t \in tally.heard]
    BY <1>1 DEF Tallies
  <2> HIDE DEF billed
  <2> QED
    BY <2>1 DEF W!Submit
<1>4. (partial <=> tally.partial \/ ~j.whole) /\ (twice <=> tally.twice \/ t \in tally.heard) /\ number = tally.bills + 1
  OBVIOUS
<1> HIDE DEF number, partial, twice
<1>5. /\ billed \in Tallies /\ billed.runs = tally.runs /\ billed.faults = tally.faults /\ billed.encodes = tally.encodes
      /\ billed.bills = number /\ billed.partial = partial /\ billed.cut = tally.cut /\ billed.heard = tally.heard
      /\ billed.twice = twice /\ billed.mixed = tally.mixed
  BY <1>1, <1>2 DEF Tallies
<1> HIDE DEF billed
<1>6. /\ tally' \in Tallies /\ tally'.runs = tally.runs /\ tally'.faults >= tally.faults /\ tally'.encodes = tally.encodes
      /\ tally'.bills = number /\ tally'.partial = partial /\ tally'.cut = tally.cut /\ tally'.heard = tally.heard
      /\ tally'.twice = twice /\ tally'.mixed = tally.mixed
  <2>1. tally.faults \in Nat
    BY <1>1 DEF Tallies
  <2>2. CASE tally' = billed
    BY <1>5, <2>1, <2>2
  <2>3. CASE W!Fault(billed)
    <3>1. /\ tally' \in Tallies /\ tally'.faults = billed.faults + 1 /\ tally'.runs = billed.runs
          /\ tally'.encodes = billed.encodes /\ tally'.bills = billed.bills /\ tally'.partial = billed.partial
          /\ tally'.cut = billed.cut /\ tally'.heard = billed.heard /\ tally'.twice = billed.twice
          /\ tally'.mixed = billed.mixed
      BY <1>5, <2>3, FaultOf
    <3> QED
      BY <1>5, <2>1, <3>1
  <2> QED
    BY <1>3, <2>2, <2>3
<1>7. ASSUME NEW r \in Workers, worker' = [worker EXCEPT ![t] = r], r.whole = TRUE,
             (r.at = "poll" /\ r.text = number /\ r.unread = j.unread) \/ r.at = "release"
      PROVE  WorkspaceInv'
  <2>1. MovedTo(t, r) /\ OwnersStay(t)
    BY <1>7, MoveIs
  <2>2. WorkspaceTyped'
    BY <1>1, <1>6, <2>1, WorkspaceTypedKeeps
  <2>3. LeaseInv'
    BY <1>1, <1>7, <2>1, LeaseKeeps DEF Resting
  <2>4. CeilingInv'
    <3>1. Ready(r, kept.picture) /\ r.at \notin W!Capping
      BY <1>1, <1>7 DEF Ready, Idle, W!Capping
    <3> QED
      BY <1>1, <1>7, <2>1, <3>1, CeilingKeeps
  <2>5. EncodesInv'
    BY <1>1, <1>6, <1>7, <2>1, EncodesKeeps
  <2>6. BillsInv'
    <3> DEFINE Q == {u \in Tasks : worker'[u].at \in Paying}
    <3>1. Q = Payers \ {t} /\ t \in Payers /\ Payers \in SUBSET Tasks
      BY <1>1, <1>7, <2>1 DEF Payers, MovedTo, Paying
    <3>2. IsFiniteSet(Payers)
      BY <3>1, SourcesAssumption, FS_Subset
    <3> HIDE DEF Q
    <3>3. Cardinality(Payers) \in Nat /\ Cardinality(Q) = Cardinality(Payers) - 1
      BY <3>1, <3>2, FS_RemoveElement, FS_CardinalityType
    <3>4. tally.bills + Cardinality(Payers) <= tally.runs /\ tally.bills \in Nat /\ tally.runs \in Nat
      BY <1>1 DEF WorkspaceInv, BillsInv, Tallies
    <3>5. tally'.bills + Cardinality(Q) <= tally'.runs
      BY <1>4, <1>6, <3>3, <3>4
    <3>6. Payers' = Q
      BY DEF Payers, Q, Paying
    <3> QED
      BY <3>5, <3>6 DEF BillsInv
  <2>7. CutInv'
    <3>1. tally'.partial => tally'.cut
      BY <1>4, <1>6, CutIs DEF WorkspaceInv, CutInv, Whole
    <3>2. Whole(r) /\ r.at \notin Speaking
      BY <1>7 DEF Whole, Speaking
    <3>3. ASSUME ~tally'.cut, kept'.audio \in {"empty", "partial"}
          PROVE  \E v \in Tasks : worker'[v].at = "extract" /\ worker'[v].own
      <4>1. PICK v \in Tasks : worker[v].at = "extract" /\ worker[v].own
        BY <1>1, <1>6, <3>3, CutIs
      <4>2. v # t
        BY <1>1, <4>1
      <4> QED
        BY <2>1, <4>1, <4>2 DEF MovedTo, OwnersStay
    <3> QED
      BY <1>6, <1>7, <2>1, <3>1, <3>2, <3>3, CutAfter
  <2>8. HeardInv'
    <3>1. ~tally.mixed => HeardOf(j, saved[t], t \in tally.heard) /\ ~tally.twice
      BY WorkspaceIs DEF WorkspaceInv, HeardInv
    <3>2. ~tally.mixed => t \notin tally.heard
      BY <1>1, <3>1 DEF HeardOf
    <3>3. tally'.twice => tally'.mixed
      BY <1>4, <1>6, <3>1, <3>2
    <3>4. ~tally'.mixed => HeardOf(r, saved'[t], t \in tally'.heard)
      BY <1>1, <1>2, <1>6, <1>7, <3>2 DEF HeardOf
    <3> QED
      BY <1>1, <1>6, <1>7, <2>1, <3>3, <3>4, HeardAfter
  <2> QED
    BY <2>2, <2>3, <2>4, <2>5, <2>6, <2>7, <2>8 DEF WorkspaceInv
<1>8. CASE worker' = [worker EXCEPT ![t].text = number, ![t].whole = TRUE, ![t].at = "poll"]
  <2> DEFINE r == [j EXCEPT !.text = number, !.whole = TRUE, !.at = "poll"]
  <2>1. worker' = [worker EXCEPT ![t] = r]
    BY <1>8, WorkspaceIs
  <2>2. r \in Workers /\ r.at = "poll" /\ r.whole = TRUE /\ r.text = number /\ r.unread = j.unread
    BY <1>1, <1>2 DEF Workers
  <2> HIDE DEF r
  <2> QED
    BY <1>7, <2>1, <2>2
<1>9. CASE W!End(t)
  <2> DEFINE r == Ended("release")
  <2>1. worker' = [worker EXCEPT ![t] = r] /\ r \in Workers /\ r.at = "release" /\ r.whole = TRUE
    BY <1>9, EndIs, EndedIs
  <2> HIDE DEF r
  <2> QED
    BY <1>7, <2>1
<1> QED
  BY <1>3, <1>8, <1>9

\* A run that does not speak, nor pay, nor encode, goes on; what it saved or heard is told apart.
LEMMA LaterKeeps ==
    ASSUME WorkspaceInv, NEW t \in Tasks, NEW stage \in {"store", "work"}, W!Go(t, stage),
           worker[t].at \in {"keep", "store"}, kept' \in Kepts, kept'.picture = kept.picture, kept'.audio = kept.audio,
           shelf' \in Shelves, shelf'.capped = shelf.capped, offered' \in Nat, saved' \in [Tasks -> Checkpoints],
           tally' \in Tallies, tally'.runs = tally.runs, tally'.faults >= tally.faults, tally'.encodes = tally.encodes,
           tally'.bills = tally.bills, tally'.partial = tally.partial, tally'.cut = tally.cut,
           tally'.twice = tally.twice, tally.mixed => tally'.mixed,
           \A u \in Tasks \ {t} : saved'[u] = saved[u] /\ (u \in tally'.heard <=> u \in tally.heard),
           ~tally'.mixed => (t \in tally'.heard \/ stage = "store" => saved'[t].text # 0 /\ saved'[t].words # 0)
    PROVE  WorkspaceInv'
<1> DEFINE j == worker[t]
<1>1. PICK r \in Workers : /\ worker' = [worker EXCEPT ![t] = r] /\ r.at = stage /\ r.unread = j.unread
                           /\ r.own = j.own /\ r.whole = j.whole /\ r.text = j.text
  BY GoIs
<1>2. MovedTo(t, r) /\ OwnersStay(t)
  BY <1>1, MoveIs
<1>3. WorkspaceTyped'
  BY <1>2, WorkspaceTypedKeeps
<1>4. LeaseInv'
  BY <1>1, <1>2, LeaseKeeps DEF Resting
<1>5. CeilingInv'
  <2>1. Ready(r, kept.picture) /\ r.at \notin W!Capping
    BY <1>1, WorkspaceIs DEF Ready, Idle, W!Capping
  <2> QED
    BY <1>1, <1>2, <2>1, CeilingKeeps
<1>6. EncodesInv'
  BY <1>1, <1>2, EncodesKeeps
<1>7. BillsInv'
  <2>1. r.at \notin Paying /\ tally'.runs >= tally.runs
    BY <1>1, WorkspaceIs DEF Paying, Tallies
  <2> QED
    BY <1>2, <2>1, BillsKeeps
<1>8. CutInv'
  <2>1. SpeaksOn(t, r)
    BY <1>1 DEF SpeaksOn, Speaking, Whole
  <2> QED
    BY <1>2, <2>1, CutKeeps
<1>9. HeardInv'
  <2>1. ~tally.mixed => HeardOf(j, saved[t], t \in tally.heard) /\ ~tally.twice
    BY WorkspaceIs DEF WorkspaceInv, HeardInv
  <2>2. ~tally'.mixed => HeardOf(r, saved'[t], t \in tally'.heard)
    BY <1>1, <2>1 DEF HeardOf
  <2>3. tally'.twice => tally'.mixed
    BY <2>1
  <2> QED
    BY <1>2, <2>2, <2>3, HeardAfter
<1> QED
  BY <1>3, <1>4, <1>5, <1>6, <1>7, <1>8, <1>9 DEF WorkspaceInv

LEMMA KeepKeeps == ASSUME WorkspaceInv, NEW t \in Tasks, W!Keep(t) PROVE WorkspaceInv'
<1> DEFINE j == worker[t]
           words == IF W!Timed(kept.words) THEN kept.words ELSE 0
           s == [text |-> j.text, words |-> words]
           mixed == tally.mixed \/ ~W!Timed(kept.words)
<1>1. /\ j.at = "keep" /\ W!Go(t, "store") /\ UNCHANGED <<kept, shelf, offered>> /\ offered' \in Nat
      /\ kept \in Kepts /\ shelf \in Shelves /\ tally \in Tallies /\ j \in Workers /\ saved \in [Tasks -> Checkpoints]
  BY WorkspaceIs DEF W!Keep, W!At
<1>2. saved' = [saved EXCEPT ![t] = s] /\ tally' = [tally EXCEPT !.mixed = mixed]
  BY <1>1 DEF W!Keep, Tallies
<1>3. words \in Nat /\ mixed \in BOOLEAN /\ (~mixed => ~tally.mixed /\ words # 0) /\ (tally.mixed => mixed)
  BY <1>1 DEF Kepts, Tallies, W!Timed
<1> HIDE DEF words, mixed
<1>4. s \in Checkpoints /\ s.text = j.text /\ s.words = words
  BY <1>1, <1>3 DEF Checkpoints, Workers
<1> HIDE DEF s
<1>5. /\ saved' \in [Tasks -> Checkpoints] /\ saved'[t] = s /\ \A u \in Tasks \ {t} : saved'[u] = saved[u]
  BY <1>1, <1>2, <1>4
<1>6. /\ tally' \in Tallies /\ tally'.runs = tally.runs /\ tally'.faults = tally.faults /\ tally'.encodes = tally.encodes
      /\ tally'.bills = tally.bills /\ tally'.partial = tally.partial /\ tally'.cut = tally.cut
      /\ tally'.heard = tally.heard /\ tally'.twice = tally.twice /\ tally'.mixed = mixed /\ tally.faults \in Nat
  BY <1>1, <1>2, <1>3 DEF Tallies
<1>7. ~tally'.mixed => saved'[t].text # 0 /\ saved'[t].words # 0
  <2>1. ~tally.mixed => j.text # 0
    BY <1>1, WorkspaceIs DEF HeardOf
  <2> QED
    BY <1>3, <1>4, <1>5, <1>6, <2>1
<1>9. tally'.faults >= tally.faults /\ (tally.mixed => tally'.mixed)
      /\ (~tally'.mixed => (t \in tally'.heard \/ "store" = "store" => saved'[t].text # 0 /\ saved'[t].words # 0))
      /\ \A u \in Tasks \ {t} : saved'[u] = saved[u] /\ (u \in tally'.heard <=> u \in tally.heard)
  BY <1>3, <1>5, <1>6, <1>7
<1> QED
  BY <1>1, <1>5, <1>6, <1>9, LaterKeeps

LEMMA StoreKeeps == ASSUME WorkspaceInv, NEW t \in Tasks, W!Store(t) PROVE WorkspaceInv'
<1> DEFINE j == worker[t]
           now == tally.heard \cup {u \in {t} : W!Timed(kept.words)}
           heard == [tally EXCEPT !.heard = now]
           due == kept.words # 0
<1>1. /\ j.at = "store" /\ W!Go(t, "work") /\ UNCHANGED <<saved, offered>> /\ offered' \in Nat
      /\ kept \in Kepts /\ shelf \in Shelves /\ tally \in Tallies /\ j \in Workers /\ saved \in [Tasks -> Checkpoints]
  BY WorkspaceIs DEF W!Store, W!At
<1>2. \/ W!Sync(kept) /\ kept' = [kept EXCEPT !.due = FALSE] /\ tally' = heard
      \/ W!Fault(heard) /\ kept' = [kept EXCEPT !.due = due] /\ UNCHANGED shelf
  <2>1. heard = [tally EXCEPT !.heard = @ \cup {u \in {t} : W!Timed(kept.words)}]
    BY <1>1 DEF Tallies
  <2> HIDE DEF heard
  <2> QED
    BY <2>1 DEF W!Store
<1>3. now \in SUBSET Tasks /\ (\A u \in Tasks \ {t} : u \in now <=> u \in tally.heard) /\ due \in BOOLEAN
  BY <1>1 DEF Tallies
<1> HIDE DEF now, due
<1>4. /\ heard \in Tallies /\ heard.runs = tally.runs /\ heard.faults = tally.faults /\ heard.encodes = tally.encodes
      /\ heard.bills = tally.bills /\ heard.partial = tally.partial /\ heard.cut = tally.cut /\ heard.heard = now
      /\ heard.twice = tally.twice /\ heard.mixed = tally.mixed /\ tally.faults \in Nat
  BY <1>1, <1>3 DEF Tallies
<1> HIDE DEF heard
<1>5. /\ tally' \in Tallies /\ tally'.runs = tally.runs /\ tally'.faults >= tally.faults /\ tally'.encodes = tally.encodes
      /\ tally'.bills = tally.bills /\ tally'.partial = tally.partial /\ tally'.cut = tally.cut /\ tally'.heard = now
      /\ tally'.twice = tally.twice /\ tally'.mixed = tally.mixed
  <2>1. CASE tally' = heard
    BY <1>4, <2>1
  <2>2. CASE W!Fault(heard)
    <3>1. /\ tally' \in Tallies /\ tally'.faults = heard.faults + 1 /\ tally'.runs = heard.runs
          /\ tally'.encodes = heard.encodes /\ tally'.bills = heard.bills /\ tally'.partial = heard.partial
          /\ tally'.cut = heard.cut /\ tally'.heard = heard.heard /\ tally'.twice = heard.twice
          /\ tally'.mixed = heard.mixed
      BY <1>4, <2>2, FaultOf
    <3> QED
      BY <1>4, <3>1
  <2> QED
    BY <1>2, <2>1, <2>2
<1>6. kept' \in Kepts /\ kept'.picture = kept.picture /\ kept'.audio = kept.audio
  <2>1. \A d \in BOOLEAN : LET k == [kept EXCEPT !.due = d]
                           IN k \in Kepts /\ k.picture = kept.picture /\ k.audio = kept.audio
    BY <1>1 DEF Kepts
  <2> QED
    BY <1>2, <1>3, <2>1
<1>7. shelf' \in Shelves /\ shelf'.capped = shelf.capped
  BY <1>1, <1>2, SyncIs
<1>8. ~tally'.mixed => saved'[t].text # 0 /\ saved'[t].words # 0
  <2>1. ~tally.mixed => saved[t].text # 0 /\ saved[t].words # 0
    BY <1>1, WorkspaceIs DEF HeardOf
  <2> QED
    BY <1>1, <1>5, <2>1
<1>9. /\ tally.mixed => tally'.mixed
      /\ ~tally'.mixed => (t \in tally'.heard \/ "work" = "store" => saved'[t].text # 0 /\ saved'[t].words # 0)
      /\ \A u \in Tasks \ {t} : saved'[u] = saved[u] /\ (u \in tally'.heard <=> u \in tally.heard)
  BY <1>1, <1>3, <1>5, <1>8
<1> QED
  BY <1>1, <1>5, <1>6, <1>7, <1>9, LaterKeeps

LEMMA WorkKeeps == ASSUME WorkspaceInv, NEW t \in Tasks, W!Work(t) PROVE WorkspaceInv'
<1> DEFINE j == worker[t]
           r == Ended("release")
<1>1. /\ j.at = "work" /\ saved' = saved /\ kept \in Kepts /\ shelf \in Shelves /\ tally \in Tallies /\ j \in Workers
      /\ worker \in [Tasks -> Workers] /\ offered \in Nat
  BY WorkspaceIs DEF W!Work, W!At
<1>2. \/ /\ tally' = tally /\ offered' = j.text /\ W!Sync(kept)
         /\ kept' = [kept EXCEPT !.audio = "none", !.due = FALSE]
         /\ worker' = [u \in Tasks |-> IF u = t THEN r ELSE [worker[u] EXCEPT !.own = FALSE]]
      \/ W!Fault(tally) /\ W!End(t) /\ offered' \in {offered, j.text} /\ UNCHANGED <<kept, shelf>>
  BY DEF W!Work, Ended
<1>3. offered' \in Nat
  BY <1>1, <1>2 DEF Workers
<1>4. CASE W!Fault(tally) /\ W!End(t) /\ UNCHANGED <<kept, shelf>>
  BY <1>1, <1>3, <1>4, SameTallyIs, OutsideIs, EndIs, EndKeeps DEF Resting
<1>5. CASE /\ tally' = tally /\ W!Sync(kept) /\ kept' = [kept EXCEPT !.audio = "none", !.due = FALSE]
           /\ worker' = [u \in Tasks |-> IF u = t THEN r ELSE [worker[u] EXCEPT !.own = FALSE]]
  <2>1. r \in Workers /\ r.at = "release" /\ r.whole = TRUE
    BY EndedIs
  <2> HIDE DEF r
  <2>2. \A w \in Workers : LET v == [w EXCEPT !.own = FALSE]
                           IN /\ v \in Workers /\ v.at = w.at /\ v.unread = w.unread /\ v.whole = w.whole
                              /\ v.text = w.text /\ v.path = w.path
    BY DEF Workers
  <2>3. MovedTo(t, r)
    <3>1. worker' \in [Tasks -> Workers] /\ worker'[t] = r
      BY <1>1, <1>5, <2>1, <2>2
    <3>2. \A u \in Tasks \ {t} : worker'[u] = [worker[u] EXCEPT !.own = FALSE] /\ worker[u] \in Workers
      BY <1>1, <1>5
    <3> QED
      BY <2>2, <3>1, <3>2 DEF MovedTo
  <2>4. kept' \in Kepts /\ kept'.picture = kept.picture /\ kept'.audio = "none"
    BY <1>1, <1>5 DEF Kepts
  <2>5. shelf' \in Shelves /\ shelf'.capped = shelf.capped
    BY <1>1, <1>5, SyncIs
  <2>6. Outside /\ SameTally
    BY <1>1, <1>3, <1>5, <2>4, <2>5, SameTallyIs DEF Outside
  <2>7. Quiet(t, r)
    BY <1>1, <2>1 DEF Quiet, Ready, HeardOf, W!Capping, Paying, Idle, Resting
  <2>8. CutInv'
    BY <2>1, <2>3, <2>4, <2>6, NoneSpeak DEF SameTally, Speaking, Whole
  <2> QED
    BY <1>1, <2>1, <2>3, <2>6, <2>7, <2>8, QuietBut
<1> QED
  BY <1>2, <1>4, <1>5

LEMMA WorkerCrashKeeps == ASSUME WorkspaceInv, NEW t \in Tasks, W!Crash(t) PROVE WorkspaceInv'
<1> DEFINE j == worker[t]
           cut == tally.cut \/ j.at = "extract"
           c == [tally EXCEPT !.cut = cut]
<1>1. /\ j.at \notin Resting /\ UNCHANGED <<kept, shelf, saved, offered>> /\ offered' \in Nat /\ tally \in Tallies
      /\ worker' = [worker EXCEPT ![t] = Ended("rest")]
  BY WorkspaceIs, EndIs DEF W!Crash, W!At, Resting
<1>2. W!Fault(c)
  <2>1. c = [tally EXCEPT !.cut = @ \/ j.at \in {"extract"}]
    BY <1>1 DEF Tallies
  <2> HIDE DEF c
  <2> QED
    BY <2>1 DEF W!Crash, W!At
<1>3. cut \in BOOLEAN /\ (j.at = "extract" => cut) /\ (tally.cut => cut)
  BY <1>1 DEF Tallies
<1> HIDE DEF cut
<1>4. /\ c \in Tallies /\ c.runs = tally.runs /\ c.faults = tally.faults /\ c.encodes = tally.encodes
      /\ c.bills = tally.bills /\ c.partial = tally.partial /\ c.cut = cut /\ c.heard = tally.heard
      /\ c.twice = tally.twice /\ c.mixed = tally.mixed /\ tally.faults \in Nat /\ tally.runs \in Nat
  BY <1>1, <1>3 DEF Tallies
<1> HIDE DEF c
<1>5. /\ tally' \in Tallies /\ tally'.faults = c.faults + 1 /\ tally'.runs = c.runs /\ tally'.encodes = c.encodes
      /\ tally'.bills = c.bills /\ tally'.partial = c.partial /\ tally'.cut = c.cut /\ tally'.heard = c.heard
      /\ tally'.twice = c.twice /\ tally'.mixed = c.mixed
  BY <1>2, <1>4, FaultOf
<1>6. SameTally /\ tally'.faults > tally.faults /\ (j.at = "extract" => tally'.cut)
  BY <1>3, <1>4, <1>5 DEF SameTally
<1>7. Outside /\ kept'.audio = kept.audio
  BY <1>1, <1>6, OutsideIs
<1> QED
  BY <1>1, <1>6, <1>7, EndKeeps

LEMMA WorkspaceStepKeeps == ASSUME WorkspaceInv, W!Next PROVE WorkspaceInv'
BY WorkspaceSweepKeeps, SyncDueKeeps, BeginKeeps, ReleaseKeeps, EvictKeeps, ProbeKeeps, EncodeKeeps, PublishKeeps,
   SpeechKeeps, AudioKeeps, ExtractingKeeps, ExtractedKeeps, UploadKeeps, SubmitKeeps, PollKeeps, WroteKeeps, KeepKeeps,
   StoreKeeps, WorkKeeps, WorkerCrashKeeps DEF W!Next

LEMMA WorkspaceStays == ASSUME WorkspaceInv, UNCHANGED workspace PROVE WorkspaceInv'
<1>1. UNCHANGED <<kept, shelf, worker, saved, offered, tally>>
  BY DEF workspace
<1>2. kept' \in Kepts /\ shelf' \in Shelves /\ SameTally /\ tally'.cut = tally.cut
  BY <1>1, SameTallyIs DEF WorkspaceInv, WorkspaceTyped
<1> QED
  BY <1>1, <1>2, StillKeeps

LEMMA WorkspaceInitHolds == Init => WorkspaceInv
<1> SUFFICES ASSUME NEW stage \in {"rest", "done"}, W!StartIn(stage) PROVE WorkspaceInv
  BY DEF Init, W!Init, W!Gone
<1> DEFINE r == Ended(stage)
           none == {}
<1>1. /\ kept = [picture |-> W!None, audio |-> "none", words |-> 0, due |-> FALSE]
      /\ shelf = [capped |-> W!None, words |-> 0] /\ worker = [t \in Tasks |-> r]
      /\ saved = [t \in Tasks |-> [text |-> 0, words |-> 0]] /\ offered = 0
      /\ tally = [runs |-> 0, faults |-> 0, encodes |-> 0, bills |-> 0, partial |-> FALSE, cut |-> FALSE,
                  heard |-> none, twice |-> FALSE, mixed |-> FALSE]
  BY DEF W!StartIn, Ended
<1>2. r \in Workers /\ r.at = stage /\ r.whole = TRUE
  BY EndedIs
<1> HIDE DEF r
<1>3. none \in SUBSET Tasks /\ \A t \in Tasks : t \notin none
  OBVIOUS
<1> HIDE DEF none
<1>4. WorkspaceTyped
  BY <1>1, <1>2, <1>3 DEF WorkspaceTyped, Kepts, Shelves, Checkpoints, Tallies
<1>5. \A t \in Tasks : worker[t] = r
  BY <1>1
<1>6. LeaseInv
  BY <1>2, <1>5 DEF LeaseInv
<1>7. CeilingInv
  <2>1. Ready(r, kept.picture) /\ r.at \notin W!Capping
    BY <1>2 DEF Ready, Idle, W!Capping
  <2> QED
    BY <1>1, <1>5, <2>1, CeilingIs DEF CeilingInv
<1>8. EncodesInv
  BY <1>1 DEF EncodesInv, Once
<1>9. BillsInv
  <2>1. Payers = {}
    BY <1>2, <1>5 DEF Payers, Paying
  <2>2. Cardinality(Payers) = 0
    BY <2>1, FS_EmptySet
  <2> QED
    BY <1>1, <2>2 DEF BillsInv
<1>10. CutInv
  <2>1. tally.partial = FALSE /\ tally.cut = FALSE /\ kept.audio = "none"
    BY <1>1
  <2>2. Alone /\ \A t \in Tasks : Whole(worker[t])
    BY <1>2, <1>5 DEF Alone, Speaking, Whole
  <2> QED
    BY <2>1, <2>2 DEF CutInv
<1>11. HeardInv
  <2>1. tally.twice = FALSE /\ tally.heard = none
    BY <1>1
  <2>2. \A t \in Tasks : HeardOf(worker[t], saved[t], t \in tally.heard)
    BY <1>2, <1>3, <1>5, <2>1 DEF HeardOf
  <2> QED
    BY <2>1, <2>2 DEF HeardInv
<1> QED
  BY <1>4, <1>6, <1>7, <1>8, <1>9, <1>10, <1>11 DEF WorkspaceInv

\* The files of a source stay while a run uses them, it is brought below the ceiling once,
\* and a transcript is paid for once per run and not again once it was heard
\* (services/video_service.py, media/), in every reachable state.
THEOREM WorkspaceInductive == Spec => []WorkspaceInv
<1>1. WorkspaceInv /\ [Next]_<<part, drafts, editorExports, aiEdits, replicas,
                              generation, accounts, sourceCache, download, workspace, stream>> => WorkspaceInv'
  BY WorkspaceStepKeeps, WorkspaceStays DEF Next
<1> QED
  BY <1>1, WorkspaceInitHolds, PTL DEF Spec

LEMMA WorkspaceSound == WorkspaceInv => W!WorkspaceHolds
<1> SUFFICES ASSUME WorkspaceInv PROVE W!WorkspaceHolds
  OBVIOUS
<1>1. \A t \in Tasks : W!Leased(t) /\ ~W!At(t, {"release"}) =>
         /\ kept.picture # W!None
         /\ ~W!At(t, {"probe", "encode"}) /\ ~worker[t].unread => ~W!ExceedsLimits(kept.picture)
  BY CeilingIs DEF WorkspaceInv, CeilingInv, Ready, Idle, W!Leased, W!At
<1>2. tally \in Tallies /\ tally.encodes <= tally.faults + Once(CopyMade)
  BY DEF WorkspaceInv, WorkspaceTyped, EncodesInv
<1>3. tally.encodes <= 1 + tally.faults
  BY <1>2 DEF Once, Tallies
<1>4. tally.bills <= tally.runs
  <2>1. Cardinality(Payers) \in Nat
    BY FewerPay DEF Payers
  <2>2. tally.bills + Cardinality(Payers) <= tally.runs
    BY DEF WorkspaceInv, BillsInv
  <2> QED
    BY <1>2, <2>1, <2>2 DEF Tallies
<1>5. (tally.twice => tally.mixed) /\ (tally.partial => tally.cut)
  BY DEF WorkspaceInv, HeardInv, CutInv
<1> QED
  BY <1>1, <1>3, <1>4, <1>5 DEF W!WorkspaceHolds

-----------------------------------------------------------------------------
(* The transcripts of an upload.                                            *)

\* Every transcript, and all timings, that anything holds are of a request that was paid.
Words(n) == {W!Torn} \cup 0..n
TextsInv ==
    /\ kept.words \in Words(tally.bills) /\ shelf.words \in Words(tally.bills) /\ offered \in 0..tally.bills
    /\ \A t \in Tasks : /\ saved[t].text \in 0..tally.bills /\ saved[t].words \in 0..tally.bills
                        /\ worker[t].text \in 0..tally.bills

LEMMA TextsAfter ==
    ASSUME WorkspaceInv, tally'.bills \in Nat, tally'.bills >= tally.bills,
           kept'.words \in Words(tally.bills), shelf'.words \in Words(tally.bills), offered' \in 0..tally.bills,
           \A t \in Tasks : /\ saved'[t].text \in 0..tally.bills /\ saved'[t].words \in 0..tally.bills
                            /\ worker'[t].text \in 0..tally'.bills
    PROVE  TextsInv'
<1>1. tally.bills \in Nat
  BY DEF WorkspaceInv, WorkspaceTyped, Tallies
<1>2. 0..tally.bills \subseteq 0..tally'.bills /\ Words(tally.bills) \subseteq Words(tally'.bills)
  BY <1>1 DEF Words
<1> QED
  BY <1>2 DEF TextsInv, Words

\* Nothing is transcribed or copied: at most a run ends.
SameTexts ==
    /\ kept'.words = kept.words /\ shelf'.words = shelf.words /\ UNCHANGED <<saved, offered>>
    /\ tally'.bills = tally.bills /\ \A t \in Tasks : worker'[t].text \in {0, worker[t].text}
LEMMA SameTextsKeep == ASSUME WorkspaceInv, TextsInv, SameTexts PROVE TextsInv'
<1>1. tally.bills \in Nat
  BY DEF WorkspaceInv, WorkspaceTyped, Tallies
<1>2. \A t \in Tasks : worker'[t].text \in 0..tally.bills
  BY <1>1 DEF SameTexts, TextsInv
<1> QED
  BY <1>1, <1>2, TextsAfter DEF SameTexts, TextsInv

\* What a run holds of a transcript when it goes on, or ends.
LEMMA TextsOfRuns ==
    ASSUME WorkspaceInv, NEW t \in Tasks
    PROVE  /\ \A stage : W!Go(t, stage) => \A u \in Tasks : worker'[u].text = worker[u].text
           /\ W!End(t) \/ worker' = [worker EXCEPT ![t] = W!NoJob]
                \/ (\E stage : worker' = [worker EXCEPT ![t] = [W!NoJob EXCEPT !.at = stage]])
              => /\ worker'[t].text = 0
                 /\ \A u \in Tasks \ {t} : worker'[u].text = worker[u].text
<1>1. worker \in [Tasks -> Workers]
  BY WorkspaceIs
<1>2. ASSUME NEW r, r.text = 0, worker' = [worker EXCEPT ![t] = r]
      PROVE  worker'[t].text = 0 /\ \A u \in Tasks \ {t} : worker'[u].text = worker[u].text
  BY <1>1, <1>2
<1>3. ASSUME NEW stage PROVE [W!NoJob EXCEPT !.at = stage].text = 0
  BY DEF W!NoJob
<1>4. W!NoJob.text = 0
  BY DEF W!NoJob
<1>5. ASSUME NEW stage, W!Go(t, stage) PROVE \A u \in Tasks : worker'[u].text = worker[u].text
  BY <1>1, <1>5 DEF W!Go, Workers
<1>6. ASSUME NEW stage, worker' = [worker EXCEPT ![t] = [W!NoJob EXCEPT !.at = stage]]
      PROVE  worker'[t].text = 0 /\ \A u \in Tasks \ {t} : worker'[u].text = worker[u].text
  BY <1>2, <1>3, <1>6
<1>7. W!End(t) => \E stage : worker' = [worker EXCEPT ![t] = [W!NoJob EXCEPT !.at = stage]]
  BY DEF W!End
<1> QED
  BY <1>2, <1>4, <1>5, <1>6, <1>7

LEMMA BillsOf ==
    ASSUME WorkspaceInv, tally' = tally \/ W!Fault(tally)
    PROVE  tally'.bills = tally.bills
BY SameTallyIs DEF SameTally

LEMMA SameTextsSteps ==
    ASSUME WorkspaceInv, NEW t \in Tasks,
           \/ W!Release(t) \/ W!Probe(t) \/ W!Encode(t) \/ W!Publish(t) \/ W!Audio(t) \/ W!Extracting(t)
           \/ W!Extracted(t) \/ W!Upload(t) \/ W!Crash(t)
    PROVE  SameTexts
<1>1. /\ kept \in Kepts /\ shelf \in Shelves /\ tally \in Tallies /\ worker \in [Tasks -> Workers] /\ worker[t] \in Workers
  BY WorkspaceIs
<1>2. CASE W!Release(t)
  BY <1>1, <1>2, TextsOfRuns, BillsOf DEF W!Release, SameTexts
<1>3. CASE W!Probe(t)
  <2>1. CASE worker' = [worker EXCEPT ![t].at = "speech", ![t].unread = TRUE]
    BY <1>1, <1>3, <2>1, BillsOf DEF W!Probe, SameTexts, Workers
  <2>2. CASE W!End(t) \/ \E stage : W!Go(t, stage)
    BY <1>1, <1>3, <2>2, TextsOfRuns, BillsOf DEF W!Probe, SameTexts
  <2> QED
    BY <1>3, <2>1, <2>2 DEF W!Probe
<1>4. CASE W!Encode(t)
  <2>1. CASE W!Go(t, "publish") /\ kept' = [kept EXCEPT !.picture = W!Encoded(@)] /\ tally' = [tally EXCEPT !.encodes = @ + 1]
    <3>1. kept'.words = kept.words /\ tally'.bills = tally.bills
      BY <1>1, <2>1 DEF Kepts, Tallies
    <3> QED
      BY <1>1, <1>4, <2>1, <3>1, TextsOfRuns DEF W!Encode, SameTexts
  <2>2. CASE worker' = [worker EXCEPT ![t].tries = @ + 1] /\ UNCHANGED <<kept, tally>>
    BY <1>1, <1>4, <2>2 DEF W!Encode, SameTexts, Workers
  <2>3. CASE W!End(t) /\ W!Fault(tally) /\ UNCHANGED kept
    BY <1>1, <1>4, <2>3, TextsOfRuns, BillsOf DEF W!Encode, SameTexts
  <2> QED
    BY <1>4, <2>1, <2>2, <2>3 DEF W!Encode
<1>5. CASE W!Publish(t)
  <2>1. worker' = [worker EXCEPT ![t].at = "speech", ![t].tries = 1]
    BY <1>5 DEF W!Publish
  <2>2. \A u \in Tasks : worker'[u].text = worker[u].text
    BY <1>1, <2>1 DEF Workers
  <2>3. shelf'.words = shelf.words /\ tally'.bills = tally.bills
    BY <1>1, <1>5, BillsOf DEF W!Publish, Shelves
  <2> QED
    BY <1>5, <2>2, <2>3 DEF W!Publish, SameTexts
<1>6. CASE W!Audio(t)
  <2>1. \/ worker' = [worker EXCEPT ![t].at = "upload", ![t].path = "audio"]
        \/ worker' = [worker EXCEPT ![t].at = "extract", ![t].own = TRUE]
    BY <1>6 DEF W!Audio
  <2>2. \A u \in Tasks : worker'[u].text = worker[u].text
    BY <1>1, <2>1 DEF Workers
  <2>3. kept'.words = kept.words /\ tally'.bills = tally.bills
    BY <1>1, <1>6 DEF W!Audio, Kepts, Tallies
  <2> QED
    BY <1>6, <2>2, <2>3 DEF W!Audio, SameTexts
<1>7. CASE W!Extracting(t)
  BY <1>1, <1>7 DEF W!Extracting, SameTexts, Kepts
<1>8. CASE W!Extracted(t)
  <2>1. /\ UNCHANGED <<shelf, saved, offered>>
        /\ \/ /\ \E a : kept' = [kept EXCEPT !.audio = a]
              /\ tally' = tally /\ \E path : worker' = [worker EXCEPT ![t].at = "upload", ![t].path = path]
           \/ /\ W!Fault([tally EXCEPT !.cut = TRUE]) /\ kept' = kept
              /\ W!End(t) \/ worker' = [worker EXCEPT ![t].at = "upload", ![t].path = "video"]
    BY <1>8 DEF W!Extracted
  <2>2. kept'.words = kept.words
    BY <1>1, <2>1 DEF Kepts
  <2>3. tally'.bills = tally.bills
    <3>1. [tally EXCEPT !.cut = TRUE] \in Tallies /\ [tally EXCEPT !.cut = TRUE].bills = tally.bills
      BY <1>1 DEF Tallies
    <3> QED
      BY <2>1, <3>1, FaultOf
  <2>4. \A u \in Tasks : worker'[u].text \in {0, worker[u].text}
    <3>1. CASE W!End(t)
      BY <3>1, TextsOfRuns
    <3>2. CASE \E path : worker' = [worker EXCEPT ![t].at = "upload", ![t].path = path]
      BY <1>1, <3>2 DEF Workers
    <3> QED
      BY <2>1, <3>1, <3>2
  <2> QED
    BY <2>1, <2>2, <2>3, <2>4 DEF SameTexts
<1>9. CASE W!Upload(t)
  <2>1. /\ UNCHANGED <<kept, shelf, saved, offered>> /\ (tally' = tally \/ W!Fault(tally))
        /\ \/ \E whole : worker' = [worker EXCEPT ![t].at = "submit", ![t].tries = 1, ![t].path = "none",
                                                  ![t].own = FALSE, ![t].whole = whole]
           \/ worker' = [worker EXCEPT ![t].tries = @ + 1]
           \/ W!End(t)
    BY <1>9 DEF W!Upload
  <2>2. \A u \in Tasks : worker'[u].text \in {0, worker[u].text}
    <3>1. CASE W!End(t)
      BY <3>1, TextsOfRuns
    <3>2. CASE worker' = [worker EXCEPT ![t].tries = @ + 1]
      BY <1>1, <3>2 DEF Workers
    <3>3. ASSUME NEW whole, worker' = [worker EXCEPT ![t].at = "submit", ![t].tries = 1, ![t].path = "none",
                                                     ![t].own = FALSE, ![t].whole = whole]
          PROVE  \A u \in Tasks : worker'[u].text = worker[u].text
      BY <1>1, <3>3 DEF Workers
    <3> QED
      BY <2>1, <3>1, <3>2, <3>3
  <2> QED
    BY <2>1, <2>2, BillsOf DEF SameTexts
<1>10. CASE W!Crash(t)
  <2>1. /\ UNCHANGED <<kept, shelf, saved, offered>> /\ worker' = [worker EXCEPT ![t] = W!NoJob]
        /\ \E cut \in BOOLEAN : W!Fault([tally EXCEPT !.cut = cut])
    BY <1>1, <1>10 DEF W!Crash, W!At, Tallies
  <2>2. tally'.bills = tally.bills
    <3>1. \A cut \in BOOLEAN : [tally EXCEPT !.cut = cut] \in Tallies /\ [tally EXCEPT !.cut = cut].bills = tally.bills
      BY <1>1 DEF Tallies
    <3> QED
      BY <2>1, <3>1, FaultOf
  <2> QED
    BY <2>1, <2>2, TextsOfRuns DEF SameTexts
<1> QED
  BY <1>2, <1>3, <1>4, <1>5, <1>6, <1>7, <1>8, <1>9, <1>10

\* The timings are copied to the store, or emptied after that.
LEMMA SyncTexts ==
    ASSUME WorkspaceInv, TextsInv, W!Sync(kept)
    PROVE  shelf'.words \in Words(tally.bills)
BY DEF W!Sync, WorkspaceInv, WorkspaceTyped, Shelves, TextsInv

LEMMA TextsAre ==
    ASSUME WorkspaceInv, TextsInv, NEW t \in Tasks
    PROVE  /\ kept \in Kepts /\ shelf \in Shelves /\ tally \in Tallies /\ worker \in [Tasks -> Workers] /\ worker[t] \in Workers
           /\ saved \in [Tasks -> Checkpoints] /\ tally.bills \in Nat /\ 0 \in Words(tally.bills) /\ W!Torn \in Words(tally.bills)
           /\ 0..tally.bills \subseteq Words(tally.bills) /\ 0 \in 0..tally.bills
           /\ kept.words \in Words(tally.bills) /\ shelf.words \in Words(tally.bills) /\ offered \in 0..tally.bills
           /\ worker[t].text \in 0..tally.bills /\ saved[t].text \in 0..tally.bills /\ saved[t].words \in 0..tally.bills
<1>1. tally.bills \in Nat
  BY DEF WorkspaceInv, WorkspaceTyped, Tallies
<1> QED
  BY <1>1 DEF WorkspaceInv, WorkspaceTyped, TextsInv, Words

\* What a step does to the texts, when no request is paid.
TextsStep ==
    /\ kept'.words \in Words(tally.bills) /\ shelf'.words \in Words(tally.bills) /\ offered' \in 0..tally.bills
    /\ tally'.bills = tally.bills
    /\ \A t \in Tasks : /\ saved'[t] = saved[t] \/ (saved'[t].text \in 0..tally.bills /\ saved'[t].words \in 0..tally.bills)
                        /\ worker'[t].text \in 0..tally.bills
LEMMA TextsStepKeeps == ASSUME WorkspaceInv, TextsInv, TextsStep PROVE TextsInv'
<1>1. tally.bills \in Nat
  BY DEF WorkspaceInv, WorkspaceTyped, Tallies
<1>2. \A t \in Tasks : /\ saved'[t].text \in 0..tally.bills /\ saved'[t].words \in 0..tally.bills
                       /\ worker'[t].text \in 0..tally'.bills
  BY DEF TextsStep, TextsInv
<1> QED
  BY <1>1, <1>2, TextsAfter DEF TextsStep

LEMMA EmptiedTexts ==
    ASSUME WorkspaceInv, TextsInv, W!Emptied
    PROVE  kept'.words \in Words(tally.bills) /\ shelf'.words \in Words(tally.bills) /\ tally'.bills = tally.bills
<1>1. kept \in Kepts /\ kept.words \in Words(tally.bills) /\ shelf.words \in Words(tally.bills)
  BY DEF TextsInv, WorkspaceInv, WorkspaceTyped
<1>2. CASE W!Sync(kept) /\ tally' = tally /\ kept' = [picture |-> W!None, audio |-> "none", words |-> 0, due |-> FALSE]
  <2>1. tally.bills \in Nat
    BY DEF WorkspaceInv, WorkspaceTyped, Tallies
  <2> QED
    BY <1>2, <2>1, SyncTexts DEF Words
<1>3. CASE /\ W!Fault(tally) /\ UNCHANGED shelf
           /\ kept' = [kept EXCEPT !.picture = W!None, !.audio = "none", !.due = kept.words # 0]
  BY <1>1, <1>3, BillsOf DEF Kepts
<1> QED
  BY <1>2, <1>3 DEF W!Emptied

LEMMA TextsStepSteps ==
    ASSUME WorkspaceInv, TextsInv, NEW t \in Tasks,
           \/ W!Begin(t) \/ W!Evict(t) \/ W!Speech(t) \/ W!Poll(t) \/ W!Wrote(t) \/ W!Keep(t) \/ W!Store(t) \/ W!Work(t)
    PROVE  TextsStep
<1>1. /\ kept \in Kepts /\ shelf \in Shelves /\ tally \in Tallies /\ worker \in [Tasks -> Workers] /\ worker[t] \in Workers
      /\ saved \in [Tasks -> Checkpoints] /\ tally.bills \in Nat /\ 0 \in Words(tally.bills) /\ W!Torn \in Words(tally.bills)
      /\ 0..tally.bills \subseteq Words(tally.bills) /\ 0 \in 0..tally.bills
      /\ kept.words \in Words(tally.bills) /\ shelf.words \in Words(tally.bills) /\ offered \in 0..tally.bills
      /\ worker[t].text \in 0..tally.bills /\ saved[t].text \in 0..tally.bills /\ saved[t].words \in 0..tally.bills
  BY TextsAre
<1>2. \A u \in Tasks : worker[u].text \in 0..tally.bills
  BY DEF TextsInv
<1>3. CASE W!Begin(t)
  <2> DEFINE runs == [tally EXCEPT !.runs = @ + 1]
             timed == [kept EXCEPT !.words = IF @ = 0 THEN shelf.words ELSE @]
  <2>1. /\ UNCHANGED <<shelf, saved, offered>>
        /\ \E stage : worker' = [worker EXCEPT ![t] = [W!NoJob EXCEPT !.at = stage]]
        /\ tally' = runs \/ W!Fault(runs)
        /\ kept' \in {kept, timed} \/ \E picture : kept' = [timed EXCEPT !.picture = picture]
    BY <1>3 DEF W!Begin
  <2>2. runs \in Tallies /\ runs.bills = tally.bills
    BY <1>1 DEF Tallies
  <2>3. timed.words \in Words(tally.bills)
    BY <1>1 DEF Kepts
  <2>4. \A picture : [timed EXCEPT !.picture = picture].words = timed.words
    BY <1>1 DEF Kepts
  <2> HIDE DEF runs, timed
  <2>5. tally'.bills = tally.bills /\ kept'.words \in Words(tally.bills)
    BY <1>1, <2>1, <2>2, <2>3, <2>4, FaultOf
  <2> QED
    BY <1>1, <1>2, <2>1, <2>5, TextsOfRuns DEF TextsStep
<1>4. CASE W!Evict(t)
  <2>1. UNCHANGED <<saved, offered>> /\ worker' = [worker EXCEPT ![t] = W!NoJob] /\ W!Emptied
    BY <1>4 DEF W!Evict
  <2> QED
    BY <1>1, <1>2, <2>1, EmptiedTexts, TextsOfRuns DEF TextsStep
<1>5. CASE W!Speech(t)
  <2> DEFINE text == IF saved[t].text # 0 THEN saved[t].text ELSE offered
             words == IF text # 0 /\ W!Timed(saved[t].words) THEN saved[t].words ELSE kept.words
             stage == IF text = 0 \/ ~W!Timed(words) THEN "audio" ELSE "keep"
  <2>1. /\ kept' = [kept EXCEPT !.words = words] /\ UNCHANGED <<shelf, saved, offered, tally>>
        /\ worker' = [worker EXCEPT ![t].text = text, ![t].at = stage]
    BY <1>5 DEF W!Speech
  <2>2. text \in 0..tally.bills /\ words \in Words(tally.bills)
    BY <1>1
  <2> HIDE DEF text, words, stage
  <2>3. kept'.words = words
    BY <1>1, <2>1 DEF Kepts
  <2>4. worker'[t].text = text /\ \A u \in Tasks \ {t} : worker'[u].text = worker[u].text
    BY <1>1, <2>1 DEF Workers
  <2> QED
    BY <1>1, <1>2, <2>1, <2>2, <2>3, <2>4 DEF TextsStep
<1>6. CASE W!Poll(t)
  <2>1. /\ UNCHANGED <<shelf, saved, offered>>
        /\ \/ W!Go(t, "wrote") /\ kept' = [kept EXCEPT !.words = W!Torn] /\ tally' = tally
           \/ W!Fault(tally) /\ W!End(t) /\ kept' = kept
    BY <1>6 DEF W!Poll
  <2>2. kept'.words \in Words(tally.bills)
    BY <1>1, <2>1 DEF Kepts
  <2> QED
    BY <1>1, <1>2, <2>1, <2>2, TextsOfRuns, BillsOf DEF TextsStep
<1>7. CASE W!Wrote(t)
  <2>1. /\ UNCHANGED <<shelf, saved, offered, tally>> /\ W!Go(t, "keep")
        /\ kept' = [kept EXCEPT !.words = worker[t].text] \/ kept' = [kept EXCEPT !.words = W!Torn]
    BY <1>7 DEF W!Wrote
  <2>2. kept'.words \in Words(tally.bills)
    BY <1>1, <2>1 DEF Kepts
  <2> QED
    BY <1>1, <1>2, <2>1, <2>2, TextsOfRuns DEF TextsStep
<1>8. CASE W!Keep(t)
  <2> DEFINE words == IF W!Timed(kept.words) THEN kept.words ELSE 0
             mixed == tally.mixed \/ ~W!Timed(kept.words)
  <2>1. /\ UNCHANGED <<kept, shelf, offered>> /\ W!Go(t, "store")
        /\ saved' = [saved EXCEPT ![t] = [text |-> worker[t].text, words |-> words]]
        /\ tally' = [tally EXCEPT !.mixed = mixed]
    BY <1>1, <1>8 DEF W!Keep, Tallies
  <2>2. words \in 0..tally.bills
    BY <1>1 DEF Words, W!Torn, W!Timed
  <2> HIDE DEF words, mixed
  <2>3. tally'.bills = tally.bills
    BY <1>1, <2>1 DEF Tallies
  <2>4. saved'[t].text = worker[t].text /\ saved'[t].words = words /\ \A u \in Tasks \ {t} : saved'[u] = saved[u]
    BY <1>1, <2>1
  <2> QED
    BY <1>1, <1>2, <2>1, <2>2, <2>3, <2>4, TextsOfRuns DEF TextsStep
<1>9. CASE W!Store(t)
  <2> DEFINE told == {u \in {t} : W!Timed(kept.words)}
             heard == [tally EXCEPT !.heard = tally.heard \cup told]
  <2>1. /\ UNCHANGED <<saved, offered>> /\ W!Go(t, "work")
        /\ \/ W!Sync(kept) /\ kept' = [kept EXCEPT !.due = FALSE] /\ tally' = heard
           \/ W!Fault(heard) /\ kept' = [kept EXCEPT !.due = kept.words # 0] /\ UNCHANGED shelf
    <3>1. heard = [tally EXCEPT !.heard = @ \cup told]
      BY <1>1 DEF Tallies
    <3> HIDE DEF heard
    <3> QED
      BY <3>1, <1>9 DEF W!Store
  <2>2. heard \in Tallies /\ heard.bills = tally.bills
    <3>1. tally.heard \cup told \in SUBSET Tasks
      BY <1>1 DEF Tallies
    <3> HIDE DEF told
    <3> QED
      BY <1>1, <3>1 DEF Tallies
  <2> HIDE DEF heard
  <2>3. tally'.bills = tally.bills
    BY <2>1, <2>2, FaultOf
  <2>4. kept'.words = kept.words /\ shelf'.words \in Words(tally.bills)
    BY <1>1, <2>1, SyncTexts DEF Kepts
  <2> QED
    BY <1>1, <1>2, <2>1, <2>3, <2>4, TextsOfRuns DEF TextsStep
<1>10. CASE W!Work(t)
  <2>1. CASE /\ tally' = tally /\ offered' = worker[t].text /\ W!Sync(kept) /\ saved' = saved
             /\ kept' = [kept EXCEPT !.audio = "none", !.due = FALSE]
             /\ worker' = [u \in Tasks |-> IF u = t THEN [W!NoJob EXCEPT !.at = "release"] ELSE [worker[u] EXCEPT !.own = FALSE]]
    <3>1. kept'.words = kept.words
      BY <1>1, <2>1 DEF Kepts
    <3>2. [W!NoJob EXCEPT !.at = "release"].text = 0
      BY DEF W!NoJob
    <3>3. \A u \in Tasks : [worker[u] EXCEPT !.own = FALSE].text = worker[u].text
      BY <1>1 DEF Workers
    <3>4. \A u \in Tasks : worker'[u].text \in 0..tally.bills
      BY <1>1, <1>2, <2>1, <3>2, <3>3
    <3> QED
      BY <1>1, <2>1, <3>1, <3>4, SyncTexts DEF TextsStep
  <2>2. CASE /\ W!Fault(tally) /\ W!End(t) /\ offered' \in {offered, worker[t].text} /\ UNCHANGED <<kept, shelf, saved>>
    BY <1>1, <1>2, <2>2, TextsOfRuns, BillsOf DEF TextsStep
  <2> QED
    BY <1>10, <2>1, <2>2 DEF W!Work
<1> QED
  BY <1>3, <1>4, <1>5, <1>6, <1>7, <1>8, <1>9, <1>10

\* The request that is paid has a number no other has had.
LEMMA SubmitTexts == ASSUME WorkspaceInv, TextsInv, NEW t \in Tasks, W!Submit(t) PROVE TextsInv'
<1> DEFINE number == tally.bills + 1
           partial == tally.partial \/ ~worker[t].whole
           twice == tally.twice \/ t \in tally.heard
           billed == [tally EXCEPT !.bills = number, !.partial = partial, !.twice = twice]
<1>1. /\ kept \in Kepts /\ shelf \in Shelves /\ tally \in Tallies /\ worker \in [Tasks -> Workers] /\ worker[t] \in Workers
      /\ tally.bills \in Nat
      /\ kept.words \in Words(tally.bills) /\ shelf.words \in Words(tally.bills) /\ offered \in 0..tally.bills
  BY TextsAre
<1>2. /\ UNCHANGED <<kept, shelf, saved, offered>>
      /\ \/ /\ tally' = billed
            /\ worker' = [worker EXCEPT ![t].text = number, ![t].whole = TRUE, ![t].at = "poll"]
         \/ W!Fault(billed) /\ W!End(t)
  <2>1. billed = [tally EXCEPT !.bills = @ + 1, !.partial = @ \/ ~worker[t].whole, !.twice = @ \/ t \in tally.heard]
    BY <1>1 DEF Tallies
  <2> HIDE DEF billed
  <2> QED
    BY <2>1 DEF W!Submit
<1>3. partial \in BOOLEAN /\ twice \in BOOLEAN
  BY <1>1 DEF Tallies, Workers
<1>4. number \in Nat /\ number = tally.bills + 1
  BY <1>1
<1> HIDE DEF number, partial, twice
<1>5. billed \in Tallies /\ billed.bills = number
  BY <1>1, <1>3, <1>4 DEF Tallies
<1> HIDE DEF billed
<1>6. tally'.bills = number
  BY <1>2, <1>5, FaultOf
<1>7. \A u \in Tasks : worker[u].text \in 0..number
  BY <1>1, <1>4 DEF TextsInv
<1>8. \A u \in Tasks : worker'[u].text \in 0..number
  <2>1. CASE W!End(t)
    BY <1>4, <1>7, <2>1, TextsOfRuns
  <2>2. CASE worker' = [worker EXCEPT ![t].text = number, ![t].whole = TRUE, ![t].at = "poll"]
    <3>1. worker'[t].text = number /\ \A u \in Tasks \ {t} : worker'[u].text = worker[u].text
      BY <1>1, <2>2 DEF Workers
    <3> QED
      BY <1>4, <1>7, <3>1
  <2> QED
    BY <1>2, <2>1, <2>2
<1>9. \A u \in Tasks : saved'[u].text \in 0..tally.bills /\ saved'[u].words \in 0..tally.bills
  BY <1>2 DEF TextsInv
<1> QED
  BY <1>1, <1>2, <1>4, <1>6, <1>8, <1>9, TextsAfter

LEMMA SweepTexts == ASSUME WorkspaceInv, TextsInv, W!Sweep \/ W!SyncDue PROVE TextsStep
<1>1. kept \in Kepts /\ kept.words \in Words(tally.bills) /\ offered \in 0..tally.bills
      /\ \A u \in Tasks : worker[u].text \in 0..tally.bills
  BY DEF TextsInv, WorkspaceInv, WorkspaceTyped
<1>2. CASE W!Sweep
  BY <1>1, <1>2, EmptiedTexts DEF W!Sweep, TextsStep
<1>3. CASE W!SyncDue
  <2>1. W!Sync(kept) /\ kept' = [kept EXCEPT !.due = FALSE] /\ UNCHANGED <<worker, saved, offered, tally>>
    BY <1>3 DEF W!SyncDue
  <2>2. kept'.words = kept.words
    BY <1>1, <2>1 DEF Kepts
  <2> QED
    BY <1>1, <2>1, <2>2, SyncTexts DEF TextsStep
<1> QED
  BY <1>2, <1>3

LEMMA TextsNextKeep == ASSUME WorkspaceInv, TextsInv, W!Next PROVE TextsInv'
BY SweepTexts, TextsStepKeeps, TextsStepSteps, SameTextsSteps, SameTextsKeep, SubmitTexts DEF W!Next

LEMMA TextsStay == ASSUME WorkspaceInv, TextsInv, UNCHANGED workspace PROVE TextsInv'
BY DEF workspace, TextsInv

LEMMA TextsInitHolds == Init => TextsInv
<1> SUFFICES ASSUME NEW stage \in {"rest", "done"}, W!StartIn(stage) PROVE TextsInv
  BY DEF Init, W!Init, W!Gone
<1>1. /\ kept.words = 0 /\ shelf.words = 0 /\ offered = 0 /\ tally.bills = 0
      /\ \A t \in Tasks : saved[t].text = 0 /\ saved[t].words = 0
  BY DEF W!StartIn
<1>2. \A t \in Tasks : worker[t] = Ended(stage)
  BY DEF W!StartIn, Ended
<1>3. \A t \in Tasks : worker[t].text = 0
  BY <1>2, EndedIs
<1> QED
  BY <1>1, <1>3 DEF TextsInv, Words

\* No copy, checkpoint or run has a transcript that was not paid for, in every reachable state.
THEOREM TextsInductive == Spec => []TextsInv
<1>1. WorkspaceInv /\ TextsInv /\ [Next]_<<part, drafts, editorExports, aiEdits, replicas,
                                           generation, accounts, sourceCache, download, workspace, stream>> => TextsInv'
  BY TextsNextKeep, TextsStay DEF Next
<1> QED
  BY <1>1, TextsInitHolds, WorkspaceInductive, PTL DEF Spec

LEMMA WorkspaceTypes == WorkspaceInv /\ TextsInv => W!TypeOK
<1> SUFFICES ASSUME WorkspaceInv, TextsInv PROVE W!TypeOK
  OBVIOUS
<1>1. kept.audio \in {"none", "empty", "partial", "whole"}
  BY DEF WorkspaceInv, WorkspaceTyped, Kepts
<1> QED
  BY <1>1 DEF TextsInv, Words, W!TypeOK

LEMMA StreamTypes == StreamInv => T!TypeOK
<1> SUFFICES ASSUME StreamInv PROVE T!TypeOK
  OBVIOUS
<1>1. happened.faults <= MaxFaults
  BY DEF StreamInv, StreamTyped
<1>2. ASSUME NEW o \in T!Operations
      PROVE  /\ memory[o].answer \in [T!Actors -> T!Lengths \cup {"unasked", "failed", "unknown"}]
             /\ providerCall[o].provider \in DOMAIN T!Providers
  <2>1. memory[o] \in Memories /\ providerCall[o] \in StreamCalls
    BY DEF StreamInv, StreamTyped
  <2>2. DOMAIN T!Providers = 1..3
    BY DEF T!Providers
  <2>3. ActorAnswers = T!Lengths \cup {"unasked", "failed", "unknown"}
    BY DEF ActorAnswers, ToldLengths, T!Lengths
  <2> QED
    BY <2>1, <2>2, <2>3 DEF Memories, StreamCalls
<1> QED
  BY <1>1, <1>2 DEF T!TypeOK

-----------------------------------------------------------------------------
(* The parts together.                                                      *)

\* Nothing is rendered from a cached file that is not whole, however the jobs of a source,
\* its copies and its expiry interleave (youtube_source.py); a download keeps to its bytes,
\* its money and its one change of region (youtube_source.py); a run's files and paid
\* transcript are kept for the runs that use them (services/video_service.py); and a stream
\* is paid for once (stream_source.py).
THEOREM SourceIsSoundCorrect == Spec => []SourceIsSound
<1>1. CacheInv /\ DownloadInv /\ StreamInv /\ WorkspaceInv => SourceIsSound
  BY CacheSound, DownloadSound, StreamSound, WorkspaceSound DEF SourceIsSound
<1> QED
  BY <1>1, CacheInductive, DownloadInductive, StreamInductive, WorkspaceInductive, PTL

\* Every variable of the ten parts keeps to its domain in every reachable state; the budgets
\* of failures, crashes and sweeps are never exceeded.
THEOREM TypesOKCorrect == Spec => []TypesOK
<1>1. R!TypeOK /\ S!TypeOK /\ G!TypeOK /\ D!TypeOK /\ E!TypeOK /\ A!TypeOK /\ Y!TypeOK /\ X!TypeOK /\ W!TypeOK /\ T!TypeOK
      => TypesOK
  BY DEF TypesOK
<1>2. ReplicasInv /\ AccountInv => R!TypeOK /\ S!TypeOK
  BY ServicesTyped
<1>3. RunsInv /\ EditorInv => G!TypeOK /\ D!TypeOK /\ E!TypeOK /\ A!TypeOK
  BY WorkTyped
<1>4. CacheInv /\ DownloadInv => Y!TypeOK /\ X!TypeOK
  BY SourcesTyped
<1>5. StreamInv /\ WorkspaceInv /\ TextsInv => W!TypeOK /\ T!TypeOK
  BY WorkspaceTypes, StreamTypes
<1> QED
  BY <1>1, <1>2, <1>3, <1>4, <1>5, ReplicasInductive, AccountInductive, RunsInductive, EditorInductive,
     CacheInductive, DownloadInductive, StreamInductive, WorkspaceInductive, TextsInductive, PTL
=============================================================================
