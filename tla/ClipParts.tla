-------------------------------- MODULE ClipParts --------------------------------
(* Side by side, the components around a clip whose properties are proved as well as *)
(* checked: the editor of one clip, its charged requests, the two stores behind a    *)
(* file, the runs of a task, the social accounts, and what is downloaded, cached and *)
(* prepared of a source. A behaviour works on one of them; those of MCClips that are *)
(* about its computations or its edits leave all of them alone.                      *)
EXTENDS Integers, Sequences, FiniteSets

CONSTANTS Tabs, Preps, MaxSaves, MaxTries, MaxFaults, Jobs, MaxVersions, MaxActive,
          Requests, Limit, Clients, Mirrors, Crons, Nobody, Primary, Fallback, MaxRevisions, MaxCrashes,
          Keys, Texts, PlanSize, MaxRuns, MaxChanges,
          Links, Callbacks, Uses, Closers, MaxGrants, MaxRefreshes, MaxFailures,
          Parts, Heights, MaxBegins,
          Regions, Home, Initial, ByteLimit, Allowance,
          Tasks, MaxTroubles

\* A call writes something and may be interrupted, its thread has a name, and there are
\* two providers.
ASSUME ClipsAssumption ==
    /\ MaxRevisions \in Nat \ {0} /\ MaxCrashes \in Nat
    /\ Nobody \notin Clients \cup Mirrors \cup Crons
    /\ Primary # Fallback
ASSUME AccountsAssumption == MaxGrants \in Nat /\ MaxRefreshes \in Nat /\ MaxFailures \in Nat
\* No tab and no request is named like the marks of a missing draft and a free lock.
ASSUME EditorAssumption ==
    /\ MaxTries \in Nat \ {0} /\ MaxVersions \in Nat /\ Limit \in Nat /\ MaxFaults \in Nat
    /\ 0 \notin Tabs
    /\ IsFiniteSet(Requests) /\ Requests \notin Requests
\* A plan has a segment, and there is a key to run with.
ASSUME RunsAssumption == PlanSize \in Nat \ {0} /\ Texts \in Nat /\ Keys # {}
\* Zero stands for no full file, and the proxy has an exit where it is configured to.
ASSUME SourcesAssumption ==
    /\ Parts \subseteq Nat /\ Heights \subseteq Nat \ {0} /\ MaxBegins \in Nat
    /\ Home \in Regions /\ Initial \in Nat /\ ByteLimit \in Nat /\ Allowance \in Nat
    /\ IsFiniteSet(Tasks)

VARIABLE part     \* what this behaviour works on
VARIABLES asset, draft, tabs, preps, snapshot, draftCrashes
VARIABLES browser, session, stores, up, manifest, payloads, lock, pc, call, crashes,
          written, latest, unmirrored
VARIABLES jobs, clean, exportCrashes
VARIABLES ask, seen, ledger, request, queue, result, userLock, faults
VARIABLES link, account, live, callback, use, closer, past
VARIABLES dir, remote, cacheJob, trouble
VARIABLES at, op, net, load, paid
VARIABLES kept, shelf, worker, saved, offered, tally
VARIABLES video, task, memory, taskFiles, providerCall, bills, got, happened
VARIABLES status, runKey, checkpoint, cache, sidecar, runClips, made, run, metadata, resume, settings, counts

replicas == <<browser, session, stores, up, manifest, payloads, lock, pc, call, crashes,
              written, latest, unmirrored>>
drafts == <<asset, draft, tabs, preps, snapshot, draftCrashes>>
editorExports == <<jobs, clean, exportCrashes>>
aiEdits == <<ask, seen, ledger, request, queue, result, userLock, faults>>
generation == <<status, runKey, checkpoint, cache, sidecar, runClips, made, run, metadata, resume,
                settings, counts>>
sourceCache == <<dir, remote, cacheJob, trouble>>
download == <<at, op, net, load, paid>>
workspace == <<kept, shelf, worker, saved, offered, tally>>
stream == <<video, task, memory, taskFiles, providerCall, bills, got, happened>>
accounts == <<link, account, live, callback, use, closer, past>>

\* Two paid actors; the second one only gets what the first has left.
ActorPrices == <<2, 2>>
\* An upload above the ceiling in both of its edges and in its rate.
TallUpload == [width |-> 3840, height |-> 2160, shape |-> <<1, 1>>, turned |-> FALSE, rate |-> 120000]

D == INSTANCE EditorDrafts WITH crashes <- draftCrashes
E == INSTANCE EditorExports WITH crashes <- exportCrashes
A == INSTANCE AiEdits WITH lock <- userLock
R == INSTANCE MediaReplicas
G == INSTANCE GenerationRetries
        WITH key <- runKey, clips <- runClips, MaxEdits <- MaxChanges
S == INSTANCE SocialAccounts
Y == INSTANCE SourceCache WITH job <- cacheJob
X == INSTANCE SourceDownload WITH Prices <- ActorPrices
W == INSTANCE SourceWorkspace
        WITH dir <- kept, remote <- shelf, job <- worker, cached <- offered, count <- tally,
             Original <- TallUpload, MaxFaults <- MaxTroubles
T == INSTANCE StreamSource
        WITH files <- taskFiles, call <- providerCall, faults <- happened

Init ==
    /\ part \in {"computation", "clips", "draft", "exports", "requests", "stores", "runs", "account",
                "source", "download", "workspace", "stream"}
    /\ IF part = "draft" THEN D!Init ELSE D!Gone
    /\ IF part = "exports" THEN E!Init ELSE E!Gone
    /\ IF part = "requests" THEN A!Init ELSE A!Gone
    /\ IF part = "stores" THEN R!Init ELSE R!Gone
    /\ IF part = "runs" THEN G!Init ELSE G!Gone
    /\ IF part = "account" THEN S!Init ELSE S!Gone
    /\ IF part = "source" THEN Y!Init ELSE Y!Gone
    /\ IF part = "download" THEN X!Init ELSE X!Gone
    /\ IF part = "workspace" THEN W!Init ELSE W!Gone
    /\ IF part = "stream" THEN T!Init ELSE T!Gone

Next ==
    \/ part = "draft" /\ D!Next
       /\ UNCHANGED <<part, editorExports, aiEdits, replicas, generation, accounts, sourceCache, download, workspace, stream>>
    \/ part = "exports" /\ E!Next
       /\ UNCHANGED <<part, drafts, aiEdits, replicas, generation, accounts, sourceCache, download, workspace, stream>>
    \/ part = "requests" /\ A!Next
       /\ UNCHANGED <<part, drafts, editorExports, replicas, generation, accounts, sourceCache, download, workspace, stream>>
    \/ part = "stores" /\ R!Next
       /\ UNCHANGED <<part, drafts, editorExports, aiEdits, generation, accounts, sourceCache, download, workspace, stream>>
    \/ part = "runs" /\ G!Next
       /\ UNCHANGED <<part, drafts, editorExports, aiEdits, replicas, accounts, sourceCache, download, workspace, stream>>
    \/ part = "account" /\ S!Next
       /\ UNCHANGED <<part, drafts, editorExports, aiEdits, replicas, generation, sourceCache, download, workspace, stream>>
    \/ part = "source" /\ Y!Next
       /\ UNCHANGED <<part, drafts, editorExports, aiEdits, replicas, generation, accounts, download, workspace, stream>>
    \/ part = "download" /\ X!Next
       /\ UNCHANGED <<part, drafts, editorExports, aiEdits, replicas, generation, accounts, sourceCache, workspace, stream>>
    \/ part = "workspace" /\ W!Next
       /\ UNCHANGED <<part, drafts, editorExports, aiEdits, replicas, generation, accounts, sourceCache, download, stream>>
    \/ part = "stream" /\ T!Next
       /\ UNCHANGED <<part, drafts, editorExports, aiEdits, replicas, generation, accounts, sourceCache, download, workspace>>

Spec == Init /\ [][Next]_<<part, drafts, editorExports, aiEdits, replicas,
                           generation, accounts, sourceCache, download, workspace, stream>>

TypesOK ==
    /\ part = "draft" => D!TypeOK
    /\ part = "exports" => E!TypeOK
    /\ part = "requests" => A!TypeOK
    /\ part = "stores" => R!TypeOK
    /\ part = "runs" => G!TypeOK
    /\ part = "account" => S!TypeOK
    /\ part = "source" => Y!TypeOK
    /\ part = "download" => X!TypeOK
    /\ part = "workspace" => W!TypeOK
    /\ part = "stream" => T!TypeOK

\* The editor of a clip: snapshots, exports, and what its model requests are charged.
EditorHolds ==
    /\ part = "draft" => D!SnapshotsAreTrue
    /\ part = "exports" => E!ExportsKeepTheirWord
    /\ part = "requests" => A!ChargesAreRight
RetriesKeepTheirPlan == part = "runs" => G!RetriesKeepTheirPlan
DisconnectIsFinal    == part = "account" => S!DisconnectIsFinal
\* What is cached of a source, what downloading it may cost, whose files are kept for
\* whom, and that work that is paid for is not paid for again.
SourceIsSound        ==
    /\ part = "source" => Y!SourceIsSound
    /\ part = "download" => X!DownloadHolds
    /\ part = "workspace" => W!WorkspaceHolds
    /\ part = "stream" => T!StreamHolds
ReplicasAgree        == part = "stores" => R!ReplicasAgree
=============================================================================
