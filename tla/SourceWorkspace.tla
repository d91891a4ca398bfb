----------------------------- MODULE SourceWorkspace -----------------------------
(* The workspace of one stored upload, which the runs of several tasks share: the *)
(* lease that keeps its files while a run needs them, the one encode that brings  *)
(* the source below the ceiling, the audio taken from it, the transcript that is  *)
(* paid for, and the word timings beside it, here and in the object store. A run  *)
(* may fail or lose its worker at any step; its files are then left as they are.  *)
EXTENDS SourceLimits

CONSTANTS Tasks, MaxRuns, MaxFaults,
          Original     \* the geometry of the upload

VARIABLES
    dir,      \* the cache directory: picture, audio and word timings; is their copy due
    remote,   \* the object store: the capped copy, and the word timings
    job,      \* the run of each task: where it is, and its locals
    saved,    \* the checkpoint of each task: transcript and word timings
    cached,   \* the transcript the processing cache offers to other tasks
    count     \* runs, faults, encodes, bills, and what went wrong
wvars == <<dir, remote, job, saved, cached, count>>

None == [width |-> 0, height |-> 0, shape |-> <<1, 1>>, turned |-> FALSE, rate |-> 0]
Torn == -1                     \* timings that were not written to their end
Timed(words) == words > 0      \* load_cached_transcript_data finds words
NoJob == [at |-> "rest", tries |-> 1, unread |-> FALSE, own |-> FALSE, path |-> "none", whole |-> TRUE, text |-> 0]

StartIn(stage) ==
    /\ dir = [picture |-> None, audio |-> "none", words |-> 0, due |-> FALSE]
    /\ remote = [capped |-> None, words |-> 0]
    /\ job = [t \in Tasks |-> [NoJob EXCEPT !.at = stage]]
    /\ saved = [t \in Tasks |-> [text |-> 0, words |-> 0]] /\ cached = 0
    /\ count = [runs |-> 0, faults |-> 0, encodes |-> 0, bills |-> 0, partial |-> FALSE,
                cut |-> FALSE, heard |-> {}, twice |-> FALSE, mixed |-> FALSE]
Init == StartIn("rest")
Gone == StartIn("done")

Go(t, stage) == job' = [job EXCEPT ![t].at = stage]
End(t) == job' = [job EXCEPT ![t] = [NoJob EXCEPT !.at = "release"]]
At(t, stages) == job[t].at \in stages
OthersAt(t, stages) == \E u \in Tasks \ {t} : At(u, stages)
\* A run that has begun holds the lease, shared, until it releases it.
Leased(t) == ~At(t, {"rest", "done", "evict"})
\* Something fails: every run has its retries, all of them together MaxFaults faults.
Fault(c) == count.faults < MaxFaults /\ count' = [c EXCEPT !.faults = @ + 1]
Sync(d) == remote' = [remote EXCEPT !.words = IF d.words # 0 THEN d.words ELSE @]

(***************************************************************************)
(* The lease and the restore.                                              *)
(***************************************************************************)
\* local_path: the lease waits for an eviction that is under way; then the timings,
\* and the capped copy before the original. A download may fail, and the run with it.
Begin(t) ==
    /\ At(t, {"rest"}) /\ ~OthersAt(t, {"evict"}) /\ count.runs < MaxRuns
    /\ LET runs == [count EXCEPT !.runs = @ + 1]
           timed == [dir EXCEPT !.words = IF @ = 0 THEN remote.words ELSE @]
       IN \/ /\ count' = runs
             /\ dir' = [timed EXCEPT !.picture = IF @ # None THEN @ ELSE IF remote.capped # None THEN remote.capped
                                                 ELSE Original]
             /\ job' = [job EXCEPT ![t] = [NoJob EXCEPT !.at = "probe"]]
          \/ /\ Fault(runs) /\ dir' \in {dir, timed}
             /\ job' = [job EXCEPT ![t] = [NoJob EXCEPT !.at = "release"]]
    /\ UNCHANGED <<remote, saved, cached>>
\* Variant: whoever is done evicts, whether or not others still use the files.
ReleaseAnyway(t) == At(t, {"release"}) /\ Go(t, "evict") /\ UNCHANGED <<dir, remote, saved, cached, count>>
\* Only who gets the lease for itself evicts; a run or a reader of the timings may
\* still hold it, and then the sweep of the cache is left to do it.
Release(t) ==
    /\ At(t, {"release"})
    /\ LET alone == ~(\E u \in Tasks \ {t} : Leased(u)) /\ ~OthersAt(t, {"evict"})
       IN \/ alone /\ job' = [job EXCEPT ![t] = [NoJob EXCEPT !.at = "evict"]] /\ UNCHANGED count
          \/ job' = [job EXCEPT ![t] = NoJob] /\ (IF alone THEN Fault(count) ELSE UNCHANGED count)
    /\ UNCHANGED <<dir, remote, saved, cached>>
\* The timings are copied to the store first; when that fails they stay, marked as due.
Emptied ==
    \/ /\ Sync(dir) /\ UNCHANGED count
       /\ dir' = [picture |-> None, audio |-> "none", words |-> 0, due |-> FALSE]
    \/ /\ Fault(count) /\ UNCHANGED remote
       /\ dir' = [dir EXCEPT !.picture = None, !.audio = "none", !.due = dir.words # 0]
Evict(t) == At(t, {"evict"}) /\ Emptied /\ job' = [job EXCEPT ![t] = NoJob] /\ UNCHANGED <<saved, cached>>
\* sweep_cache, once a directory is old and nobody holds its lease; and the retry of
\* a copy that is due, under a lease of its own.
Sweep ==
    /\ \A t \in Tasks : At(t, {"rest", "done"})
    /\ dir.picture # None \/ dir.audio # "none" \/ (dir.words # 0 /\ ~dir.due)
    /\ Emptied /\ UNCHANGED <<job, saved, cached>>
SyncDue ==
    /\ dir.due /\ \A t \in Tasks : ~At(t, {"evict"})
    /\ Sync(dir) /\ dir' = [dir EXCEPT !.due = FALSE] /\ UNCHANGED <<job, saved, cached, count>>

(***************************************************************************)
(* The ceiling: one run at a time looks at the source and encodes it.      *)
(***************************************************************************)
Capping == {"encode", "publish"}
\* Variant: the lock is gone.
ProbeUnlocked(t) ==
    /\ At(t, {"probe"}) /\ Go(t, IF ExceedsLimits(dir.picture) THEN "encode" ELSE "speech")
    /\ UNCHANGED <<dir, remote, saved, cached, count>>
\* A source that cannot be probed is left as it is; a full disk ends the run.
Probe(t) ==
    /\ At(t, {"probe"}) /\ ~OthersAt(t, Capping)
    /\ \/ Go(t, IF ExceedsLimits(dir.picture) THEN "encode" ELSE "speech") /\ UNCHANGED count
       \/ ExceedsLimits(dir.picture) /\ Fault(count) /\ End(t)
       \/ Fault(count) /\ job' = [job EXCEPT ![t].at = "speech", ![t].unread = TRUE]
    /\ UNCHANGED <<dir, remote, saved, cached>>
\* The finished file replaces the source at once; after the last attempt the run ends.
Encode(t) ==
    /\ At(t, {"encode"})
    /\ \/ /\ dir' = [dir EXCEPT !.picture = Encoded(@)] /\ Go(t, "publish")
          /\ count' = [count EXCEPT !.encodes = @ + 1]
       \/ /\ job[t].tries < Len(Attempts(FALSE, TRUE)) /\ job' = [job EXCEPT ![t].tries = @ + 1]
          /\ UNCHANGED <<dir, count>>
       \/ job[t].tries = Len(Attempts(FALSE, TRUE)) /\ Fault(count) /\ End(t) /\ UNCHANGED dir
    /\ UNCHANGED <<remote, saved, cached>>
\* A copy that fails is only logged: the next download will be prepared again.
Publish(t) ==
    /\ At(t, {"publish"}) /\ job' = [job EXCEPT ![t].at = "speech", ![t].tries = 1]
    /\ \/ remote' = [remote EXCEPT !.capped = dir.picture] /\ UNCHANGED count
       \/ Fault(count) /\ UNCHANGED remote
    /\ UNCHANGED <<dir, saved, cached>>

(***************************************************************************)
(* The speech.                                                             *)
(***************************************************************************)
\* The saved timings are put back; without a transcript, or timings, one is made.
Speech(t) ==
    LET text == IF saved[t].text # 0 THEN saved[t].text ELSE cached
        words == IF text # 0 /\ Timed(saved[t].words) THEN saved[t].words ELSE dir.words
    IN /\ At(t, {"speech"}) /\ dir' = [dir EXCEPT !.words = words]
       /\ job' = [job EXCEPT ![t].text = text,
                             ![t].at = IF text = 0 \/ ~Timed(words) THEN "audio" ELSE "keep"]
       /\ UNCHANGED <<remote, saved, cached, count>>
\* Audio that is there and not empty is used, be it whole or not.
Audio(t) ==
    /\ At(t, {"audio"}) /\ UNCHANGED <<remote, saved, cached>>
    /\ count' = [count EXCEPT !.cut = @ \/ OthersAt(t, {"extract", "upload"})]
    /\ \/ /\ dir.audio \in {"partial", "whole"} /\ job' = [job EXCEPT ![t].at = "upload", ![t].path = "audio"]
          /\ UNCHANGED dir
       \/ /\ dir.audio \in {"none", "empty"} /\ dir' = [dir EXCEPT !.audio = "empty"]
          /\ job' = [job EXCEPT ![t].at = "extract", ![t].own = TRUE]
Extracting(t) ==
    /\ At(t, {"extract"}) /\ job[t].own /\ dir.audio = "empty" /\ dir' = [dir EXCEPT !.audio = "partial"]
    /\ UNCHANGED <<remote, job, saved, cached, count>>
\* Variant: whatever the extraction left is used.
ExtractedAnyhow(t) ==
    /\ At(t, {"extract"}) /\ dir.audio # "none" /\ job' = [job EXCEPT ![t].at = "upload", ![t].path = "audio"]
    /\ dir' \in {dir, [dir EXCEPT !.audio = "whole"]} /\ UNCHANGED <<remote, saved, cached, count>>
\* The file may have been removed, or another run may still be writing it; when there is
\* none, the video stands in for it. A failed extraction leaves what it had written.
Extracted(t) ==
    LET audio == IF ~job[t].own THEN dir.audio
                 ELSE IF \E u \in Tasks \ {t} : At(u, {"extract"}) /\ job[u].own THEN "partial" ELSE "whole"
        path == IF audio \in {"none", "empty"} THEN "video" ELSE "audio"
    IN /\ At(t, {"extract"}) /\ UNCHANGED <<remote, saved, cached>>
       /\ \/ /\ dir' = [dir EXCEPT !.audio = audio] /\ UNCHANGED count
             /\ job' = [job EXCEPT ![t].at = "upload", ![t].path = path]
          \/ /\ Fault([count EXCEPT !.cut = TRUE]) /\ UNCHANGED dir
             /\ \/ job' = [job EXCEPT ![t].at = "upload", ![t].path = "video"]
                \/ End(t)     \* after a quarter of an hour
\* Three attempts; a file that is gone, or another error, ends the run.
Upload(t) ==
    /\ At(t, {"upload"})
    /\ LET gone == job[t].path = "audio" /\ dir.audio = "none"
       IN \/ /\ ~gone /\ UNCHANGED count
             /\ job' = [job EXCEPT ![t].at = "submit", ![t].tries = 1, ![t].path = "none", ![t].own = FALSE,
                                      ![t].whole = job[t].path = "video" \/ dir.audio = "whole"]
          \/ job[t].tries < 3 /\ job' = [job EXCEPT ![t].tries = @ + 1] /\ UNCHANGED count
          \/ End(t) /\ (IF gone THEN UNCHANGED count ELSE Fault(count))
    /\ UNCHANGED <<dir, remote, saved, cached>>
\* The one request that is paid; its answer may be lost.
Submit(t) ==
    /\ At(t, {"submit"})
    /\ LET billed == [count EXCEPT !.bills = @ + 1, !.partial = @ \/ ~job[t].whole,
                                   !.twice = @ \/ t \in count.heard]
       IN \/ count' = billed /\ job' = [job EXCEPT ![t].text = count.bills + 1, ![t].whole = TRUE, ![t].at = "poll"]
          \/ Fault(billed) /\ End(t)
    /\ UNCHANGED <<dir, remote, saved, cached>>
\* Answered at last, or failed, or out of time: polls are repeated, the request is not.
Poll(t) ==
    /\ At(t, {"poll"})
    /\ \/ Go(t, "wrote") /\ dir' = [dir EXCEPT !.words = Torn] /\ UNCHANGED count
       \/ Fault(count) /\ End(t) /\ UNCHANGED dir
    /\ UNCHANGED <<remote, saved, cached>>
\* Two runs may write the timings at once, and mix them.
Wrote(t) ==
    /\ At(t, {"wrote"}) /\ Go(t, "keep")
    /\ \/ dir' = [dir EXCEPT !.words = job[t].text]
       \/ OthersAt(t, {"wrote"}) /\ dir' = [dir EXCEPT !.words = Torn]
    /\ UNCHANGED <<remote, saved, cached, count>>
\* Variant: the checkpoint is left to a later step of the run.
KeepLater(t) == At(t, {"keep"}) /\ Go(t, "store") /\ UNCHANGED <<dir, remote, saved, cached, count>>
\* Paid work is saved before anything else can fail; the timings as they can be read now,
\* which is not at all while another run writes them, and then those saved before are lost.
Keep(t) ==
    /\ At(t, {"keep"}) /\ Go(t, "store")
    /\ saved' = [saved EXCEPT ![t] = [text |-> job[t].text, words |-> IF Timed(dir.words) THEN dir.words ELSE 0]]
    /\ count' = [count EXCEPT !.mixed = @ \/ ~Timed(dir.words)]
    /\ UNCHANGED <<dir, remote, cached>>
Store(t) ==
    /\ At(t, {"store"}) /\ Go(t, "work") /\ UNCHANGED <<saved, cached>>
    /\ LET heard == [count EXCEPT !.heard = @ \cup {u \in {t} : Timed(dir.words)}]
       IN \/ Sync(dir) /\ dir' = [dir EXCEPT !.due = FALSE] /\ count' = heard
          \/ Fault(heard) /\ dir' = [dir EXCEPT !.due = dir.words # 0] /\ UNCHANGED remote
\* The rest of the run; a finished one removes the audio, whoever may be using it.
Work(t) ==
    /\ At(t, {"work"}) /\ UNCHANGED saved
    /\ \/ /\ UNCHANGED count /\ cached' = job[t].text /\ Sync(dir)
          /\ dir' = [dir EXCEPT !.audio = "none", !.due = FALSE]
          /\ job' = [u \in Tasks |-> IF u = t THEN [NoJob EXCEPT !.at = "release"] ELSE [job[u] EXCEPT !.own = FALSE]]
       \/ Fault(count) /\ End(t) /\ cached' \in {cached, job[t].text} /\ UNCHANGED <<dir, remote>>
Crash(t) ==
    /\ ~At(t, {"rest", "done"}) /\ job' = [job EXCEPT ![t] = NoJob]
    /\ Fault([count EXCEPT !.cut = @ \/ At(t, {"extract"})])
    /\ UNCHANGED <<dir, remote, saved, cached>>

Next ==
    \/ Sweep \/ SyncDue
    \/ \E t \in Tasks :
         \/ Begin(t) \/ Release(t) \/ Evict(t) \/ Probe(t) \/ Encode(t) \/ Publish(t)
         \/ Speech(t) \/ Audio(t) \/ Extracting(t) \/ Extracted(t) \/ Upload(t) \/ Submit(t) \/ Poll(t)
         \/ Wrote(t) \/ Keep(t) \/ Store(t) \/ Work(t) \/ Crash(t)
Spec == Init /\ [][Next]_wvars

TypeOK ==
    /\ dir.audio \in {"none", "empty", "partial", "whole"} /\ dir.words \in {Torn} \cup 0..count.bills
    /\ remote.words \in {Torn} \cup 0..count.bills
    /\ \A t \in Tasks : saved[t].text \in 0..count.bills /\ saved[t].words \in 0..count.bills
\* The files of a source stay while a run uses them, and what it goes on with is below
\* the ceiling unless it could not be probed; the source is encoded again only when its
\* capped copy was not stored; no run pays for more than one transcript, none at all
\* once its task has gone on to work with one and its timings, unless two runs were at
\* the timings at once and one saved none; and a transcript of half the speech is
\* made only where an extraction was cut short or two runs extracted at once.
WorkspaceHolds ==
    /\ \A t \in Tasks : Leased(t) /\ ~At(t, {"release"}) =>
         /\ dir.picture # None
         /\ ~At(t, {"probe", "encode"}) /\ ~job[t].unread => ~ExceedsLimits(dir.picture)
    /\ count.encodes <= 1 + count.faults
    /\ count.bills <= count.runs /\ (count.twice => count.mixed)
    /\ count.partial => count.cut
=============================================================================
