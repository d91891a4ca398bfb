------------------------------- MODULE StreamSource -------------------------------
(* The download of one Kick video (stream_source.py): its check before a task is    *)
(* made, the chain of providers from free to paid, what an operation remembers of    *)
(* them in the memory of its process, and the files of two operations, the task's   *)
(* job and an edit of its clips, which are removed apart. Twitch has one paid actor *)
(* instead of two.                                                                  *)
EXTENDS Naturals, Sequences, FiniteSets

CONSTANTS MaxRuns, MaxFaults

VARIABLES
    video,    \* what it is: subscriber-only or not, and its length
    task,     \* the task, and what its check left: is there a fresh answer of an actor
    memory,   \* _operations: the length each operation expects, and what actors answered
    files,    \* stream-work/<task>/<operation>: what is there of each
    call,     \* the download each operation is in: stage, kind, provider
    bills,    \* the runs paid for since the memory of the operation began
    got,      \* the length of the speech the job was given, and whether it was measured
    faults    \* runs so far; and crashes, full disks, edits and changes of the video, together
stvars == <<video, task, memory, files, call, bills, got, faults>>

Operations == {"job", "edit"}
\* One free provider, tried twice, stands for the free ones before the paid.
Providers == <<"direct_retry", "apify_kick_hls", "apify_kick_mp4">>
Actors == {"apify_kick_hls", "apify_kick_mp4"}
\* An answer is the length the actor reported; lengths are within the limit or not.
Lengths == {"short", "long"}
Fresh == [expected |-> "unknown", preferred |-> 1, answer |-> [a \in Actors |-> "unasked"], failed |-> FALSE, local |-> FALSE]
NotGot == [length |-> "unknown", measured |-> FALSE]
NoCall == [at |-> "none", kind |-> "none", provider |-> 1]
Unpaid == [a \in Actors |-> 0]

StartIn(stage) ==
    /\ task = [at |-> stage, kept |-> FALSE]
    /\ memory = [o \in Operations |-> Fresh] /\ files = [o \in Operations |-> {}]
    /\ call = [o \in Operations |-> NoCall] /\ bills = [o \in Operations |-> Unpaid]
    /\ got = NotGot /\ faults = [runs |-> 0, faults |-> 0]
Init == video \in [private : BOOLEAN, length : Lengths] /\ StartIn("new")
Gone == video = [private |-> FALSE, length |-> "short"] /\ StartIn("ended")

Fault == faults.faults < MaxFaults /\ faults' = [faults EXCEPT !.faults = @ + 1]
In(o, stage) == call[o].at = stage
Provider(o) == Providers[call[o].provider]
At(o, stage) == call' = [call EXCEPT ![o].at = stage]
Expect(m, length) == IF m.expected = "unknown" THEN [m EXCEPT !.expected = length] ELSE m
Close(length, other) == length = other \/ "unknown" \in {length, other}
\* The limit is that of the job: an edit is given the sections it needs. A length
\* that is not reported is the expected one.
TooLong(o, length, m) == o = "job" /\ "long" = (IF length = "unknown" THEN m.expected ELSE length)
Told == {"unknown", video.length}
Same == UNCHANGED <<memory, files, call, bills, got, faults>>

(***************************************************************************)
(* Before the task: only the cheaper actor may be asked, and only in time. *)
(***************************************************************************)
Preflight ==
    /\ task.at = "new"
    /\ \/ task' = [task EXCEPT !.at = "refused"]
       \/ /\ ~video.private /\ video.length = "short"
          /\ \E actor \in BOOLEAN : task' = [at |-> "queued", kept |-> actor]
    /\ UNCHANGED video /\ Same
AnswerAges == task.kept /\ task' = [task EXCEPT !.kept = FALSE] /\ UNCHANGED video /\ Same
\* A broadcast that is still recorded when it is checked grows past the limit, or the
\* author closes it to subscribers.
VideoChanges ==
    /\ task.at \notin {"new", "refused", "ended"} /\ video = [private |-> FALSE, length |-> "short"]
    /\ video' \in {[video EXCEPT !.private = TRUE], [video EXCEPT !.length = "long"]}
    /\ Fault /\ UNCHANGED <<task, memory, files, call, bills, got>>

(***************************************************************************)
(* One download.                                                           *)
(***************************************************************************)
\* An operation that has failed does not try again for ten minutes.
Download(o, kind) ==
    call' = [call EXCEPT ![o] = IF memory[o].failed THEN [NoCall EXCEPT !.at = "refused"]
                                ELSE [at |-> "try", kind |-> kind, provider |-> memory[o].preferred]]
Refuse(o) == At(o, "refused")
\* The next provider, or none is left.
Advance(o, m) ==
    IF call[o].provider < Len(Providers)
    THEN /\ memory' = [memory EXCEPT ![o] = m]
         /\ call' = [call EXCEPT ![o].at = "try", ![o].provider = @ + 1]
    ELSE memory' = [memory EXCEPT ![o] = [m EXCEPT !.failed = TRUE]] /\ Refuse(o)
Deliver(o, m, there) ==
    /\ memory' = [memory EXCEPT ![o] = [m EXCEPT !.preferred = call[o].provider]]
    /\ files' = [files EXCEPT ![o] = there \cup {call[o].kind}] /\ At(o, "done")
    /\ got' = IF o = "job" /\ task.at = "speech" THEN [length |-> video.length, measured |-> FALSE] ELSE got

\* yt-dlp, through the proxy or not. An error that says the video is closed ends the
\* whole chain; any other is the provider's own.
TryFree(o) ==
    /\ In(o, "try") /\ Provider(o) \notin Actors
    /\ \/ Advance(o, memory[o]) /\ UNCHANGED <<files, got>>
       \/ video.private /\ Refuse(o) /\ UNCHANGED <<memory, files, got>>
       \/ /\ ~video.private
          /\ \E told \in Told :
               LET m == Expect(memory[o], told)
               IN \/ /\ TooLong(o, told, m) /\ memory' = [memory EXCEPT ![o] = m]
                     /\ Refuse(o) /\ UNCHANGED <<files, got>>
                  \/ ~TooLong(o, told, m) /\ Deliver(o, m, files[o])
                  \/ ~TooLong(o, told, m) /\ Advance(o, m) /\ UNCHANGED <<files, got>>
    /\ UNCHANGED <<video, task, bills, faults>>
Answered(o, answer) == [memory[o] EXCEPT !.answer[Provider(o)] = answer]
Pay(o) == bills' = [bills EXCEPT ![o][Provider(o)] = @ + 1]
\* Variant: an actor is asked whenever its turn comes.
TryActorAgain(o) ==
    /\ In(o, "try") /\ Provider(o) \in Actors /\ Pay(o)
    /\ \/ memory' = [memory EXCEPT ![o] = Answered(o, video.length)] /\ At(o, "media")
       \/ Advance(o, Answered(o, "failed"))
    /\ UNCHANGED <<video, task, files, got, faults>>
\* An actor runs once: its answer is kept, and so is that it gave none or one for some
\* other length. The dear one is not asked before the length is known, and must tell it.
TryActor(o) ==
    LET answer == memory[o].answer[Provider(o)]
        expected == memory[o].expected
        whole == Provider(o) = "apify_kick_mp4"
    IN /\ In(o, "try") /\ Provider(o) \in Actors /\ UNCHANGED <<video, task, files, got, faults>>
       /\ \/ answer \in Lengths \cup {"unknown"} /\ At(o, "media") /\ UNCHANGED <<memory, bills>>
          \/ answer = "failed" /\ Advance(o, memory[o]) /\ UNCHANGED bills
          \/ /\ answer = "unasked" /\ whole /\ expected = "unknown"
             /\ Advance(o, Answered(o, "failed")) /\ UNCHANGED bills
          \/ /\ answer = "unasked" /\ ~(whole /\ expected = "unknown") /\ Pay(o)
             /\ \/ Advance(o, Answered(o, "failed"))
                \/ /\ ~video.private /\ At(o, "media")
                   /\ \E told \in (IF whole THEN {video.length} ELSE Told) :
                        Close(told, expected) /\ memory' = [memory EXCEPT ![o] = Answered(o, told)]
\* What the actor found: a playlist, read directly and then through the proxy, or the
\* whole file, fetched once and kept for the next call. Either is measured.
Media(o) ==
    LET told == memory[o].answer[Provider(o)]
        m == Expect(memory[o], told)
        whole == Provider(o) = "apify_kick_mp4"
        right(length) == Close(length, told) /\ Close(length, m.expected)
        fetched == [m EXCEPT !.local = TRUE]
    IN /\ In(o, "media") /\ UNCHANGED <<video, task, bills, faults>>
       /\ \/ /\ TooLong(o, told, m) /\ Refuse(o)
             /\ memory' = [memory EXCEPT ![o] = m] /\ UNCHANGED <<files, got>>
          \/ ~TooLong(o, told, m) /\ Advance(o, m) /\ UNCHANGED <<files, got>>
          \/ /\ ~TooLong(o, told, m) /\ ~whole
             /\ \E length \in Told :
                  /\ right(length) /\ Deliver(o, m, files[o])
                  /\ ~TooLong(o, length, m)
          \/ /\ ~TooLong(o, told, m) /\ whole /\ m.local
             /\ Deliver(o, m, files[o])
          \/ /\ ~TooLong(o, told, m) /\ whole /\ ~m.local /\ right(video.length)
             /\ \/ Deliver(o, fetched, files[o] \cup {"shared"})
                \/ Advance(o, fetched) /\ files' = [files EXCEPT ![o] = @ \cup {"shared"}] /\ UNCHANGED got
\* The disk fails: an error that is none of the source's.
DiskFails(o) ==
    /\ call[o].at \in {"try", "media"} /\ Fault /\ At(o, "broken")
    /\ UNCHANGED <<video, task, memory, files, bills, got>>

(***************************************************************************)
(* The job: speech, then the pictures of the plan, and the end of it all.  *)
(***************************************************************************)
Stage(stage) == task' = [task EXCEPT !.at = stage]
\* seed_stream_resolution; the row may not be read.
StartJob ==
    /\ task.at = "queued" /\ faults.runs < MaxRuns /\ Stage("speech")
    /\ \E seeded \in BOOLEAN :
         LET m == Expect(memory["job"], IF seeded THEN "short" ELSE "unknown")
             kept == seeded /\ task.kept
         IN memory' = [memory EXCEPT !["job"] = IF kept THEN [m EXCEPT !.answer["apify_kick_hls"] = "short"] ELSE m]
    /\ faults' = [faults EXCEPT !.runs = @ + 1]
    /\ Download("job", "audio") /\ UNCHANGED <<video, files, bills, got>>
\* The file that came is measured, where it can be.
SpeechThere ==
    /\ task.at = "speech" /\ In("job", "done")
    /\ \E measured \in BOOLEAN :
         /\ got' = [got EXCEPT !.measured = measured]
         /\ IF measured /\ got.length = "long" THEN Stage("failing") /\ call' = [call EXCEPT !["job"] = NoCall]
            ELSE /\ Stage("pictures")
                 /\ IF call["job"].kind = "audio" THEN Download("job", "sections")
                    ELSE call' = [call EXCEPT !["job"] = NoCall]
    /\ UNCHANGED <<video, memory, files, bills, faults>>
\* The whole video stands in for what could not be written, not for what was refused.
FallBack ==
    /\ task.at \in {"speech", "pictures"} /\ In("job", "broken") /\ call["job"].kind # "video"
    /\ Download("job", "video") /\ UNCHANGED <<video, task, memory, files, bills, got, faults>>
JobFails ==
    /\ task.at \in {"speech", "pictures"} /\ Stage("failing") /\ call' = [call EXCEPT !["job"] = NoCall]
    /\ In("job", "refused") \/ (In("job", "broken") /\ call["job"].kind = "video")
    /\ UNCHANGED <<video, memory, files, bills, got, faults>>
Render ==
    /\ task.at = "pictures" /\ call["job"].at \in {"done", "none"} /\ Stage("render")
    /\ call' = [call EXCEPT !["job"] = NoCall] /\ UNCHANGED <<video, memory, files, bills, got, faults>>
\* Variant: the directory of the task goes, and everything in it.
RemoveTask(o) == memory' = [memory EXCEPT ![o] = Fresh] /\ files' = [p \in Operations |-> {}]
\* cleanup_stream_task: the files and the memory of this operation.
Remove(o) == memory' = [memory EXCEPT ![o] = Fresh] /\ files' = [files EXCEPT ![o] = {}]
\* A failed or finished run cleans up; a failed task may be run again.
EndJob ==
    /\ task.at \in {"render", "failing"} /\ Remove("job") /\ bills' = [bills EXCEPT !["job"] = Unpaid]
    /\ task' \in {[task EXCEPT !.at = "queued"], [at |-> "ended", kept |-> FALSE]} /\ got' = NotGot
    /\ UNCHANGED <<video, call, faults>>
\* The process dies: its memory is lost, the files stay for the next run to remove.
Crash ==
    /\ task.at \in {"speech", "pictures", "render", "failing"} /\ Fault /\ Stage("queued")
    /\ memory' = [memory EXCEPT !["job"] = Fresh] /\ bills' = [bills EXCEPT !["job"] = Unpaid]
    /\ call' = [call EXCEPT !["job"] = NoCall] /\ got' = NotGot /\ UNCHANGED <<video, files>>

(***************************************************************************)
(* An edit downloads its sections into an operation of its own.            *)
(***************************************************************************)
StartEdit ==
    /\ faults.runs > 0 /\ task.at \in {"queued", "render", "ended"} /\ Fault /\ In("edit", "none")
    /\ memory' = [memory EXCEPT !["edit"].expected = "short"]
    /\ Download("edit", "sections") /\ UNCHANGED <<video, task, files, bills, got>>
EndEdit ==
    /\ In("edit", "done") /\ Remove("edit") /\ call' = [call EXCEPT !["edit"] = [NoCall EXCEPT !.at = "over"]]
    /\ bills' = [bills EXCEPT !["edit"] = Unpaid] /\ UNCHANGED <<video, task, got, faults>>

Next ==
    \/ Preflight \/ AnswerAges \/ VideoChanges \/ StartJob \/ SpeechThere \/ FallBack \/ JobFails \/ Render
    \/ EndJob \/ Crash \/ StartEdit \/ EndEdit
    \/ \E o \in Operations : TryFree(o) \/ TryActor(o) \/ Media(o) \/ DiskFails(o)
Spec == Init /\ [][Next]_stvars

TypeOK ==
    /\ \A o \in Operations : memory[o].answer \in [Actors -> Lengths \cup {"unasked", "failed", "unknown"}]
    /\ \A o \in Operations : call[o].provider \in DOMAIN Providers
    /\ faults.faults <= MaxFaults
\* An operation pays each actor at most once, and not for an answer the check before
\* the task has already paid; what an operation was given stays there until it is done
\* with it, whatever the other one removes; speech that was measured goes on only within
\* the limit, and what no one measured was never reported too long; and nothing is
\* tried once all providers have failed.
StreamHolds ==
    /\ \A o \in Operations : \A a \in Actors : bills[o][a] <= 1
    /\ \A o \in Operations : In(o, "done") => call[o].kind \in files[o]
    /\ task.at \in {"pictures", "render"} => files["job"] # {} /\ (got.length = "long" => ~got.measured)
    /\ task.at = "render" =>
         /\ files["job"] \cap {"sections", "video"} # {}
         /\ got.length = "long" => memory["job"].expected # "long"
    /\ \A o \in Operations : memory[o].failed => call[o].at \in {"refused", "none"}
=============================================================================
