----------------------------- MODULE TaskContract -----------------------------
(***************************************************************************)
(* What the owner of a task is promised, without jobs, locks or races:     *)
(* minutes are held before any work, output only appears in a paid working *)
(* task and never twice for one plan position, a finished task stays       *)
(* finished and paid, a failure without output gives the minutes back, and *)
(* a failed task is worked on again only after its minutes are held again. *)
(***************************************************************************)
CONSTANT Positions

VARIABLES phase,   \* none, working, done, failed, gone
          paid,    \* the task's minutes count against the allowance
          output   \* plan positions that have produced a clip

vars == <<phase, paid, output>>

\* A legacy task may be working before its minutes were ever recorded.
Init ==
    /\ phase \in {"none", "working"}
    /\ paid = FALSE /\ output = {}

Accept == phase = "none" /\ phase' = "working" /\ paid' = TRUE /\ UNCHANGED output

\* A working legacy task, or a failed task about to be retried, is charged.
Charge == phase \in {"working", "failed"} /\ ~paid /\ paid' = TRUE /\ UNCHANGED <<phase, output>>

Produce ==
    /\ phase = "working" /\ paid
    /\ \E p \in Positions \ output : output' = output \cup {p}
    /\ UNCHANGED <<phase, paid>>

Finish ==
    /\ phase = "working" /\ paid /\ output # {}
    /\ phase' = "done" /\ UNCHANGED <<paid, output>>

\* With output the minutes stay held, unless the owner has deleted all of it.
Fail ==
    /\ phase = "working" /\ phase' = "failed"
    /\ paid' \in {FALSE, paid} /\ (output = {} => ~paid')
    /\ UNCHANGED output

Retry == phase = "failed" /\ paid /\ phase' = "working" /\ UNCHANGED <<paid, output>>

\* The retry could not be queued after all.
Release == phase = "failed" /\ paid /\ paid' = FALSE /\ UNCHANGED <<phase, output>>

Remove == phase \in {"done", "failed"} /\ phase' = "gone" /\ UNCHANGED <<paid, output>>

Next == Accept \/ Charge \/ Produce \/ Finish \/ Fail \/ Retry \/ Release \/ Remove

Spec == Init /\ [][Next]_vars
=============================================================================
