--------------------------- MODULE MCTaskLifecycle ---------------------------
(* TaskLifecycle on small instances, with the properties TLC checks.        *)
EXTENDS TaskLifecycle, TLC

CONSTANTS w1, w2, r1, r2

OneWorker   == {w1}
TwoWorkers  == {w1, w2}
OneRequest  == {r1}
TwoRequests == {r1, r2}
Slots == Permutations(TwoWorkers) \cup Permutations(TwoRequests)
=============================================================================
