---------------------------- MODULE MCSocialPosts ----------------------------
(* SocialPosts on small instances.                                          *)
EXTENDS SocialPosts, TLC

CONSTANTS w1, w2, c1, c2, r1

OneWorker  == {w1}
TwoWorkers == {w1, w2}
OneCron    == {c1}
TwoCrons   == {c1, c2}
OneRequest == {r1}
Slots == Permutations(TwoWorkers) \cup Permutations(TwoCrons)
=============================================================================
