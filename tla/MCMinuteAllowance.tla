-------------------------- MODULE MCMinuteAllowance --------------------------
(* Instances of MinuteAllowance for TLC: months of two ticks, a year of two  *)
(* months, one file submitted twice.                                         *)
EXTENDS MinuteAllowance, TLC

CONSTANTS h1, h2, t1, t2, k1

TwoHandlers  == {h1, h2}
TwoTasks     == {t1, t2}
OneUpload    == {k1}
MCKeyOf      == (t1 :> k1) @@ (t2 :> k1)
MCCost       == (t1 :> 2) @@ (t2 :> 2)
OldTask      == {t2}
TwoTickMonths(start, months) == start + 2 * months
Slots        == Permutations(TwoHandlers)
==============================================================================
