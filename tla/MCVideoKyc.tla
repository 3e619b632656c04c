----------------------------- MODULE MCVideoKyc -----------------------------
(* Instances of VideoKyc for TLC.                                          *)
EXTENDS VideoKyc, TLC

CONSTANTS a1, a2, s1

OneApplication  == {a1}
TwoApplications == {a1, a2}
OneSession      == {s1}
Symmetric       == Permutations(TwoApplications)
=============================================================================
