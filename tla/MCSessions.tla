----------------------------- MODULE MCSessions -----------------------------
(***************************************************************************)
(* Instances of Sessions for TLC.                                          *)
(***************************************************************************)
EXTENDS Sessions, TLC

CONSTANTS r1, r2, s1, s2, s3

\* Requests differ in nothing; ids of sessions do, in their CHOOSE.
RequestSymmetry == Permutations(Request)
=============================================================================
