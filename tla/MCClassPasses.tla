--------------------------- MODULE MCClassPasses ---------------------------
(***************************************************************************)
(* Instances of ClassPasses for TLC.                                       *)
(***************************************************************************)
EXTENDS ClassPasses, TLC

CONSTANTS m1, m2, m3, m4, m5, m6, m7, ann, bob, s1, c1
=============================================================================
