----------------------------- MODULE MCImports -----------------------------
(***************************************************************************)
(* Instances of Imports for TLC.                                           *)
(***************************************************************************)
EXTENDS Imports, TLC

CONSTANTS d1, d2

\* Downloads differ in nothing.
DownloadSymmetry == Permutations(Download)
=============================================================================
