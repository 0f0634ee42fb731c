-------------------------- MODULE MCImportLicenses --------------------------
(***************************************************************************)
(* Instances of ImportLicenses for TLC.                                    *)
(***************************************************************************)
EXTENDS ImportLicenses, TLC

CONSTANTS s1, s2, g1, g2
=============================================================================
