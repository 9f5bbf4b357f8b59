------------------------- MODULE MCOnloadController -------------------------
(***************************************************************************)
(* Instances of OnloadController for TLC.  The configurations give the     *)
(* constants their values; versions are interchangeable.                   *)
(***************************************************************************)
EXTENDS OnloadRollout, TLC

VersionSymmetry == Permutations(Versions)
=============================================================================
