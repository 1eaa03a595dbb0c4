---------------------------- MODULE MCTagDatabase ----------------------------
(***************************************************************************)
(* Instances of TagDatabase for TLC.  The two tag names are interchangeable*)
(* in the safety runs; the liveness run uses no symmetry.                  *)
(***************************************************************************)
EXTENDS TagDatabase, TLC

CONSTANTS n1, n2

Symmetry == Permutations({n1, n2})
=============================================================================
