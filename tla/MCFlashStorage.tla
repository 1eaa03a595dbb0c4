---------------------------- MODULE MCFlashStorage ---------------------------
(***************************************************************************)
(* Instances of FlashStorage for TLC.  Writers are interchangeable, and so *)
(* are images, in the safety run.                                          *)
(***************************************************************************)
EXTENDS FlashStorage, TLC

CONSTANTS http, cli, i1, i2

Symmetry == Permutations({http, cli}) \cup Permutations({i1, i2})
=============================================================================
