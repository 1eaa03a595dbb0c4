--------------------------- MODULE MCTagPersistence --------------------------
(***************************************************************************)
(* Instances of TagPersistence for TLC: two persistent slots in a table of *)
(* three, and the device section, which other tasks set.                   *)
(***************************************************************************)
EXTENDS TagPersistence, TLC

CONSTANTS n1, n2, n3, device

MCSections == {0, 1, device}
MCFirstPage == {device}
MCIsContent(s, v) == v \in Names \cup {NoTag}
MCConfigured == [MCSections -> Names \cup {NoTag}]
MCDefault == [s \in MCSections |-> NoTag]

Symmetry == Permutations(Names)
=============================================================================
