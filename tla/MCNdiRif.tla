------------------------------ MODULE MCNdiRif ------------------------------
(* Instances of NdiRif for TLC. *)
EXTENDS NdiRif, TLC

CONSTANTS port1, bridge1, virtual1, r1, r2, r3, b1, b2

Symmetry == Permutations(RifOid) \cup Permutations(BrpOid)
=============================================================================
