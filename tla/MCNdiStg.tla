------------------------------ MODULE MCNdiStg ------------------------------
(* Instances of NdiStg for TLC. *)
EXTENDS NdiStg, TLC

CONSTANTS g0, g1, p1, p2, b1, b2, b3, s1, s2, s3, s4, a1, a2, c1, c2

\* Port p1 is there at the start, on bridge port b1.
MCBootBrport == [p \in Port |-> IF p = p1 THEN b1 ELSE Null]
Symmetry == Permutations(StpOid)
=============================================================================
