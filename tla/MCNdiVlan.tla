----------------------------- MODULE MCNdiVlan ------------------------------
(* Instances of NdiVlan for TLC. *)
EXTENDS NdiVlan, TLC

CONSTANTS v1, v2, v3, o1, o2, o3, p1, p2, b1, b2, b3,
          m1, m2, m3, m4, tagged, untagged, a1, c1, c2

\* Both ports are there at the start.
MCBootBrport == p1 :> b1 @@ p2 :> b2
Symmetry == Permutations(Member)
=============================================================================
