------------------------------ MODULE MCNdiIpmc ------------------------------
EXTENDS NdiIpmc, TLC
CONSTANTS g1, g2, i1, i2, o1, e1, e2, p1, p2

Lists == [rpf |-> {{p1}}, ipmc |-> {{p1}, {p2}}]
Symmetry == Permutations(Group) \cup Permutations(Iif) \cup Permutations(Entry)
=============================================================================
