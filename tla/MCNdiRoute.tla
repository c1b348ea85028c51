----------------------------- MODULE MCNdiRoute -----------------------------
EXTENDS NdiRoute, TLC
CONSTANTS h1, h2, g1, g2, m1, m2, m3, m4, r1

Symmetry == Permutations(NextHop) \cup Permutations(Group) \cup Permutations(Member)
=============================================================================
