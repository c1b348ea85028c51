----------------------------- MODULE MCNdiFlood -----------------------------
EXTENDS NdiFlood, TLC
CONSTANTS s1, s2, b1, g1, g2

Symmetry == Permutations(SubPort) \cup Permutations(Group)
=============================================================================
