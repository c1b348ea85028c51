------------------------------ MODULE MCNdiFdb ------------------------------
EXTENDS NdiFdb, TLC
CONSTANTS p1, l1, v1, m1, m2

Symmetry == Permutations(Mac)
=============================================================================
