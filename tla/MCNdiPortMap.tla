---------------------------- MODULE MCNdiPortMap ----------------------------
(* Instances of NdiPortMap for TLC. *)
EXTENDS NdiPortMap, TLC

CONSTANTS s1, s2, s3, w1, w2, r1

MCHwPort == 0 .. 2
MCCpuPort == 0
Symmetry == Permutations(SaiPort)
=============================================================================
