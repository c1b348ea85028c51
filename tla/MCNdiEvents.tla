----------------------------- MODULE MCNdiEvents -----------------------------
(* An instance of NdiEvents for TLC. *)
EXTENDS NdiEvents

CONSTANTS s1, s2, w1

MCHwPort == 0 .. 2
MCCpuPort == 0
=============================================================================
