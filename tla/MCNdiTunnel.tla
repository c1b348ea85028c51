----------------------------- MODULE MCNdiTunnel -----------------------------
EXTENDS NdiTunnel, TLC
CONSTANTS e1, e2, b1, b2, v1, v2

AnyPort == {"port"} \X (1 .. MaxOid)
Symmetry == Permutations(Endpoint) \cup Permutations(Bridge) \cup Permutations(Vni)
=============================================================================
