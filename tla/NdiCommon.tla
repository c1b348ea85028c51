------------------------------ MODULE NdiCommon ------------------------------
(***************************************************************************)
(* What the modules of router interfaces, tunnels, mirroring, ACL and QoS  *)
(* share: the value of what is absent, and picking from a list.            *)
(***************************************************************************)
EXTENDS Integers, Sequences

CONSTANT None

\* The elements of s that are in S, in their order: SelectSeq with the test as
\* a set, so that lemmas can be stated of it.
Only(s, S) ==
    LET picked[i \in 0 .. Len(s)] ==
            IF i = 0 THEN <<>>
            ELSE IF s[i] \in S THEN Append(picked[i - 1], s[i])
                 ELSE picked[i - 1]
    IN  picked[Len(s)]
=============================================================================
