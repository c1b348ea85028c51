--------------------------- MODULE NdiPortRegistry ---------------------------
(***************************************************************************)
(* What the port map promises to the rest of the NDI: a partial injection  *)
(* from indices to SAI objects.  A port enters the registry with an object *)
(* no other port has, and leaves it before it can get another object.      *)
(***************************************************************************)
CONSTANTS Index, Object, None

VARIABLE map        \* Index -> Object, None where no port is registered

Init == map = [i \in Index |-> None]

Register(i, o) ==
    /\ map[i] = None
    /\ \A j \in Index : map[j] # o
    /\ map' = [map EXCEPT ![i] = o]

Unregister(i) ==
    /\ map[i] # None
    /\ map' = [map EXCEPT ![i] = None]

Next == \E i \in Index : Unregister(i) \/ \E o \in Object : Register(i, o)

Spec == Init /\ [][Next]_map
=============================================================================
