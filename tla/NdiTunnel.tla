------------------------------ MODULE NdiTunnel ------------------------------
(***************************************************************************)
(* VXLAN remote endpoints: nas_ndi_add_remote_endpoint and                 *)
(* nas_ndi_remove_remote_endpoint (nas_ndi_tunnel.cpp) over the tunnel     *)
(* objects of nas_ndi_tunnel_map.cpp and nas_ndi_tunnel_obj.cpp.           *)
(*                                                                         *)
(* An endpoint (the pair of a remote and a local address) has a tunnel in  *)
(* SAI, built from two maps, the tunnel and a termination entry, and on    *)
(* each bridge it serves an entry in each map and a bridge port.  A call   *)
(* makes or removes them one after the other; it holds _tun_lock to its    *)
(* end, so that there is one call at a time, and each of its steps is one  *)
(* SAI call and the change of the tunnel object that follows it.           *)
(***************************************************************************)
EXTENDS Integers, Sequences, FiniteSetsExt, NdiCommon

CONSTANTS
    Endpoint, Bridge, Vni,
    MaxOid,      \* the number of objects of a kind SAI has room for
    CreateFails, \* the kinds of objects SAI may fail to create
    RemoveFails, \* the kinds of objects SAI may fail to remove
    Garbage      \* bridge ports an uninitialised sai_object_id_t may name

Basic == {"encap_map", "decap_map", "tunnel", "term"}
Member == {"encap_entry", "decap_entry", "port"}
Kind == Basic \cup Member
Oid == Kind \X (1 .. MaxOid)

SaiObject == [ep : Endpoint \cup {None}, bridge : Bridge \cup {None},
              vni : Vni \cup {None}, uses : SUBSET Oid]

\* TunnelObj: the objects of the tunnel itself and, for each bridge, the VNI and
\* the object in encap_map, decap_map and tunnel_bridge_ports.
TunnelEntry == [vni : Vni, oid : Oid]
TunnelObj == [oid : [Basic -> Oid], at : [Member -> [Bridge -> {None} \cup TunnelEntry]]]

ASSUME TunnelAssumption ==
    /\ None \notin Endpoint \cup Bridge \cup Vni \cup Oid
    /\ None \notin SaiObject \cup TunnelEntry \cup TunnelObj
    /\ MaxOid \in Nat
    /\ CreateFails \subseteq Kind
    /\ RemoveFails \subseteq Kind
    /\ Garbage \subseteq {"port"} \X (1 .. MaxOid)

VARIABLES
    sai,    \* the objects in SAI: what each is for and the objects it uses
    objs,   \* nas_ndi_tunnel_obj_map: endpoint -> TunnelObj
    call,   \* the call that holds _tun_lock
    left,   \* history: objects SAI failed to remove in a roll-back
    broken  \* history: endpoints whose tunnel SAI failed to remove in part

tunnelVars == <<sai, objs, call, left, broken>>

-----------------------------------------------------------------------------
(* SAI.                                                                    *)

InUse(o) == \E x \in Oid : sai[x] # None /\ o \in sai[x].uses

\* What tells objects of a kind apart: the decap map is looked up by VNI, the
\* encap map by bridge.
ObjectKey(k, x) == CASE k = "term" -> <<x.ep>>
                     [] k = "decap_entry" -> <<x.uses, x.vni>>
                     [] k \in {"encap_entry", "port"} -> <<x.uses, x.bridge>>

Clash(k, x) == /\ k \in {"term"} \cup Member
               /\ \E n \in 1 .. MaxOid : /\ sai[<<k, n>>] # None
                                         /\ ObjectKey(k, sai[<<k, n>>]) = ObjectKey(k, x)

-----------------------------------------------------------------------------
(* Tunnel objects.                                                         *)

NewTunnelObj(made) ==
    [oid |-> [k \in Basic |-> made[k]],
     at  |-> [m \in Member |-> [b \in Bridge |-> None]]]

\* TunnelObj::_get.
At(e, m, b) == objs[e].at[m][b]

\* TunnelObj::_insert refuses a bridge that is there, TunnelObj::_remove one
\* that is not.
Inserted(e, m, b, v, o) == [objs EXCEPT ![e].at[m][b] = [vni |-> v, oid |-> o]]
Erased(e, ms, b) ==
    [objs EXCEPT ![e].at = [m \in Member |-> IF m \in ms THEN [@[m] EXCEPT ![b] = None]
                                                        ELSE @[m]]]

OnRecord(o) ==
    \E e \in Endpoint :
        /\ objs[e] # None
        /\ \/ \E k \in Basic : objs[e].oid[k] = o
           \/ \E m \in Member, b \in Bridge : At(e, m, b) # None /\ At(e, m, b).oid = o

Idle == [pc |-> "idle", ep |-> None, bridge |-> None, vni |-> None,
         made |-> [k \in Kind |-> None], todo |-> <<>>]

TunnelInit ==
    /\ sai = [o \in Oid |-> None]
    /\ objs = [e \in Endpoint |-> None]
    /\ call = Idle
    /\ left = {}
    /\ broken = {}

-----------------------------------------------------------------------------
(* nas_ndi_add_remote_endpoint: ndi_handle_tunnel_creation and, for the    *)
(* first bridge of an endpoint, ndi_create_tunnel_basic_entries.           *)

AddEndpoint(e, b, v) ==
    /\ call = Idle
    /\ call' = [Idle EXCEPT !.pc = IF objs[e] = None THEN "encap_map" ELSE "decap_entry",
                            !.ep = e, !.bridge = b, !.vni = v]
    /\ UNCHANGED <<sai, objs, left, broken>>

\* The objects an object of kind k is made over.
Uses(k) ==
    LET over == CASE k \in {"encap_map", "decap_map"} -> {}
                  [] k = "tunnel"                     -> {"encap_map", "decap_map"}
                  [] k \in {"term", "port"}           -> {"tunnel"}
                  [] k = "encap_entry"                -> {"encap_map"}
                  [] k = "decap_entry"                -> {"decap_map"}
    IN  IF k \in Basic THEN {call.made[u] : u \in over}
                       ELSE {objs[call.ep].oid[u] : u \in over}

Wanted(k) == [ep     |-> IF k = "term" THEN call.ep ELSE None,
              bridge |-> IF k \in Member THEN call.bridge ELSE None,
              vni    |-> IF k \in {"encap_entry", "decap_entry"} THEN call.vni ELSE None,
              uses   |-> Uses(k)]

\* SAI does not give out an id NDI has on record.  Ids are only compared: the
\* least one stands for all.
FreeOids(k) == {n \in 1 .. MaxOid : sai[<<k, n>>] = None /\ ~OnRecord(<<k, n>>)}
NewOid(k) == <<k, Min(FreeOids(k))>>

SaiMakes(k) == /\ FreeOids(k) # {}
               /\ \A u \in Uses(k) : sai[u] # None
               /\ ~Clash(k, Wanted(k))

After(k) == CASE k = "encap_map"   -> "decap_map"
              [] k = "decap_map"   -> "tunnel"
              [] k = "tunnel"      -> "term"
              [] k = "term"        -> "decap_entry"
              [] k = "decap_entry" -> "encap_entry"
              [] k = "encap_entry" -> "port"
              [] k = "port"        -> "idle"

\* Mutant: the entry made first is forgotten.
RollbackEncapOnly(k) == IF k \in Basic THEN <<"encap_map", "decap_map", "term", "tunnel">>
                                       ELSE <<"encap_entry">>

\* The roll-back of each function removes what the call has made, maps before
\* the tunnel that uses them.
RollbackOrder(k) == IF k \in Basic THEN <<"encap_map", "decap_map", "term", "tunnel">>
                                   ELSE <<"encap_entry", "decap_entry">>

\* The call goes on with what it has made, or rolls it back.
RollBack(k, made) ==
    LET todo == Only(RollbackOrder(k), {u \in Kind : made[u] # None})
    IN  call' = IF todo = <<>> THEN Idle
                ELSE [call EXCEPT !.pc = "rollback", !.made = made, !.todo = todo]

GoOn(k, made) == call' = IF After(k) = "idle" THEN Idle
                         ELSE [call EXCEPT !.pc = After(k), !.made = made]

\* Mutant: an entry that is there is overwritten.
PutOver(k, o) ==
    LET made == [call.made EXCEPT ![k] = o]
    IN  /\ GoOn(k, made)
        /\ objs' = IF k = "term" THEN [objs EXCEPT ![call.ep] = NewTunnelObj(made)]
                   ELSE IF k \in Member THEN Inserted(call.ep, k, call.bridge, call.vni, o)
                   ELSE objs

\* The tunnel object takes the new object o.  An entry of the bridge that is
\* there already ends the call (what it erases by VNI is not there).
PutOnRecord(k, o) ==
    LET made == [call.made EXCEPT ![k] = o]
    IN  \/ /\ k \in Basic \ {"term"}
           /\ GoOn(k, made)
           /\ UNCHANGED objs
        \/ /\ k = "term"
           /\ GoOn(k, made)
           /\ objs' = [objs EXCEPT ![call.ep] = NewTunnelObj(made)]
        \/ /\ k \in Member
           /\ At(call.ep, k, call.bridge) = None
           /\ GoOn(k, made)
           /\ objs' = Inserted(call.ep, k, call.bridge, call.vni, o)
        \/ /\ k \in Member
           /\ At(call.ep, k, call.bridge) # None
           /\ RollBack(k, made)
           /\ UNCHANGED objs

Create(k) ==
    /\ call.pc = k
    /\ SaiMakes(k)
    /\ sai' = [sai EXCEPT ![NewOid(k)] = Wanted(k)]
    /\ PutOnRecord(k, NewOid(k))
    /\ UNCHANGED <<left, broken>>

CreateFailed(k) ==
    /\ call.pc = k
    /\ ~SaiMakes(k) \/ k \in CreateFails
    /\ RollBack(k, call.made)
    /\ UNCHANGED <<sai, objs, left, broken>>

\* ndi_create_bridge_port could not set the new bridge port up, nor remove it.
PortLeft ==
    /\ call.pc = "port"
    /\ "port" \in CreateFails \cap RemoveFails
    /\ SaiMakes("port")
    /\ sai' = [sai EXCEPT ![NewOid("port")] = Wanted("port")]
    /\ left' = left \cup {NewOid("port")}
    /\ RollBack("port", call.made)
    /\ UNCHANGED <<objs, broken>>

Turn == Head(call.todo)
Doomed == call.made[Turn]
Removable == sai[Doomed] # None /\ ~InUse(Doomed)

\* A roll-back goes on whether or not SAI removes the object.
RollbackStep ==
    /\ call.pc = "rollback"
    /\ call' = IF Len(call.todo) = 1 THEN Idle ELSE [call EXCEPT !.todo = Tail(@)]
    /\ \/ /\ Removable
          /\ sai' = [sai EXCEPT ![Doomed] = None]
          /\ UNCHANGED left
       \/ /\ Turn \in RemoveFails
          /\ left' = left \cup {Doomed}
          /\ UNCHANGED sai
       \/ /\ ~Removable
          /\ UNCHANGED <<sai, left>>
    /\ UNCHANGED <<objs, broken>>

-----------------------------------------------------------------------------
(* nas_ndi_remove_remote_endpoint and ndi_delete_basic_tunnel_entry.       *)

\* The bridge port goes first: if SAI refuses it nothing has changed, and that
\* is no step.  Where the endpoint has no bridge port on the bridge the id is
\* one that was never set.  Without all three entries the call ends there.
RemoveEndpoint(e, b) ==
    /\ call = Idle
    /\ objs[e] # None
    /\ \E p \in IF At(e, "port", b) # None THEN {At(e, "port", b).oid} ELSE Garbage :
          /\ sai[p] # None
          /\ sai' = [sai EXCEPT ![p] = None]
          /\ left' = left \ {p}
    /\ objs' = Erased(e, {"port"}, b)
    /\ call' = IF \A m \in Member : At(e, m, b) # None
               THEN [Idle EXCEPT !.pc = "remove", !.ep = e, !.bridge = b,
                                 !.made = [k \in Kind |-> IF k \in Basic THEN objs[e].oid[k]
                                                          ELSE At(e, k, b).oid],
                                 !.todo = <<"encap_entry", "decap_entry">>]
               ELSE Idle
    /\ UNCHANGED broken

LastPort(e) == \A b \in Bridge : At(e, "port", b) = None

\* Both entries are gone from SAI: they leave the object and, with the last
\* bridge, the tunnel follows.
EntriesRemoved ==
    /\ objs' = Erased(call.ep, {"encap_entry", "decap_entry"}, call.bridge)
    /\ call' = IF LastPort(call.ep)
               THEN [call EXCEPT !.pc = "remove_basic",
                                 !.todo = <<"term", "tunnel", "decap_map", "encap_map">>]
               ELSE Idle
    /\ UNCHANGED broken

TunnelRemoved ==
    /\ objs' = [objs EXCEPT ![call.ep] = None]
    /\ call' = Idle
    /\ broken' = broken \ {call.ep}

RemoveStep ==
    /\ call.pc \in {"remove", "remove_basic"}
    /\ Removable
    /\ sai' = [sai EXCEPT ![Doomed] = None]
    /\ \/ /\ Len(call.todo) > 1
          /\ call' = [call EXCEPT !.todo = Tail(@)]
          /\ UNCHANGED <<objs, broken>>
       \/ Len(call.todo) = 1 /\ call.pc = "remove" /\ EntriesRemoved
       \/ Len(call.todo) = 1 /\ call.pc = "remove_basic" /\ TunnelRemoved
    /\ left' = left \ {Doomed}

\* The call ends where SAI fails; what it has removed stays on record.
RemoveStuck ==
    /\ call.pc \in {"remove", "remove_basic"}
    /\ ~Removable \/ Turn \in RemoveFails
    /\ broken' = IF call.pc = "remove_basic" THEN broken \cup {call.ep} ELSE broken
    /\ call' = Idle
    /\ UNCHANGED <<sai, objs, left>>

-----------------------------------------------------------------------------
TunnelNext ==
    \/ \E e \in Endpoint, b \in Bridge, v \in Vni : AddEndpoint(e, b, v)
    \/ \E k \in Kind : Create(k) \/ CreateFailed(k)
    \/ PortLeft
    \/ RollbackStep
    \/ \E e \in Endpoint, b \in Bridge : RemoveEndpoint(e, b)
    \/ RemoveStep
    \/ RemoveStuck

TunnelSpec == TunnelInit /\ [][TunnelNext]_tunnelVars

-----------------------------------------------------------------------------
(* Properties.                                                             *)

\* The table holds objects of SAI under ids of their kind, and a call knows
\* the objects it is to remove.
TunnelTypeOK ==
    /\ sai \in [Oid -> SaiObject \cup {None}]
    /\ objs \in [Endpoint -> {None} \cup TunnelObj]
    /\ call \in [pc : Kind \cup {"idle", "rollback", "remove", "remove_basic"},
                 ep : Endpoint \cup {None}, bridge : Bridge \cup {None},
                 vni : Vni \cup {None}, made : [Kind -> Oid \cup {None}], todo : Seq(Kind)]
    /\ left \subseteq Oid
    /\ broken \subseteq Endpoint

Holds(o, uses, b, v) == /\ sai[o] # None
                        /\ sai[o].uses = uses /\ sai[o].bridge = b /\ sai[o].vni = v

\* An endpoint that has its bridge port on a bridge carries traffic there: its
\* tunnel is in SAI over its two maps, each map has the entry of the bridge,
\* for one and the same VNI, and packets are terminated on the tunnel, unless
\* SAI has failed to remove that tunnel before.
PortsCarryTraffic ==
    \A e \in Endpoint, b \in Bridge :
        objs[e] # None /\ At(e, "port", b) # None =>
            LET oid == objs[e].oid
                v == At(e, "port", b).vni
            IN  /\ Holds(oid["tunnel"], {oid["encap_map"], oid["decap_map"]}, None, None)
                /\ \A m \in {"encap_entry", "decap_entry"} : At(e, m, b) # None
                /\ Holds(At(e, "encap_entry", b).oid, {oid["encap_map"]}, b, v)
                /\ Holds(At(e, "decap_entry", b).oid, {oid["decap_map"]}, b, v)
                /\ e \notin broken => Holds(oid["term"], {oid["tunnel"]}, None, None)

\* Between calls, every tunnel, termination entry, map entry and tunnel bridge
\* port in SAI is on record, where a removal finds it, except those SAI failed
\* to remove in a roll-back.
NothingStray ==
    call = Idle => \A o \in Oid \ left :
        sai[o] # None /\ o[1] \notin {"encap_map", "decap_map"} => OnRecord(o)

\* The comment on the tunnel object: bridge and VNI are unique in it, there is
\* one entry for the two.  So no VNI is on record for two bridges.  The code
\* breaks this: a roll-back leaves the entries of a failed add on record.
VniUnique ==
    \A e \in Endpoint, b, c \in Bridge :
        /\ objs[e] # None
        /\ b # c
        /\ At(e, "decap_entry", b) # None /\ At(e, "decap_entry", c) # None
        => At(e, "decap_entry", b).vni # At(e, "decap_entry", c).vni
=============================================================================
