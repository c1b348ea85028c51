------------------------------ MODULE NdiVlan -------------------------------
(***************************************************************************)
(* VLANs and their members (nas_ndi_vlan.cpp): the VLAN table, the two     *)
(* maps of the virtual object cache and the member list in nas_ndi_map,    *)
(* against the VLANs and VLAN members in SAI; and the bridge ports the     *)
(* members sit on, whose deletion takes them out of the default VLAN       *)
(* (nas_ndi_bridge.cpp).                                                   *)
(*                                                                         *)
(* Vlanner configures VLANs; Porter threads create and delete bridge       *)
(* ports, as ports come and go and as they join and leave a LAG.  A port   *)
(* here is a port or a LAG.  A step is one SAI call or one operation of a  *)
(* table.                                                                  *)
(***************************************************************************)
EXTENDS Integers, Sequences, FiniteSets

CONSTANTS
    Vid,         \* VLAN numbers
    Vlan,        \* object ids of VLANs
    BootVid,     \* the number the default VLAN has at the start ...
    BootVlan,    \*   ... and the VLAN SAI starts with
    Port, Brport,
    Member,      \* object ids of VLAN members
    Mode,        \* tagging modes
    BootMode,    \* the mode of the members SAI makes itself
    Null,        \* SAI_NULL_OBJECT_ID
    Vlanner, Porter,
    Managed,     \* the VLANs whose members the callers configure
    Defaultable, \* the VLANs that may be made the default
    BootBrport,  \* the bridge port each port has at the start, or Null
    Garbage,     \* what an entry of a list nobody filled may hold
    MayFail      \* the SAI calls that may fail in this instance

Thread == Vlanner \cup Porter

ASSUME VlanAssumption ==
    /\ BootVid \in Vid /\ BootVlan \in Vlan /\ BootMode \in Mode
    /\ Null \notin Vid \cup Vlan \cup Port \cup Brport \cup Member \cup Mode
    /\ Managed \subseteq Vid /\ Defaultable \subseteq Vid
    /\ BootBrport \in [Port -> Brport \cup {Null}]
    /\ \A p, q \in Port : BootBrport[p] = BootBrport[q] => p = q \/ BootBrport[p] = Null
    /\ Vlanner \cap Porter = {} /\ Garbage \subseteq Member
    /\ MayFail \subseteq {"create_vlan", "remove_vlan", "create_member", "set_member",
                          "remove_member", "remove_brport"}

ASSUME NullAssumption == Null \notin Vlan \X Brport \X Mode

VARIABLES
    vlans,      \* the VLANs in SAI: object -> number
    members,    \* the VLAN members in SAI: object -> <<VLAN, bridge port, mode>>
    brports,    \* the 1Q bridge ports in SAI: object -> port
    brCache,    \* _port_to_brport_blk: port -> bridge port
    vlanMap,    \* g_ndi_vlan_map: number -> VLAN
    vidObj,     \* _vid_to_obj_map: number -> VLAN
    objVid,     \* _obj_to_vid_map: VLAN -> number
    cache,      \* NAS_NDI_MAP_TYPE_VLAN_MEMBER_ID: number, port -> <<member, mode>>
    defaultVid, \* default_vlan_id
    th          \* the threads

vars == <<vlans, members, brports, brCache, vlanMap, vidObj, objVid, cache, defaultVid, th>>
ports == <<brports, brCache>>
tables == <<vlanMap, vidObj, objVid, defaultVid>>

-----------------------------------------------------------------------------
(* State formulae.                                                         *)

Idle == [pc |-> "idle", vid |-> Null, vlan |-> Null, port |-> Null, brport |-> Null,
         mode |-> Null, member |-> Null, n |-> 0, todo |-> {}]

InVlan(o)   == {m \in Member : members[m] # Null /\ members[m][1] = o}
OnBrport(b) == {m \in Member : members[m] # Null /\ members[m][2] = b}

\* ndi_get_vlan_member_info_from_cache: one value, or the port is not found.
Found(v, p) == Len(cache[<<v, p>>]) = 1
Cached(v, p) == cache[<<v, p>>][1]

\* An object SAI may hand out: not in use, and not in the hands of a call.
FreshVlan(o) == vlans[o] = Null /\ \A t \in Thread : th[t].vlan # o
FreshMember(m) == members[m] = Null /\ \A t \in Thread : th[t].member # m /\ m \notin th[t].todo
FreshBrport(b) == brports[b] = Null /\ \A t \in Thread : th[t].brport # b

\* Thread t goes on with the fields of r changed.
Step(t, r) == th' = [th EXCEPT ![t] = r]
Goto(t, pc) == th' = [th EXCEPT ![t].pc = pc]
Return(t) == th' = [th EXCEPT ![t] = Idle]

\* ndi_vlan_get_default_obj_id has run; SAI has put the ports it started with
\* into its VLAN, and the cache of members does not know.
Init ==
    LET boot == {p \in Port : BootBrport[p] # Null}
    IN  /\ vlans = [o \in Vlan |-> IF o = BootVlan THEN BootVid ELSE Null]
        /\ brports = [b \in Brport |-> IF \E p \in boot : BootBrport[p] = b
                                       THEN CHOOSE p \in boot : BootBrport[p] = b
                                       ELSE Null]
        /\ brCache = BootBrport
        /\ members \in [Member -> {Null} \cup ({BootVlan} \X Brport \X {BootMode})]
        /\ \A b \in Brport : Cardinality(OnBrport(b)) = IF brports[b] = Null THEN 0 ELSE 1
        /\ vlanMap = [v \in Vid |-> IF v = BootVid THEN BootVlan ELSE Null]
        /\ vidObj = vlanMap
        /\ objVid = vlans
        /\ cache = [k \in Vid \X Port |-> <<>>]
        /\ defaultVid = BootVid
        /\ th = [t \in Thread |-> Idle]

-----------------------------------------------------------------------------
(* ndi_create_vlan and ndi_set_default_vlan_id.                            *)

\* A VLAN that is known is left alone: no step.
CreateVlan(t, v) ==
    /\ th[t].pc = "idle"
    /\ vlanMap[v] = Null
    /\ Step(t, [Idle EXCEPT !.pc = "create_vlan", !.vid = v])
    /\ UNCHANGED <<vlans, members, ports, tables, cache>>

SetDefaultVlan(t, v) ==
    /\ th[t].pc = "idle"
    /\ v \in Defaultable
    /\ defaultVid' = v
    /\ Step(t, IF vlanMap[v] = Null THEN [Idle EXCEPT !.pc = "create_vlan", !.vid = v]
                                    ELSE Idle)
    /\ UNCHANGED <<vlans, members, ports, vlanMap, vidObj, objVid, cache>>

CreateVlanSai(t) ==
    /\ th[t].pc = "create_vlan"
    /\ \/ \E o \in Vlan :
             /\ FreshVlan(o) /\ \A u \in Vlan : vlans[u] # th[t].vid
             /\ vlans' = [vlans EXCEPT ![o] = th[t].vid]
             /\ Step(t, [th[t] EXCEPT !.pc = "create_map", !.vlan = o])
       \/ /\ "create_vlan" \in MayFail \/ \E u \in Vlan : vlans[u] = th[t].vid
          /\ Return(t)
          /\ UNCHANGED vlans
    /\ UNCHANGED <<members, ports, tables, cache>>

\* ndi_add_sai_vlan_obj_id, which does not replace an entry.
CreateVlanMap(t) ==
    LET v == th[t].vid
    IN  /\ th[t].pc = "create_map"
        /\ IF vlanMap[v] = Null
           THEN /\ vlanMap' = [vlanMap EXCEPT ![v] = th[t].vlan]
                /\ Goto(t, "create_virtual")
           ELSE Return(t) /\ UNCHANGED vlanMap
        /\ UNCHANGED <<vlans, members, ports, vidObj, objVid, defaultVid, cache>>

\* add_virtual_obj: both maps, under one lock.
CreateVlanVirtual(t) ==
    /\ th[t].pc = "create_virtual"
    /\ vidObj' = [vidObj EXCEPT ![th[t].vid] = th[t].vlan]
    /\ objVid' = [objVid EXCEPT ![th[t].vlan] = th[t].vid]
    /\ Return(t)
    /\ UNCHANGED <<vlans, members, ports, vlanMap, defaultVid, cache>>

-----------------------------------------------------------------------------
(* ndi_delete_vlan.                                                        *)

DeleteVlan(t, v) ==
    /\ th[t].pc = "idle"
    /\ vlanMap[v] # Null
    /\ Step(t, [Idle EXCEPT !.pc = "delete_vlan", !.vid = v, !.vlan = vlanMap[v]])
    /\ UNCHANGED <<vlans, members, ports, tables, cache>>

\* remove_vlan, refused while it has members and for the VLAN SAI started with.
DeleteVlanSai(t) ==
    LET o == th[t].vlan
        allowed == vlans[o] # Null /\ InVlan(o) = {} /\ o # BootVlan
    IN  /\ th[t].pc = "delete_vlan"
        /\ \/ /\ allowed
              /\ vlans' = [vlans EXCEPT ![o] = Null]
              /\ Goto(t, "delete_map")
           \/ /\ ~allowed \/ "remove_vlan" \in MayFail
              /\ Return(t)
              /\ UNCHANGED vlans
        /\ UNCHANGED <<members, ports, tables, cache>>

DeleteVlanMap(t) ==
    LET v == th[t].vid
    IN  /\ th[t].pc = "delete_map"
        /\ vlanMap' = [vlanMap EXCEPT ![v] = Null]
        /\ IF vlanMap[v] # Null THEN Goto(t, "delete_virtual") ELSE Return(t)
        /\ UNCHANGED <<vlans, members, ports, vidObj, objVid, defaultVid, cache>>

\* Mutant: the number is forgotten, the object is not.
DeleteVlanVirtualVid(t) ==
    /\ th[t].pc = "delete_virtual"
    /\ vidObj' = [vidObj EXCEPT ![th[t].vid] = Null]
    /\ Return(t)
    /\ UNCHANGED <<vlans, members, ports, vlanMap, objVid, defaultVid, cache>>

\* remove_virtual_obj: the number is the one the object has in the cache.
DeleteVlanVirtual(t) ==
    LET o == th[t].vlan
    IN  /\ th[t].pc = "delete_virtual"
        /\ IF objVid[o] = Null
           THEN UNCHANGED <<vidObj, objVid>>
           ELSE /\ vidObj' = [vidObj EXCEPT ![objVid[o]] = Null]
                /\ objVid' = [objVid EXCEPT ![o] = Null]
        /\ Return(t)
        /\ UNCHANGED <<vlans, members, ports, vlanMap, defaultVid, cache>>

-----------------------------------------------------------------------------
(* ndi_add_port_to_vlan, for each port of ndi_add_or_del_ports_to_vlan and *)
(* each LAG of ndi_add_lag_to_vlan, which look at the VLAN first.          *)

AddPort(t, v, p, mode) ==
    /\ th[t].pc = "idle"
    /\ v \in Managed /\ vlanMap[v] # Null
    /\ Step(t, [Idle EXCEPT !.pc = "add_get", !.vid = v, !.port = p, !.mode = mode])
    /\ UNCHANGED <<vlans, members, ports, tables, cache>>

\* Return OK if port is already added and in same tagging mode.
AddGet(t) ==
    LET v == th[t].vid
        p == th[t].port
    IN  /\ th[t].pc = "add_get"
        /\ \/ ~Found(v, p) /\ Goto(t, "add_vlan")
           \/ /\ Found(v, p)
              /\ Step(t, [th[t] EXCEPT
                    !.member = Cached(v, p)[1],
                    !.pc = IF Cached(v, p)[2] = th[t].mode THEN "added" ELSE "set_mode"])
        /\ UNCHANGED <<vlans, members, ports, tables, cache>>

AddVlan(t) ==
    /\ th[t].pc = "add_vlan"
    /\ Step(t, [th[t] EXCEPT !.pc = "add_brport", !.vlan = vlanMap[th[t].vid]])
    /\ UNCHANGED <<vlans, members, ports, tables, cache>>

AddBrport(t) ==
    LET b == brCache[th[t].port]
    IN  /\ th[t].pc = "add_brport"
        /\ IF b = Null THEN Return(t)
                       ELSE Step(t, [th[t] EXCEPT !.pc = "add_member", !.brport = b])
        /\ UNCHANGED <<vlans, members, ports, tables, cache>>

\* create_vlan_member: SAI knows both objects, and the second is no member.
AddMember(t) ==
    LET o == th[t].vlan
        b == th[t].brport
        allowed == /\ o # Null /\ vlans[o] # Null /\ brports[b] # Null
                   /\ InVlan(o) \cap OnBrport(b) = {}
    IN  /\ th[t].pc = "add_member"
        /\ \/ /\ allowed
              /\ \E m \in Member :
                    /\ FreshMember(m)
                    /\ members' = [members EXCEPT ![m] = <<o, b, th[t].mode>>]
                    /\ Step(t, [th[t] EXCEPT !.pc = "cache_get", !.member = m])
           \/ /\ ~allowed \/ "create_member" \in MayFail
              /\ Return(t)
              /\ UNCHANGED members
        /\ UNCHANGED <<vlans, ports, tables, cache>>

\* set_vlan_member_attribute.
SetMode(t) ==
    LET m == th[t].member
    IN  /\ th[t].pc = "set_mode"
        /\ \/ /\ members[m] # Null
              /\ members' = [members EXCEPT ![m] = <<@[1], @[2], th[t].mode>>]
              /\ Goto(t, "cache_get")
           \/ /\ members[m] = Null \/ "set_member" \in MayFail
              /\ Return(t)
              /\ UNCHANGED members
        /\ UNCHANGED <<vlans, ports, tables, cache>>

\* ndi_add_vlan_member_to_cache: what is there in the other mode is deleted
\* first, and inserted again in a step of its own.
CacheGet(t) ==
    LET v == th[t].vid
        p == th[t].port
    IN  /\ th[t].pc = "cache_get"
        /\ Goto(t, IF ~Found(v, p) THEN "cache_insert"
                   ELSE IF Cached(v, p)[2] # th[t].mode THEN "cache_delete" ELSE "added")
        /\ UNCHANGED <<vlans, members, ports, tables, cache>>

\* Mutant: the entry in the other mode is not deleted first.
CacheDeleteSkipped(t) ==
    /\ th[t].pc = "cache_delete"
    /\ Goto(t, "cache_insert")
    /\ UNCHANGED <<vlans, members, ports, tables, cache>>

CacheDelete(t) ==
    /\ th[t].pc = "cache_delete"
    /\ cache' = [cache EXCEPT ![<<th[t].vid, th[t].port>>] = <<>>]
    /\ Goto(t, "cache_insert")
    /\ UNCHANGED <<vlans, members, ports, tables>>

CacheInsert(t) ==
    /\ th[t].pc = "cache_insert"
    /\ cache' = [cache EXCEPT ![<<th[t].vid, th[t].port>>] =
                    Append(@, <<th[t].member, th[t].mode>>)]
    /\ Goto(t, "added")
    /\ UNCHANGED <<vlans, members, ports, tables>>

\* The call returns OK.
AddReturns(t) ==
    /\ th[t].pc = "added"
    /\ Return(t)
    /\ UNCHANGED <<vlans, members, ports, tables, cache>>

-----------------------------------------------------------------------------
(* ndi_del_port_from_vlan.  A port the cache does not know ends the call.  *)

DelPort(t, v, p) ==
    /\ th[t].pc = "idle"
    /\ v \in Managed /\ vlanMap[v] # Null
    /\ Found(v, p)
    /\ Step(t, [Idle EXCEPT !.pc = "del_member", !.vid = v, !.port = p,
                            !.member = Cached(v, p)[1]])
    /\ UNCHANGED <<vlans, members, ports, tables, cache>>

DelMember(t) ==
    LET m == th[t].member
    IN  /\ th[t].pc = "del_member"
        /\ \/ /\ members[m] # Null
              /\ members' = [members EXCEPT ![m] = Null]
              /\ Goto(t, "del_cache")
           \/ /\ members[m] = Null \/ "remove_member" \in MayFail
              /\ Return(t)
              /\ UNCHANGED members
        /\ UNCHANGED <<vlans, ports, tables, cache>>

DelCache(t) ==
    /\ th[t].pc = "del_cache"
    /\ cache' = [cache EXCEPT ![<<th[t].vid, th[t].port>>] = <<>>]
    /\ Return(t)
    /\ UNCHANGED <<vlans, members, ports, tables>>

-----------------------------------------------------------------------------
(* ndi_vlan_delete_default_member_brports: takes a bridge port, or all of  *)
(* them, out of the default VLAN, in SAI alone.                            *)

\* ndi_del_new_member_from_default_vlan for all the members.
DelAllFromDefault(t) ==
    /\ th[t].pc = "idle"
    /\ Step(t, [Idle EXCEPT !.pc = "default_vlan"])
    /\ UNCHANGED <<vlans, members, ports, tables, cache>>

\* ndi_delete_bridge_port, once the STP ports are gone (NdiStg), under
\* _stp_member_mutex: one at a time.
DeleteBridgePort(t, p) ==
    /\ th[t].pc = "idle"
    /\ brCache[p] # Null
    /\ \A u \in Porter : th[u].brport = Null \/ th[u].pc = "new_cache"
    /\ Step(t, [Idle EXCEPT !.pc = "default_vlan", !.port = p, !.brport = brCache[p]])
    /\ UNCHANGED <<vlans, members, ports, tables, cache>>

\* What follows the removal from the default VLAN.
AfterDefault(t) == IF th[t].brport = Null THEN Idle
                   ELSE [Idle EXCEPT !.pc = "remove_brport", !.port = th[t].port,
                                     !.brport = th[t].brport]

DefaultVlan(t) ==
    LET o == vlanMap[defaultVid]
    IN  /\ th[t].pc = "default_vlan"
        /\ IF o = Null THEN Return(t)
                       ELSE Step(t, [th[t] EXCEPT !.pc = "default_count", !.vlan = o])
        /\ UNCHANGED <<vlans, members, ports, tables, cache>>

DefaultCount(t) ==
    LET n == Cardinality(InVlan(th[t].vlan))
    IN  /\ th[t].pc = "default_count"
        /\ Step(t, IF n = 0 THEN AfterDefault(t)
                            ELSE [th[t] EXCEPT !.pc = "default_list", !.n = n])
        /\ UNCHANGED <<vlans, members, ports, tables, cache>>

\* A list that has grown does not fit.  The loop runs to the earlier count, so
\* in one that has shrunk over entries SAI did not fill, which may name a member.
DefaultList(t) ==
    LET now == InVlan(th[t].vlan)
        spare == th[t].n - Cardinality(now)
    IN  /\ th[t].pc = "default_list"
        /\ \/ spare < 0 /\ Return(t)
           \/ \E junk \in SUBSET Garbage :
                 /\ Cardinality(junk) <= spare
                 /\ Step(t, [th[t] EXCEPT !.pc = "default_next", !.n = 0,
                                          !.todo = now \cup junk])
        /\ UNCHANGED <<vlans, members, ports, tables, cache>>

\* The next member: gone, of another bridge port, or to be removed.
DefaultNext(t) ==
    /\ th[t].pc = "default_next"
    /\ \/ th[t].todo = {} /\ Step(t, AfterDefault(t))
       \/ \E m \in th[t].todo :
             LET rest == [th[t] EXCEPT !.todo = @ \ {m}]
             IN  Step(t, IF members[m] # Null /\ th[t].brport \in {Null, members[m][2]}
                         THEN [rest EXCEPT !.pc = "default_remove", !.member = m]
                         ELSE rest)
    /\ UNCHANGED <<vlans, members, ports, tables, cache>>

\* remove_vlan_member.  A failure ends the call; one bridge port has one member.
DefaultRemove(t) ==
    LET m == th[t].member
    IN  /\ th[t].pc = "default_remove"
        /\ \/ /\ members[m] # Null
              /\ members' = [members EXCEPT ![m] = Null]
              /\ Step(t, IF th[t].brport = Null
                         THEN [th[t] EXCEPT !.pc = "default_next", !.member = Null]
                         ELSE AfterDefault(t))
           \/ /\ members[m] = Null \/ "remove_member" \in MayFail
              /\ Return(t)
              /\ UNCHANGED members
        /\ UNCHANGED <<vlans, ports, tables, cache>>

-----------------------------------------------------------------------------
(* The bridge ports.                                                       *)

\* Mutant: SAI is made to drop the members that are left.
RemoveBridgePortForced(t) ==
    LET b == th[t].brport
    IN  /\ th[t].pc = "remove_brport"
        /\ brports' = [brports EXCEPT ![b] = Null]
        /\ brCache' = [brCache EXCEPT ![th[t].port] = Null]
        /\ members' = [m \in Member |-> IF m \in OnBrport(b) THEN Null ELSE members[m]]
        /\ Return(t)
        /\ UNCHANGED <<vlans, tables, cache>>

\* remove_bridge_port, refused while it is a member of a VLAN, then the cache.
RemoveBridgePort(t) ==
    LET b == th[t].brport
        allowed == brports[b] # Null /\ OnBrport(b) = {}
    IN  /\ th[t].pc = "remove_brport"
        /\ \/ /\ allowed
              /\ brports' = [brports EXCEPT ![b] = Null]
              /\ brCache' = [brCache EXCEPT ![th[t].port] = Null]
           \/ /\ ~allowed \/ "remove_brport" \in MayFail
              /\ UNCHANGED ports
        /\ Return(t)
        /\ UNCHANGED <<vlans, members, tables, cache>>

\* ndi_create_bridge_port; what can go wrong in between is in NdiStg.
CreateBridgePort(t, p, b) ==
    /\ th[t].pc = "idle"
    /\ \A c \in Brport : brports[c] # p
    /\ FreshBrport(b)
    /\ brports' = [brports EXCEPT ![b] = p]
    /\ Step(t, [Idle EXCEPT !.pc = "new_cache", !.port = p, !.brport = b])
    /\ UNCHANGED <<vlans, members, brCache, tables, cache>>

CacheBridgePort(t) ==
    /\ th[t].pc = "new_cache"
    /\ brCache' = [brCache EXCEPT ![th[t].port] = th[t].brport]
    /\ Return(t)
    /\ UNCHANGED <<vlans, members, brports, tables, cache>>

-----------------------------------------------------------------------------
VlanStep(t) ==
    \/ \E v \in Vid : CreateVlan(t, v)
    \/ \E v \in Vid : SetDefaultVlan(t, v)
    \/ CreateVlanSai(t)
    \/ CreateVlanMap(t)
    \/ CreateVlanVirtual(t)
    \/ \E v \in Vid : DeleteVlan(t, v)
    \/ DeleteVlanSai(t)
    \/ DeleteVlanMap(t)
    \/ DeleteVlanVirtual(t)

MemberStep(t) ==
    \/ \E v \in Vid, p \in Port, mode \in Mode : AddPort(t, v, p, mode)
    \/ AddGet(t)
    \/ AddVlan(t)
    \/ AddBrport(t)
    \/ AddMember(t)
    \/ SetMode(t)
    \/ CacheGet(t)
    \/ CacheDelete(t)
    \/ CacheInsert(t)
    \/ AddReturns(t)
    \/ \E v \in Vid, p \in Port : DelPort(t, v, p)
    \/ DelMember(t)
    \/ DelCache(t)
    \/ DelAllFromDefault(t)

\* What both kinds of thread run.
DefaultStep(t) ==
    \/ DefaultVlan(t)
    \/ DefaultCount(t)
    \/ DefaultList(t)
    \/ DefaultNext(t)
    \/ DefaultRemove(t)

BrportStep(t) ==
    \/ \E p \in Port : DeleteBridgePort(t, p)
    \/ RemoveBridgePort(t)
    \/ \E p \in Port, b \in Brport : CreateBridgePort(t, p, b)
    \/ CacheBridgePort(t)

Next == \/ \E t \in Vlanner : VlanStep(t) \/ MemberStep(t)
        \/ \E t \in Porter : BrportStep(t)
        \/ \E t \in Thread : DefaultStep(t)

Spec == Init /\ [][Next]_vars

-----------------------------------------------------------------------------
(* Properties.                                                             *)

\* Every table holds objects of its kind; the values of the member cache are a
\* member and its mode, in that order.
TypeOK ==
    /\ vlans \in [Vlan -> Vid \cup {Null}]
    /\ members \in [Member -> {Null} \cup (Vlan \X Brport \X Mode)]
    /\ brports \in [Brport -> Port \cup {Null}]
    /\ brCache \in [Port -> Brport \cup {Null}]
    /\ vlanMap \in [Vid -> Vlan \cup {Null}]
    /\ vidObj \in [Vid -> Vlan \cup {Null}]
    /\ objVid \in [Vlan -> Vid \cup {Null}]
    /\ cache \in [Vid \X Port -> Seq(Member \X Mode)]
    /\ defaultVid \in Vid
    /\ \A t \in Thread : th[t].todo \subseteq Member

\* A call on VLAN v, or on port p of it, is under way.
Busy(v) == \E t \in Vlanner : th[t].vid = v
BusyPort(v, p) == \E t \in Vlanner : th[t].vid = v /\ th[t].port = p

\* The VLAN table, the two maps of the virtual object cache and SAI agree on
\* every VLAN no call is working on, through failures of SAI and reuse of
\* object ids: a MAC address learnt on a VLAN is reported under its number.
VlanTablesAgree ==
    \A v \in Vid : ~Busy(v) =>
        /\ \A o \in Vlan : /\ vlanMap[v] = o <=> vlans[o] = v
                           /\ vidObj[v] = o <=> vlans[o] = v
                           /\ objVid[o] = v <=> vlans[o] = v

\* The cache of the members of a VLAN that is not the default is exactly what
\* SAI has, whatever bridge ports are deleted and created meanwhile.
MembersAgree ==
    \A v \in Managed \ Defaultable, p \in Port : ~BusyPort(v, p) =>
        /\ Len(cache[<<v, p>>]) <= 1
        /\ Found(v, p) =>
              /\ vlanMap[v] # Null /\ brCache[p] # Null
              /\ members[Cached(v, p)[1]] = <<vlanMap[v], brCache[p], Cached(v, p)[2]>>
        /\ \A m \in Member :
              members[m] # Null /\ members[m][1] = vlanMap[v] /\ brports[members[m][2]] = p
              => Found(v, p) /\ Cached(v, p)[1] = m

\* Adding a port returns OK only if it is in the VLAN, in the mode asked for.
\* The comment in ndi_add_port_to_vlan: OK if the port is already added and in
\* the same tagging mode.
AddedIsMember ==
    \A t \in Vlanner : th[t].pc = "added" =>
        \E m \in Member :
            members[m] = <<vlanMap[th[t].vid], brCache[th[t].port], th[t].mode>>
=============================================================================
