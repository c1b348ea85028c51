------------------------------ MODULE NdiFlood ------------------------------
(***************************************************************************)
(* 1D bridges: sub-ports, L2 multicast groups and flooding                 *)
(* (nas_ndi_bridge.cpp, nas_ndi_l2mc.cpp, nas_ndi_packet.c).               *)
(*                                                                         *)
(* A bridge floods the packets of a kind to its sub-ports, to a multicast  *)
(* group or not at all.  NDI keeps the group of broadcast packets of each  *)
(* bridge, ndi_bridge_id_bcast_l2mc_id, and sends the packets the CPU      *)
(* floods into a bridge to it; and it keeps the members of groups that are *)
(* sub-ports, l2mc_grp_mem_map.                                            *)
(*                                                                         *)
(* A call that sets the flooding takes a step for each SAI attribute, and  *)
(* the threads that send packets run in between.  Any SAI call may be      *)
(* refused.  An object is named by what it is for: SAI refuses to remove   *)
(* an object in use, and a bridge or a group may be made again under the   *)
(* id of one that was deleted.                                             *)
(***************************************************************************)
EXTENDS Integers, Sequences, FiniteSets

CONSTANTS
    SubPort,  \* sub-ports: a port or a LAG with a VLAN
    Bridge,
    Group,    \* L2 multicast groups
    Packet,   \* the kinds of packets whose flooding is followed
    None,
    MaxCopies \* bound: the members in SAI of one sub-port in one group

Control == {"sub_ports", "l2mc_group", "none"}

ASSUME FloodAssumption ==
    /\ "broadcast" \in Packet /\ Packet \subseteq {"unicast", "multicast", "broadcast"}
    /\ None \notin Bridge \cup Group
    /\ MaxCopies \in Nat

VARIABLES
    bridges, \* 1D bridges in SAI
    subs,    \* sub-ports in SAI: the bridge
    cached,  \* sub-ports in _pv_to_brport_blk
    groups,  \* groups in SAI
    copies,  \* members in SAI: how many a group has of a sub-port
    l2mc,    \* l2mc_grp_mem_map: the sub-ports of each group
    ctl,     \* SAI: the flood control of each kind of packet of a bridge
    grp,     \* SAI: the flood group of each kind of packet of a bridge
    bcast,   \* ndi_bridge_id_bcast_l2mc_id
    call,    \* the flooding call under way: its steps to go
    asked,   \* history: what the last call about the broadcasts of a bridge asks for:
             \* a group (None when it disables one), "sub_ports", "none", or
             \* "refused" when SAI refused a step of it
    moved,   \* history: bridges whose record is known to be another group
    extra    \* history: groups with a sub-port added twice

vars == <<bridges, subs, cached, groups, copies, l2mc, ctl, grp, bcast, call, asked, moved, extra>>
memberVars == <<bridges, subs, cached, groups, copies, l2mc, extra>>
floodVars == <<ctl, grp, bcast, call, asked, moved>>

Idle == [br |-> None, steps |-> <<>>]

Init ==
    /\ bridges = {}
    /\ subs = [s \in SubPort |-> None]
    /\ cached = {}
    /\ groups = {}
    /\ copies = [g \in Group |-> [s \in SubPort |-> 0]]
    /\ l2mc = [g \in Group |-> {}]
    /\ ctl = [b \in Bridge |-> [k \in Packet |-> "sub_ports"]]
    /\ grp = [b \in Bridge |-> [k \in Packet |-> None]]
    /\ bcast = [b \in Bridge |-> None]
    /\ call = Idle
    /\ asked = [b \in Bridge |-> "sub_ports"]
    /\ moved = {}
    /\ extra = {}

FloodsTo(g) == \E b \in bridges, k \in Packet : grp[b][k] = g
IsMember(s) == \E g \in Group : copies[g][s] > 0
Empty(g) == \A s \in SubPort : copies[g][s] = 0

-----------------------------------------------------------------------------
(* Bridges and their sub-ports.                                            *)

\* ndi_create_bridge_1d.
CreateBridge(b) ==
    /\ b \notin bridges
    /\ bridges' = bridges \cup {b}
    /\ ctl' = [ctl EXCEPT ![b] = [k \in Packet |-> "sub_ports"]]
    /\ grp' = [grp EXCEPT ![b] = [k \in Packet |-> None]]
    /\ asked' = [asked EXCEPT ![b] = "sub_ports"]
    /\ UNCHANGED <<subs, cached, groups, copies, l2mc, bcast, call, moved, extra>>

\* ndi_delete_bridge_1d leaves the record of the flood group.
DeleteBridge(b) ==
    /\ b \in bridges /\ call.br # b
    /\ \A s \in SubPort : subs[s] # b
    /\ bridges' = bridges \ {b}
    /\ moved' = IF bcast[b] = None THEN moved ELSE moved \cup {b}
    /\ UNCHANGED <<subs, cached, groups, copies, l2mc, ctl, grp, bcast, call, asked, extra>>

\* ndi_1d_bridge_member_port_add, ndi_1d_bridge_member_lag_add.
AddSubPort(s, b) ==
    /\ b \in bridges
    /\ subs[s] = None
    /\ subs' = [subs EXCEPT ![s] = b]
    /\ cached' = cached \cup {s}
    /\ UNCHANGED <<bridges, groups, copies, l2mc, extra, floodVars>>

\* The new sub-port cannot be brought up, nor removed again: no lookup finds it.
AddSubPortStops(s, b) ==
    /\ b \in bridges
    /\ subs[s] = None
    /\ subs' = [subs EXCEPT ![s] = b]
    /\ UNCHANGED <<bridges, cached, groups, copies, l2mc, extra, floodVars>>

\* Mutant: the cache forgets the sub-port whether SAI removes it or not.
DeleteSubPortUnchecked(s) ==
    /\ s \in cached
    /\ subs' = [subs EXCEPT ![s] = IF IsMember(s) THEN @ ELSE None]
    /\ cached' = cached \ {s}
    /\ UNCHANGED <<bridges, groups, copies, l2mc, extra, floodVars>>

\* ndi_1d_bridge_member_port_delete, ndi_1d_bridge_member_lag_delete.
DeleteSubPort(s) ==
    /\ s \in cached
    /\ ~IsMember(s)
    /\ subs' = [subs EXCEPT ![s] = None]
    /\ cached' = cached \ {s}
    /\ UNCHANGED <<bridges, groups, copies, l2mc, extra, floodVars>>

-----------------------------------------------------------------------------
(* L2 multicast groups.                                                    *)

\* ndi_l2mc_group_create.
CreateGroup(g) ==
    /\ g \notin groups
    /\ groups' = groups \cup {g}
    /\ UNCHANGED <<bridges, subs, cached, copies, l2mc, extra, floodVars>>

\* ndi_l2mc_group_delete does not look at the members on record.
DeleteGroup(g) ==
    /\ g \in groups
    /\ Empty(g) /\ ~FloodsTo(g)
    /\ groups' = groups \ {g}
    /\ extra' = extra \ {g}
    /\ UNCHANGED <<bridges, subs, cached, copies, l2mc, floodVars>>

\* Mutant: a group without members has no record to add to.
AddedToKnown(g, s) == IF l2mc[g] = {} THEN l2mc ELSE [l2mc EXCEPT ![g] = @ \cup {s}]

\* _add_member_to_map.
Added(g, s) == [l2mc EXCEPT ![g] = @ \cup {s}]

\* ndi_l2mc_handle_subport_add, ndi_l2mc_handle_lagport_add: the sub-port must be
\* in the cache.  The record keeps the member it has.
AddMember(g, s) ==
    /\ g \in groups
    /\ s \in cached
    /\ copies[g][s] < MaxCopies
    /\ copies' = [copies EXCEPT ![g][s] = @ + 1]
    /\ l2mc' = Added(g, s)
    /\ extra' = IF copies[g][s] = 0 THEN extra ELSE extra \cup {g}
    /\ UNCHANGED <<bridges, subs, cached, groups, floodVars>>

\* The same, to delete: the member on record is removed from SAI, then from the
\* record.
DeleteMember(g, s) ==
    /\ s \in cached
    /\ s \in l2mc[g]
    /\ copies[g][s] > 0
    /\ copies' = [copies EXCEPT ![g][s] = @ - 1]
    /\ l2mc' = [l2mc EXCEPT ![g] = @ \ {s}]
    /\ UNCHANGED <<bridges, subs, cached, groups, extra, floodVars>>

-----------------------------------------------------------------------------
(* Flooding.                                                               *)

Step(k, what, to) == [k |-> k, what |-> what, to |-> to]

\* ndi_set_mcast_flooding: the record (of broadcast only), the group, the
\* control.  A call that disables it sets no group (None), with the same control.
McastSteps(k, g) ==
    (IF k = "broadcast" THEN <<Step(k, "record", g)>> ELSE <<>>)
        \o <<Step(k, "group", g), Step(k, "control", "l2mc_group")>>

\* ndi_set_subport_flooding.
SubPortSteps(k, on) == <<Step(k, "control", IF on THEN "sub_ports" ELSE "none")>>

\* The steps about a kind, when it is one of those that are followed.
Followed(k, steps) == IF k \in Packet THEN steps ELSE <<>>

\* ndi_flood_control_1d_bridge for packets of all kinds: a group in one order,
\* sub-ports in another.
AllByGroup(g) ==
    Followed("unicast", McastSteps("unicast", g))
        \o Followed("multicast", McastSteps("multicast", g))
        \o McastSteps("broadcast", g)
AllBySubPort(on) ==
    Followed("multicast", SubPortSteps("multicast", on))
        \o SubPortSteps("broadcast", on)
        \o Followed("unicast", SubPortSteps("unicast", on))

OfBroadcasts(steps) == \E i \in DOMAIN steps : steps[i].k = "broadcast"

Start(b, steps, asks) ==
    /\ call = Idle
    /\ b \in bridges
    /\ call' = [br |-> b, steps |-> steps]
    /\ asked' = IF OfBroadcasts(steps) THEN [asked EXCEPT ![b] = asks] ELSE asked
    /\ UNCHANGED <<memberVars, ctl, grp, bcast, moved>>

FloodToGroup(b, k, g) == Start(b, McastSteps(k, g), g)
FloodAllToGroup(b, g) == Start(b, AllByGroup(g), g)
FloodToSubPorts(b, k, on) == Start(b, SubPortSteps(k, on), IF on THEN "sub_ports" ELSE "none")
FloodAllToSubPorts(b, on) == Start(b, AllBySubPort(on), IF on THEN "sub_ports" ELSE "none")

Now == Head(call.steps)
GoOn == call' = IF Len(call.steps) = 1 THEN Idle ELSE [call EXCEPT !.steps = Tail(@)]

\* unordered_map::insert keeps the group that is there, erase removes it.
Recorded(b, g) == IF g # None /\ bcast[b] # None THEN bcast[b] ELSE g

\* The record changes under its lock, before SAI is asked.
RecordStep ==
    /\ call # Idle /\ Now.what = "record"
    /\ bcast' = [bcast EXCEPT ![call.br] = Recorded(call.br, Now.to)]
    /\ moved' = IF Now.to = None THEN moved \ {call.br}
                ELSE IF bcast[call.br] \notin {None, Now.to} THEN moved \cup {call.br}
                ELSE moved
    /\ GoOn
    /\ UNCHANGED <<memberVars, ctl, grp, asked>>

GroupStep ==
    /\ call # Idle /\ Now.what = "group"
    /\ Now.to \in groups \cup {None}
    /\ grp' = [grp EXCEPT ![call.br][Now.k] = Now.to]
    /\ GoOn
    /\ UNCHANGED <<memberVars, ctl, bcast, asked, moved>>

\* Mutant: the control is set for unicast packets.
ControlOfUnicast ==
    /\ call # Idle /\ Now.what = "control"
    /\ ctl' = [ctl EXCEPT ![call.br]["unicast"] = Now.to]
    /\ GoOn
    /\ UNCHANGED <<memberVars, grp, bcast, asked, moved>>

ControlStep ==
    /\ call # Idle /\ Now.what = "control"
    /\ ctl' = [ctl EXCEPT ![call.br][Now.k] = Now.to]
    /\ GoOn
    /\ UNCHANGED <<memberVars, grp, bcast, asked, moved>>

\* SAI refuses: the steps done stay.
StepRefused ==
    /\ call # Idle /\ Now.what \in {"group", "control"}
    /\ call' = Idle
    /\ asked' = IF OfBroadcasts(call.steps) THEN [asked EXCEPT ![call.br] = "refused"] ELSE asked
    /\ moved' = IF Now.k = "broadcast" /\ Now.what = "group" THEN moved \cup {call.br} ELSE moved
    /\ UNCHANGED <<memberVars, ctl, grp, bcast>>

-----------------------------------------------------------------------------
Next ==
    \/ \E b \in Bridge :
          \/ CreateBridge(b) \/ DeleteBridge(b)
          \/ \E s \in SubPort : AddSubPort(s, b) \/ AddSubPortStops(s, b)
          \/ \E g \in Group \cup {None} :
                FloodAllToGroup(b, g) \/ \E k \in Packet : FloodToGroup(b, k, g)
          \/ \E on \in BOOLEAN :
                FloodAllToSubPorts(b, on) \/ \E k \in Packet : FloodToSubPorts(b, k, on)
    \/ \E s \in SubPort : DeleteSubPort(s)
    \/ \E g \in Group :
          \/ CreateGroup(g) \/ DeleteGroup(g)
          \/ \E s \in SubPort : AddMember(g, s) \/ DeleteMember(g, s)
    \/ RecordStep \/ GroupStep \/ ControlStep \/ StepRefused

Spec == Init /\ [][Next]_vars

-----------------------------------------------------------------------------
(* Properties.                                                             *)

\* ndi_1d_get_l2mc_id, by which ndi_packet_tx floods a packet of the CPU.
PacketGroup(b) == bcast[b]

\* What SAI does with the broadcasts of a bridge: it floods them to a group (None:
\* to nobody), to the sub-ports, or not at all.
Flooding(b) ==
    IF ctl[b]["broadcast"] = "l2mc_group" THEN grp[b]["broadcast"] ELSE ctl[b]["broadcast"]

\* Between the flooding calls of a bridge SAI floods its broadcasts as the last call
\* about them that was made asks, unless a step of that call was refused; and the
\* packets the CPU floods go to the group SAI has for broadcasts, which exists, or
\* nowhere when it has none.  So where SAI floods broadcasts to a group, the CPU
\* floods to the same one.  Where flooding was turned from a group to the
\* sub-ports or off, SAI and the record both keep the group: SAI no longer uses it,
\* and the CPU goes on flooding to it (CpuFollowsControl).  The record may be
\* another group once the setting of SAI's group was refused, the bridge was given a
\* second group, or it was deleted with its group on record.
BroadcastsAsAsked ==
    \A b \in bridges : call.br # b =>
        /\ asked[b] # "refused" => Flooding(b) = asked[b]
        /\ b \notin moved => /\ PacketGroup(b) = grp[b]["broadcast"]
                             /\ PacketGroup(b) \in groups \cup {None}

\* The CPU floods to a group only where SAI floods broadcasts to one.  The code
\* breaks this, and SAI need not refuse anything: ndi_set_subport_flooding leaves
\* the record alone.
CpuFollowsControl ==
    \A b \in bridges \ moved :
        call.br # b /\ asked[b] # "refused" /\ PacketGroup(b) # None =>
            ctl[b]["broadcast"] = "l2mc_group"

\* A member on record is in SAI, and the sub-port it is for is found by the lookup
\* its deletion begins with: even of a group that got the sub-port twice.
RecordedMemberFound ==
    \A g \in Group : \A s \in l2mc[g] : copies[g][s] > 0 /\ s \in cached /\ g \in groups

\* A group that never got a sub-port twice has in SAI one member for each
\* sub-port on record, and no other.
MembersAsRecorded ==
    \A g \in groups \ extra : \A s \in SubPort : copies[g][s] = IF s \in l2mc[g] THEN 1 ELSE 0

\* Bridges, groups and members are of their types, and a call is on a bridge.
TypeOK ==
    /\ bridges \subseteq Bridge /\ groups \subseteq Group
    /\ subs \in [SubPort -> bridges \cup {None}]
    /\ cached \subseteq {s \in SubPort : subs[s] # None}
    /\ copies \in [Group -> [SubPort -> 0 .. MaxCopies]]
    /\ l2mc \in [Group -> SUBSET SubPort]
    /\ ctl \in [Bridge -> [Packet -> Control]]
    /\ grp \in [Bridge -> [Packet -> Group \cup {None}]]
    /\ bcast \in [Bridge -> Group \cup {None}]
    /\ call = Idle \/ call.br \in bridges
    /\ asked \in [Bridge -> Group \cup {None, "sub_ports", "none", "refused"}]
    /\ moved \subseteq Bridge /\ extra \subseteq Group
=============================================================================
