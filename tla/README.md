# opx-nas-ndi in TLA+

The NDI is the layer of OPX between the network abstraction service (NAS) and
the switch abstraction interface (SAI). Callers are the threads of NAS: interface
configuration, L2, L3, multicast, and an event thread of the NDI itself. SAI is a
library behind function tables; it holds the objects (ports, bridge ports, VLANs,
STP ports, router interfaces, ...) and names them by object ids. Most of the NDI
translates attributes. What it keeps itself are tables that say which SAI object
stands for which thing of NAS, and these tables are written next to SAI, never
together with it: a call changes SAI, then one table, then another, under locks
that cover a part of it, and any of the SAI calls may be refused. The models are
about that: do the tables agree with each other and with SAI, in every order of
the steps of several threads, after every failure, and with ids that SAI reuses?

## Inventory

| component | state | operations | what is hard | what makes it correct |
|---|---|---|---|---|
| port map (`nas_ndi_port_map.cpp`, `nas_ndi_port.c`) | `g_ndi_port_map_tbl` (hardware index to object), `g_saiport_map` (object to index), two rw-locks | boot, `ndi_phy_port_create`, `ndi_phy_port_delete`, lookups, walks of all ports | two locks; a lookup takes its lock twice; SAI, bridge port, map and callback in turn; no roll-back | the tables are inverses; a mapped port exists; a lookup is linearizable; what NAS was told is in the map |
| router interfaces (`nas_ndi_router_interface.c`, `_utl.cpp`) | `ndi_rif_entry_db` (key to id), `ndi_rif_id_db` (id to key and `ref_cnt`), one mutex | `ndi_rif_create`, `ndi_rif_delete`, attribute updates | shared interfaces, reference counts, roll-back, the router bridge port's cache | nobody loses an interface he holds; nothing leaks |
| spanning tree (`nas_ndi_stg.cpp`) | two lists of STP ports in `nas_ndi_map`, `default_stg_id`, `_stp_member_mutex` | add and delete an instance, set a state, `ndi_stg_get_default_id`, removal with a bridge port | the mutex covers some of the paths only; check-then-create; list counted and read apart | lists = SAI; a bridge port can always be removed; a port in use forwards |
| bridge ports (`nas_ndi_bridge.cpp`, `nas_ndi_obj_cache.cpp`) | caches by object, port, sub-port, tunnel and router interface; flood groups | create and delete 1Q, 1D, sub-port, tunnel and router bridge ports | creation in up to six SAI calls; deletion drags STP ports and VLAN members along | the caches name live bridge ports |
| VLAN (`nas_ndi_vlan.cpp`) | `g_ndi_vlan_map`, two maps of the virtual object cache, the member cache in `nas_ndi_map`, `default_vlan_id` | create, delete, set the default, add and delete members, take members out of the default VLAN | three tables in turn; members removed behind the cache; bridge ports vanish | tables = SAI; cache = SAI; OK means programmed |
| `nas_ndi_map.cpp` | a multimap under one mutex | insert, get, delete, delete elements | a key with two values cannot be read with room for one | through its clients |
| event thread (`nas_ndi_init.c`) | a socket pair, the callbacks of the upper layer, `npu_oper_status` | SAI callbacks post, the thread translates and calls NAS | runs before there is a port map; translation at delivery, object and index reuse | the last word on a port is its own state, and comes |
| MAC table (`nas_ndi_mac.cpp`) | none; reads the caches | entry operations, flushes, `ndi_fdb_event_cb` | a batch ends at the first event that cannot be translated; VLANs and bridge ports gone before their events are read | NAS knows the entries the switch has |
| tunnels (`nas_ndi_tunnel*.cpp`) | a map of tunnel objects with their basic objects, map entries and bridge ports; `_tun_lock` | add and remove a remote endpoint, with roll-back | partial failure of seven creations, of their roll-back and of removals; a retry | a bridge port has a whole tunnel behind it; nothing stray in SAI |
| IP multicast (`nas_ndi_ipmc.cpp`, routes of `nas_ndi_mcast.cpp`, `nas_ndi_ipmc_utl.h`) | `repl_group_cache`: groups with their members and lists of routes; a map of the routes | create, delete and update replication groups; create, delete and update routes | routes share groups; a deletion of many SAI calls, an update of three attributes, the cache told at the end | a route does what its group says; no group in use is taken apart |
| L2 multicast and flooding (`nas_ndi_l2mc.cpp`, flooding of `nas_ndi_bridge.cpp`) | `l2mc_grp_mem_map`, `ndi_bridge_id_bcast_l2mc_id` | bridges, sub-ports, groups, members, flood control | a record ahead of SAI; it outlives the bridge; members added twice | members on record = SAI; broadcasts flood as asked; the group on record is SAI's |
| LAG (`nas_ndi_lag.cpp`) | `lag_member_to_port_map` | create, delete, members | a member gives up and regains its bridge port | a port is in a LAG or has a bridge port |
| mirroring (`nas_ndi_mirror.cpp`) | `port_to_mirror_id_map`: the sessions of a port | sessions; enable, disable | the list runs ahead of SAI and is undone by the opposite change | list = SAI = what NAS was told |
| routes (`nas_ndi_route.c`) | lists of group members in `nas_ndi_map` | routes, next hops, next-hop groups | a group is changed one member at a time, roll-backs that nobody looks at | list = SAI; weights as asked |
| ACL (`nas_ndi_acl.cpp`, `_utl.cpp`) | none | tables, entries, counters | two translations of one set of names, several names for one attribute | entry = what NAS was told |
| QoS of ports (`nas_ndi_qos_queue.cpp`, `_scheduler_group.cpp`, `_priority_group.cpp`, `_port.cpp`, `_buffer_pool.cpp`) | none | queues, scheduler groups, profiles of a port, statistics | queues listed by one call and counted by others, positions of two lists that differ, shared attributes | the numbers are of one whole list; the later of two sets wins; no count lost or given to another |
| QoS profile objects, FC, traps, UDF, hash, sFlow, packet I/O, switch, profiles, other statistics | none of interest | attribute translation | | |

Interactions. Everything that takes a port calls `ndi_sai_port_id_get` of the port
map. Port creation and deletion, LAG membership and the boot call the bridge ports;
these call the STP lists and, on deletion, the default VLAN, with
`_stp_member_mutex` held. VLAN members, STP ports and MAC entries look the bridge
port up in its cache and use it later. A router interface on a 1D bridge creates a
router bridge port. The virtual object cache filled by the VLANs tells the MAC events
a VLAN from a bridge. A sub-port in a multicast group cannot be deleted, and a group a
bridge floods to cannot be either. Mirroring, ACL and QoS meet in SAI only: an ACL
entry holds the session it mirrors to and the ports it names.

## Modules

| module | models | proofs |
|---|---|---|
| `NdiPortMap` | port map, boot, create, delete, lookup, walk | `NdiPortMapProofs` |
| `NdiPortRegistry` | what the port map promises: a partial injective map changed one port at a time | |
| `NdiCommon` | the value of what is absent, picking from a list | `NdiServicesProofs` |
| `NdiRif` | router interfaces and their bridge ports | `NdiServicesProofs` |
| `NdiStg` | STP instances, STP ports, their lists, the mutex, the life of 1Q bridge ports | `NdiStgProofs` |
| `NdiVlan` | VLANs, members, default VLAN, against the life of 1Q bridge ports | `NdiVlanProofs` |
| `NdiTunnel` | VXLAN remote endpoints: tunnels, map entries, tunnel bridge ports, their roll-back | `NdiServicesProofs` |
| `NdiIpmc` | replication groups, the routes that share them, their cache | `NdiIpmcProofs` |
| `NdiEvents` | the start, the event socket and its thread; extends `NdiPortMap` | `NdiPortMapProofs` |
| `NdiRoute` | next-hop groups, their lists, the routes and next hops they hold | `NdiRouteProofs` |
| `NdiFdb` | LAGs, MAC entries and FDB events over the 1Q bridge ports | `NdiFdbProofs` |
| `NdiFlood` | 1D bridges, sub-ports, L2 multicast groups, flood control | `NdiFloodProofs` |
| `NdiPortIds` | the port map as mirroring, ACL and QoS use it: translates or does not | |
| `NdiMirror`, `NdiAcl`, `NdiQos`, `NdiQosStats` | the components of these names | `NdiServicesProofs` |
| `NdiPolicy` | these four composed on ports that come and go | `NdiServicesProofs` |
| `MC...` | instances for TLC: model values, symmetry, the constraint of `NdiPolicy` | |

Common conventions. The variables of SAI (`sai`, `stp`, `members`, ...) are external:
they change only by the calls the code makes, obey the rules SAI has for object
dependencies (a bridge port with an STP port or a VLAN member on it is not removed,
a VLAN with members is not removed), and refuse whatever the set `MayFail` of an
instance names. An object id SAI hands out is one that is not in use and not in the
hands of a call in progress; it may have been used before. In the later modules
(`NdiRoute`, `NdiFdb`, `NdiFlood`, `NdiPolicy`) the calls come one at a time from
their caller, an action is a call with every outcome SAI's refusals give it, and an
outcome that changes nothing is left out or a stuttering step. `th`, `wr` and `rd` are
the call in progress of each thread: `pc` and the local variables. A step is one
critical section or one SAI call. A guard on an `idle` thread that leaves out a
call (an unknown port, a VLAN that exists) leaves out a call that returns without
changing anything. Operators called "Mutant" in a comment are used by nothing: they
state a plausible bug in the definition that follows, for mutation tests of the
properties.

### NdiPortMap

`tbl` and `rev` are the two tables, `sai` and `brport` the ports and 1Q bridge ports
in SAI, `known` the ports announced by `port_event_update_cb`, `boot` the progress of
`ndi_sai_port_map_create`. `Boot*` is `ndi_sai_port_map_create` followed by
`ndi_init_brport_for_1Q`; `CreateSaiPort`, `MapAdd`, `CreateBridgePort`,
`AnnounceAdd` are `ndi_phy_port_create`; `DeleteCheck` to `AnnounceDelete` are
`ndi_phy_port_delete`; `LookupCheck` and `LookupRead` are the two critical sections
of `ndi_sai_port_id_get`; `WalkLen` and `WalkCopy` those of
`ndi_stg_set_all_stp_port_state`. `stuck`, and `seen` of a reader, are history.
There is one NPU (`NDI_MAX_NPU`). The length of the vector is left out: a slot beyond
it reads as the value-initialised slot that a resize puts there. `Fill` and `Unfill`
write both tables in one step: each function holds the two locks from the first write
to the last. `WalkInBounds` rests on the CPU port being slot 0, which
`ndi_port_get_all_sai_ports` skips by position ("first port is cpu port skip it").

### NdiRif

Each call holds `_ndi_rif_map_lock` throughout and is one step, in one of its
outcomes. `entryDb`, `keyOf` and `refs` are the two maps, `held` is a history of
the references callers were given, `lost` of the interfaces `remove_router_interface`
failed on: `ndi_rif_delete` answers OK then, and the entry stays. The `rif_obj_id`
that nobody sets when the cache entry of a router bridge port is dropped makes the
cache drop any entry or none. Attribute values are left out.

### NdiStg

`idList` and `portList` are the two lists. `SetState`, `SetLookup`, `CreateStp`,
`CacheId`, `CachePort` are a set of a port's state; `CreateBridgePort` and
`CacheBridgePort` around the same steps are `ndi_create_bridge_port`;
`DeleteBridgePort` to `RemoveBridgePort` are `ndi_delete_bridge_port` under the
mutex; `StgDelete`, `List`, `Attr`, `StgStp`, `Uncache*`, `StgRemove` are
`ndi_stg_delete`, without it; `GetDefaultId`, `List`, `Attr`, `CacheId`,
`BootCachePort` are `ndi_stg_get_default_id`. `hurt` is a history of the bridge ports
in whose deletion SAI refused to let an STP port, or the bridge port itself, go. Two constants choose the environment:
`BootRace` (may bridge ports come and go before `ndi_stg_get_default_id` has
returned?) and `Garbage` (what may stand in the entries of an array SAI did not fill
because the list shrank between its count and its read).

### NdiVlan

`vlanMap` is `g_ndi_vlan_map`, `vidObj` and `objVid` the virtual object cache, `cache`
the member cache. `CreateVlan*`, `DeleteVlan*` are the three-table sequences;
`AddPort` to `AddReturns` are `ndi_add_port_to_vlan` with
`ndi_add_vlan_member_to_cache`; `Del*` is `ndi_del_port_from_vlan`; `Default*` is
`ndi_vlan_delete_default_member_brports`, reached from `DelAllFromDefault` and from
`DeleteBridgePort`. The lists of ports the callers pass are repeated single calls. The
steps of the bridge port that `NdiStg` has (STP ports, attributes) are left out here.

### NdiTunnel

`nas_ndi_add_remote_endpoint` and `nas_ndi_remove_remote_endpoint` hold `_tun_lock` to
their end, so there is one `call` at a time and nothing interleaves with it; what is
hard is every SAI call failing, in the roll-back too. A step is one SAI call and the
change of the tunnel object that follows. `sai` holds the objects of all seven kinds,
each with what it is for and the objects it uses; SAI refuses to remove an object in
use and to make a second one with the same key. `objs` is `nas_ndi_tunnel_obj_map`: a
tunnel object has its four basic objects and, for each bridge, an entry in
`encap_map`, `decap_map` and `tunnel_bridge_ports`. `AddEndpoint`, `Create`,
`CreateFailed` and `RollbackStep` are the add with `ndi_create_tunnel_basic_entries`;
`RemoveEndpoint`, `RemoveStep` and `RemoveStuck` the removal with
`ndi_delete_basic_tunnel_entry`.
`PortLeft` is the bridge port that `ndi_create_bridge_port` could neither finish nor
take back. `left` and `broken` are histories of what SAI failed to remove. SAI does
not hand out an id that NDI still has on record; ids are only compared, so the least
free one stands for all. `Garbage` is what the bridge port id may name that
`nas_ndi_remove_remote_endpoint` never set when the endpoint has no bridge port there:
here, any bridge port.

### NdiIpmc

`cache` is `_repl_grp_list` with the subgroups, the member lists and the list of routes
of each group, `route` the two entry maps (IPv4 and IPv6 are one here), `sai` and
`entries` the groups and routes SAI has. `CreateGivenUp`, `CreateGroup` and
`CreateEmpty` are the outcomes of `ndi_create_repl_group`: nothing on record and the
pieces left in SAI; the group with those outgoing members SAI took; the group without
members, because the RPF member was refused. `DeleteGroup` to `DeleteRepl` are
`ndi_delete_repl_group` one SAI call at a time, `call` says how far it is, and
`DeleteStops` is SAI failing any of them. `AddMember`, `DelMember` and `UpdateMember`
are the three operations of `ndi_update_repl_group`; the rest are
`ndi_ipmc_entry_create`, `_delete` and `_update`, the last with the attributes it sets
one after the other (`Moved`, `MoveStops`) and then the cache (`Relisted`). These are
one step each: a call sees only its own SAI calls in between.

No lock of the NDI spans a call here (each operation of the cache locks itself), so
what keeps two calls apart is the caller: the NAS makes its multicast calls one at a
time, and overlapping calls are not modelled. SAI refuses a second member with the same
router interface and the removal of a subgroup that has members or that a route uses,
and hands out no id NDI has on record. `Bridged` is the set of ports with a 1Q bridge
port, which does not change here: `get_member_bridge_port` leaves the others out.
`half` and `torn` are histories: the groups whose deletion stopped after its first
removal, the routes whose update stopped between two attributes. The entry map has a
`copy_to_cpu` of its own that an update of the group leaves stale; nothing in the
sources reads it, and it is left out.

What the model shows beyond its properties: a group made with an IPMC group and no
outgoing interface on record keeps the IPMC group when it is deleted, so SAI refuses
to remove it; a half-deleted group can never be deleted, since the retry fails at the
member that is gone; and a route moved to a group without an IPMC group keeps the IPMC
group of the one it left, as no attribute is set for it. `RouteFollowsGroup` claims the
IPMC group only where the group has one.

### NdiEvents

The port map's own steps are `PortMapStep`; around them are the start (`StartThread`,
`CreateSwitch`, then the boot of `NdiPortMap`; `InitFails`), SAI's callbacks and the
thread. `LinksChange` and `SwitchChanges` are SAI reporting, `Send` is
`send_nas_event` for one entry of the batch, `Receive`, `Translate`, `TakeSwitch` and
`Deliver` are `_ndi_event_push` with `ndi_port_state_change_cb_int` and
`ndi_switch_state_change_cb_int`. `owed` is a history of what was reported while it
could be passed on. What the model shows beyond its properties: an event of a port
that is not mapped yet, or that comes before `ndi_port_oper_state_notify_register`, is
dropped and nothing repeats it; and an event translated before its port is deleted may
be delivered after another port got that index, and stands until that port's own next
event. A record that does not fit into the socket is lost in the code; the socket is
taken to be large enough.

### NdiRoute

`map` holds the lists under `NH_GRP_MEMBER`, as lists of a next hop and a member.
`MembersAdded` and `MembersRefused` are the two ends of
`ndi_route_nh_grp_members_create`, the second with whatever its roll-back left in SAI;
`GroupCreate*`, `AddNextHops*`, `GroupDelete*`, `DelNextHops*` are the calls with
their outcomes, and `Match` is `ndi_route_get_nh_member_oid`, with the index at which
each next hop of a call goes on. The histories are `want`, the weights the calls that
were answered OK ask for; `torn`, the groups a call on which stopped half way; `stale`,
those of them where it was a deletion, among the members, so that the list names members
that are gone; and `hit`, the groups that lost a member to a call on another group. A
stale list does that: SAI may give an id that is still on it to a member of another group,
and the next call on the first group takes that member and is answered OK. The group
that loses it had no part in any of this, and its list, which still names the member, may
do the same to a third. The two properties say that this is the only way: a list names no
member of another group but after a stopped deletion or such a loss, and weights are as
asked but for a stopped call or such a loss. They do not rule it out, since the code does
not (`OwnCallsDecide` and `MemberListedOnce`, below). Also beyond the properties: a group created
without next hops is answered OK without its id, and a group that calls have grown past
`NDI_MAX_NH_ENTRIES_PER_GROUP` cannot be deleted (below).

### NdiFdb

`bp` is SAI's bridge port of a port or a LAG, with the three things its creation sets
up; `cached` is `_port_to_brport_blk`. `CreateLag`, `DeleteLag`, `AddPort`, `DelPort`
are the calls of `nas_ndi_lag.cpp` done, `...Stops` the same stopped by SAI at any of
their calls, `NotMade` and `NotUnmade` what a stopped creation or deletion of a bridge
port leaves. `Learn`, `Move`, `Age` and the flushes change SAI's entries and queue
events; `FdbEvents(n)` is `ndi_fdb_event_cb` with a batch of n of them. `astray` is a
history of the entries whose events were lost with their batch, were told of as an entry
of a bridge, or were overtaken by a call of the NAS; `hurt` of the ports and LAGs a
stopped call has changed. The callback drops a batch from the first event whose bridge
port is not in the cache, though the comment above it reads "Ignore the entry. Continue
with next entry" (`nas_ndi_mac.cpp:679`); `NasAgrees` excepts the dropped entries.

### NdiFlood

`bcast` is `ndi_bridge_id_bcast_l2mc_id`, `l2mc` is `l2mc_grp_mem_map`, `ctl` and `grp`
are SAI's flood attributes. `FloodToGroup` and its like start a call, `RecordStep`,
`GroupStep` and `ControlStep` are its steps, in the code's order, between which packets
of the CPU are sent; the other calls are one step. `asked` is a history of what the last
call about the broadcasts of a bridge asks for: a group, no group, the sub-ports or
nothing, or "refused" when SAI refused a step of it. `moved` is a history of the bridges
whose record is known to be another group than SAI's: a refused group, a group set over
another (`insert` keeps the old one), a bridge deleted with its record. `BroadcastsAsAsked`
relates three things that are set in different steps: SAI's control and group together
do what was asked (unless a step was refused), and the group on record, to which
`ndi_packet_tx` floods, is SAI's (unless the bridge is `moved`). It does
not say that the CPU stops flooding to the group when SAI does: `ndi_set_subport_flooding`
changes the control and leaves group and record, so the CPU goes on (`CpuFollowsControl`,
below). `extra` are the
groups that got a sub-port twice; SAI keeps a member NDI has lost there.

### NdiPolicy: NdiMirror, NdiAcl, NdiQos, NdiQosStats

`NdiMirror`: `list` is `port_to_mirror_id_map`, `told` what the NAS was answered.
`UpdateDirection` is one enable or disable in its three outcomes. `return false` is
`STD_ERR_OK`, so a port that is not mapped is a success with nothing mirrored; a
session enabled again and refused leaves NDI's list by the roll-back; and a list
outlives its port (`apart`).

`NdiAcl`: filters and actions are named as the NAS names them and translated by
`FilterField`, `TableField`, `ActionField`; of the some eighty types the model has those
that share an attribute, one with an enumeration of its own, one with a number (UDF),
objects, and one that is unknown. `told` of an entry is what the NAS was answered,
`crossed` the attributes set or disabled under one name while the entry had them under
another, and UDFs that were disabled by type. `DisableCounter` does not look at the
counter it is given. Reading a counter or the usage of a table is not modelled: what SAI
answers is copied.

`NdiQos`: queues and scheduler groups with their parents, the profiles of a port, and
a caller who asks for its queues. The ingress and the egress map of traffic classes to
queues are one attribute of SAI; the history `latest` records under which name each attribute
was set last, so that `ProfilesAsTold`, a part of `AttributesAsTold`, can say that the later
set wins under both names. `egress` is the part of the caller's `qos_port_egr_struct_t` with
the queues: `ListQueues` is `ndi_qos_get_port_egr_profile` as far as SAI's list, and
`CountQueue` one round of `ndi_qos_update_port_queue_number`, which asks SAI for the type of
one queue; `reading` is how far it is. Queues of the third type, `SAI_QUEUE_TYPE_ALL`, are
in the number of all queues and in neither of the others. Between two of these calls
queues are made and deleted, and `CountStops` is a queue that is gone or that SAI does not
answer for: the numbers stay as they were, and the caller is answered OK. `counted` and
`unread` are histories: the list that was last counted to its end, and whether the last call
met such a queue. The caller gives room for the whole list. The result of the
fill is ignored at `nas_ndi_qos_port.cpp:193`, so a profile the NAS names and NDI does not know goes to SAI as an attribute nobody set; callers here
give known names.

`NdiQosStats`: the gaps between what a poller asks for and what SAI has (`Position`),
and clearing on read. The poller's own count of each counter is the history `owed`.

## Runs

| run | instance | states | shows |
|---|---|---|---|
| `portmap_concurrent` | 3 indices, 2 front-panel objects, 2 writers, 1 reader | 736,413 | tables inverse, mapped ports exist, deletes find their entry, lookups linearizable, CPU slot kept, walks in bounds; implements `NdiPortRegistry` |
| `rif` | a port, a bridge and a virtual key, 3 interfaces, 2 bridge ports, counts up to 3 | 20,925 | maps agree, held interfaces exist, nothing leaks |
| `rif_router_port` | the same, no failures | violation | a removed router bridge port stays in the cache |
| `stg` | 2 instances, 2 ports, 2 bridge ports, 3 STP ports, 1 setter, 2 porters | 424,088 | removal never refused for a forgotten STP port, lists exact between calls, ports in use in the default instance |
| `vlan` | 3 VLANs, 2 ports, 3 bridge ports, 4 members, 1 configuring thread, 2 porters | 1,068,695 | VLAN tables = SAI, member cache = SAI, OK means member |
| `tunnel` | 2 endpoints, 2 bridges, 2 VNIs, 2 objects of each kind | 535,872 | a bridge port has a whole tunnel behind it; nothing stray in SAI |
| `ipmc` | 2 groups, 2 routes, 2 incoming and 1 outgoing interface, 2 port lists, SAI failing every call | 306,162 | routes on one group in all tables, doing what it says; groups outgoing members in SAI as recorded and the incoming one among SAI's; no member taken from a route |
| `events` | 3 indices, 2 objects, 1 writer, 2 reported changes | 503,635 | between calls no orphans and the callers' view is the map's; the last word on a port is its state, and comes |
| `route` | 2 next hops, 2 groups, 4 members, 1 route, 2 next hops in a call, room for 2 | 43,463 | lists name their group's members and weights are as asked, but for stopped calls and what their lists take from others |
| `fdb` | 1 port, 1 LAG, 1 VLAN, 2 addresses, 2 events, 1 hurt | 986,928 | one forwarder; everyone served; the NAS knows the entries |
| `flood` | 2 sub-ports, a bridge, 2 groups, unicast and broadcast packets, 2 members of a sub-port in a group | 812,985 | broadcasts flood as asked, the group on record is SAI's; members = record = SAI |
| `policy` | 1 port, 2 sessions, a LAG, a table, an entry, a counter, 5 queues and groups, 3 objects polled | 32,858 | lists, entries, profiles as told; counts kept; numbers of queues those of one whole list |

The state counts are after symmetry. In every pass run all the SAI calls its
`MayFail` names may fail at any time; the modules without a `MayFail` let SAI refuse
any call.

Why the bounds are enough. The steps concern one object or one key and the tables
are pointwise, so what can go wrong needs two threads on the same object, or two
objects or ids that one key or index meets in turn: two writers on two objects and two
free indices (one more index is the CPU's), two ports and two bridge ports, an id more
than is in use so that a fresh and a reused id both occur. In `tunnel` two objects of
a kind are one too few for two endpoints on two bridges, so SAI also runs out. Reference counts up to
3 tell "last", "second last" and "more". In `ipmc` two groups tell the group a
route leaves from the one it joins, two routes make one group shared, and two incoming
interfaces meet the room for one. In `events` two changes are enough for an event of an earlier
life of an object or of another port at the same index to be the last word, which is
what `ToldAgrees` is about. In `route` a second call takes a group of one call's length
past the room of a read (`MaxNh` is 2, `MaxList` 4), and four members let ids of a
stale list be given out again. In `fdb` one port and one LAG are all that a change of
place needs, and two events make a batch that can be cut between them. In `flood` the
third member that would be lost is like the second.

Bounds written into guards, all of them named constants: `MaxRef` (`rif`: references to
an interface), `MaxEvents` (`events`: changes reported in a behaviour; `fdb`: events
that wait), `MaxCall` and `MaxList` (`route`: next hops in a call, length of a list),
`MaxTorn` and `MaxHurt` (`route`, `fdb`: a call stops only while fewer groups, or ports
and LAGs, have been changed by stopped calls), `MaxCopies` (`flood`), `MaxSet`, `MaxIds` and `MaxCount` (`policy`: counts
the NAS sets, ids in a request, what is counted between two readings). `MaxNh` and
`MaxUdf` are limits of the code and of SAI, made small.

`policy` has one `CONSTRAINT`, `OneAtATime`: of mirroring, the ACL, the nodes, the
profiles and each polled object only one is away from where it began, beside ports
that come and go, and the first session exists only beside mirroring or the ACL;
the reader of the queues' numbers is beside at most two queues and no scheduler group; an
entry has at most two filters and actions, and counts are not zero only while there are
no entries. The four components share no state of NDI, so the parts left out are
products of what is explored, but for the two ties through SAI that the composition
is for: an entry that holds a session, and one that holds a port. Both are explored.

The theorems below remove the bounds from the safety properties of all these instances,
and from `policy` its constraint too; what they assume of the constants instead is said
there.

The type invariant of a module whose run does not name it holds in the same instances; it
is there to say what the variables are, and the proofs of the module begin with it.

Deadlock is checked in all runs but those of `NdiRif`, where the callers may stop at
the bound, and of `NdiIpmc`, where creations given up may use all the group ids SAI has. In `stg` this includes the mutex: no call keeps it. `Down` in `NdiPortMap`
is the process that gave up its boot.

Fairness. `ESpec` of `NdiEvents` assumes weak fairness of `Send`, a callback of SAI that
has begun and runs to its end, and of `EventThread`, the loop `_ndi_event_push`, which
nothing but an empty socket stops. Nothing is assumed of SAI reporting, of creates and
deletes of ports, or of the start. `EventuallyTold` is checked under it, without
symmetry. The other specifications assume no fairness: their properties are of safety.

### Where the code breaks what is said of it

`rif_router_port` is a run: `ndi_delete_bridge_port` copies `brport_obj_id`,
`brport_type` and `vlan_id` to the block it passes to the cache, not `rif_obj_id`,
under which a router bridge port is cached.

The following are definitions of the modules, and can be seen by naming them in the
configuration of the module's run, changed as said here. TLC breaks each in seconds.

- `NotFoundMeansNotSet` in `stg.cfg` with `BootRace = TRUE`: `ndi_stg_get_default_id`
  appends to the lists without the mutex and without a look at them. If a bridge port is
  created meanwhile its STP port is listed twice or not at all, and both read as "not
  set". With `BootRace = FALSE` it is fine.
- `AddedIsMember` in `vlan.cfg` with `Managed = {v1, v2}`: members of the default VLAN
  are removed in SAI only; the cache goes on to answer for them, and a port reported as
  added is in no VLAN. The pass run `vlan` therefore lets callers manage only the
  members of VLANs that are never the default (`Managed` and `Defaultable` are disjoint
  there).
- `VniUnique` in `tunnel.cfg`: the roll-back of an add takes its map entries out of SAI
  and leaves them in the tunnel object. The VNI is then given to another bridge and
  recorded beside the old entry, and the bridge of the failed add can never be added
  again.
- `OneRpfMember` in `ipmc.cfg`: `ndi_update_repl_group` adds the member in SAI and asks
  the cache afterwards; the cache refuses a second RPF member, and the call returns an
  error with the member still in SAI. `ndi_create_repl_group` takes the member out in
  that place.
- `GroupCanBeRead` in `route.cfg`: nothing limits how long calls make the list of a
  next-hop group; one longer than `NDI_MAX_NH_ENTRIES_PER_GROUP` is too long for
  `ndi_route_next_hop_group_delete` to read, so the group cannot be deleted.
- `OwnCallsDecide` and `MemberListedOnce` in `route.cfg`: after a stopped deletion, a group
  all of whose own calls were answered OK loses a member to a call on another group that
  is answered OK too; and a group given an id again that is still on its list names it
  twice, where `nas_ndi_route.c:573` counts on members being unique.
- `CpuFollowsControl` in `flood.cfg`: a bridge told to flood broadcasts to a group and then
  to its sub-ports, or not to flood them, keeps the group on record, and packets of the CPU
  are still flooded to it. Nothing needs to be refused.
- `NumbersOfTheList` in `policy.cfg`: the error of `ndi_qos_update_port_queue_number` is not
  returned (`nas_ndi_qos_port.cpp:660`) and an empty list is not counted (558), so the
  numbers of an earlier call stay beside a list of other queues.

One thing `tunnel` leaves out of its property: the roll-back of
`ndi_create_tunnel_basic_entries` asks for the two maps before the tunnel that uses
them, so if the termination entry is refused the maps stay in SAI with nothing on
record. `NothingStray` speaks of the other five kinds. A tunnel whose removal stops
half way stays on record without its termination entry; `PortsCarryTraffic` excepts
it (`broken`).

Two environments are excluded from the pass runs because TLC breaks their properties
there: `Garbage` other than `Null` in `stg` (an unset entry that names a live STP port
of another instance makes `ndi_stg_delete` remove it: `InDefaultStg`, 26 steps) and a
nonempty `Garbage` in `vlan` (likewise, a member of another VLAN: 25 steps).

## Proofs

Checked by TLAPS for all values of the constants that the named assumptions of the
modules allow: sets of indices, objects, threads and keys of any size, any `MayFail`,
any bound. These assumptions are

- distinctness and typing facts: `PortMapAssumption`, `EventsAssumption`,
  `RifAssumption`, `StgAssumption`, `VlanAssumption`, `IpmcAssumption`, `FdbAssumption`,
  `RouteAssumption`, `FloodAssumption`, `TunnelAssumption`, `AclAssumption`,
  `QosAssumption`, `StatsAssumption`;
- that the value for "nothing" is none of the things it stands beside:
  `NullAssumption` of `NdiStg` and `NdiVlan`, `NoneAssumption` of `NdiFdb` and
  `NdiRoute`, and the clauses on `None` of `TunnelAssumption`. With model values TLC confirms them; TLA+ alone does not give them;
- that the addresses and VLANs of `NdiFdb` and the group members of `NdiRoute` are
  finitely many: a flush queues an event for every entry, and members are counted;
- that `Nodes` of `NdiQos` is a list with no node twice: SAI reports each queue of a port
  once; and that what a caller
  asks of an ACL entry are values of the types the NAS names (`EntryLists`).

Four groups of theorems have a hypothesis of their own, in the `ASSUME` of each
theorem. It is an environment in which the property is claimed, never a bound:

| hypothesis | theorems of | says | why |
|---|---|---|---|
| `OneCaller` | `NdiPortMapProofs`: `NoOrphanPortEver`, `CallerViewAlwaysAgrees` | one thread creates and deletes ports | the run `events`, which checks them, has one; two calls on one port that overlap break both |
| `CpuPort = 0` | `NdiPortMapProofs`: `WalksInBounds` | slot 0 is the CPU port's | `ndi_port_get_all_sai_ports` skips slot 0 by position |
| `Orderly` of `NdiStgProofs` | all of it | one thread sets states and handles instances; bridge ports come and go after `ndi_stg_get_default_id`; an entry SAI did not fill reads as null; finitely many STP ports | the environment of the run `stg`; without the second and the third TLC breaks the properties (see above) |
| `Orderly` of `NdiVlanProofs` | all of it | one thread configures VLANs; VLANs it manages are never the default, the one SAI starts with may be; lists are as long as their count; finitely many members | the environment of the run `vlan`; without the second and the third TLC breaks the properties |

In both `Orderly` the threads that create and delete bridge ports are any number.

### Port map, start and events: `NdiPortMapProofs`

`TypeCorrect`, `TablesAlwaysAgree`, `LookupsLinearizable`, `MapDeleteAlwaysFindsEntry`,
`MappedPortsAlwaysExist`, `CpuPortAlwaysStays`, and `PortMapImplementsRegistry`, the
refinement. `TablesAgree` alone is not inductive:
`MapAdd` must know that its object is in neither table and `MapDelete` that its
object still is where it was. The invariant `IInv` adds *ownership*: between
`create_port` and the bridge port of a create, and between the removal of the bridge
port and the map entry of a delete, one call alone works on its object (`OwnersApart`),
and the object is then without a bridge port, mapped or not as the place in the call
says (`OwnerState`). A second delete cannot get into that window because
`BridgePortsMapped` ties a bridge port to a mapped, existing port and only one call can
remove it. `GoneObjects` says who is about to erase an entry whose port is gone, and
`ReaderState` that what a reader is about to read is an object its index has held
since its check: a delete leaves the object id in the slot. There is one lemma per
action; the theorems follow from `Invariance`. The refinement maps the slot of an
index to its object while it is active; `Fill` is `Register`, `Unfill` is
`Unregister`, all other steps stutter.

`NoOrphanPortEver`, `CallerViewAlwaysAgrees`: `OneCallerInv` adds to `IInv` what one
caller has to itself. A port is mapped to the index it was created on, the lanes of the
port just made are nobody else's (`LanesHeld`), and a call says at each of its places
what its slot holds, who was told of it and whether it is complete (`CallOnSlot`,
`KnownMapped`, `MappedComplete`).

`WalksInBounds`: the second critical section counts again and goes ahead only if its
count, less one, fits the length the first one gave. The one it skips by position is one
it has counted, because slot 0 always holds the CPU port (`CpuPortStays`).

`ToldAlwaysAgrees` is of the composition: `CompositionKeepsPortMap` shows that every
step of `NdiEvents` is one of the port map or leaves it alone, so `IInv` carries over. The
invariant `OwedInv` speaks of the *last word*: for a port whose state is owed, the last record
of it that is with SAI, in the socket or in the thread's hand has that state, or the
state has arrived and nothing that another object left behind is about to be told of
the same port. `BatchOnce` keeps a batch from naming a port twice.

### Spanning tree: `NdiStgProofs`

`RemovalNeverRefused`, `AlwaysInDefaultStg`, `ListsAlwaysExact`, `StgTypesHold`. The
mutex alone does not carry these: the deletion of an instance and the fill at the start
do without it. The invariant says of each list what it holds *apart from what is on its
way*. `PendId` and `PendPort` are STP ports SAI has made that are not in one of the lists
yet, `Victim` is one that SAI has removed and that is still in them, and the lists hold
exactly the STP ports of SAI otherwise (`IdInv`, `PortInv`). That the inserts and deletes of
`nas_ndi_map` then hit the right entry rests on `OneStp`: SAI has at most one STP port for
an instance and a bridge port, and none while an earlier one of theirs leaves the
lists. `DeletionInv` says that what a deletion of a bridge port has still to do covers
all its STP ports. `ListsAlwaysExact` counts: a list that names each element of a finite
set once is as long as the set is large.

### VLANs: `NdiVlanProofs`

`VlanTablesAlwaysAgree`, `MembersAlwaysAgree`, `AddedAlwaysMember`, `VlanTypesHold`. `InWork` says
what SAI and each of the three tables know of the one VLAN that is on its way in or
out; the others agree. `BrportInv` says whose a bridge port is that is not in the cache yet,
and that a bridge port that a thread has read is still its port's or gone. A VLAN in
work has no members (`MembersInv`), so `remove_vlan` hurts none. `DefaultOK` keeps the
removals behind the cache to VLANs that may be the default. `CallOK` says what the call
in progress has found out and what of that still holds when it uses it: a bridge port may
go between any two of its steps, and with it the member only if the VLAN may be
the default. `AddedIsMember` follows from `Settled`: when the call returns, cache and SAI
agree on its port and VLAN again.

### Replication groups: `NdiIpmcProofs`

`TypeCorrect`, `RouteTablesAlwaysAgree`, `RoutesAlwaysFollow`,
`RoutesAlwaysKeepMembers`, `GroupsAlwaysAsRecorded`. Two facts make the first four
inductive. `DeletesUnused`: a
deletion was let in because no route used its group, and no route can be put on the
group before it ends, so the members it removes are nobody's and the list that vanishes
with the group is empty. `GroupsInSai`: a group on record has an object in SAI, whose
id is therefore not handed out again. `InSaiListed` says that a route SAI has is found
through both tables; so an update or a deletion of a route never finds it unlisted, and
`CreateEntry` never meets the refusals of the cache. A move may be to the group the
route is on; `RelistedType` gives the lists after both its halves. The action property
needs only that a routed group is on record and not the one under deletion
(`RoutedGroup`), and that a member's ports are never empty in SAI's sense
(`BridgePortsType`).

`GroupsAlwaysAsRecorded` needs more than what it says, because a deletion takes members
away before it is known to be one that stops half way. `GroupsInv` adds that a group
has at most one incoming interface on record, so that a deletion with one left to remove
has removed nothing yet, and claims of every group the deletion has not touched that it
is in SAI as recorded. As recorded means: exactly the outgoing members on record, and the
incoming one on record among those SAI has. SAI may have a second incoming one, which the
cache refused (`OneRpfMember`, above), so the theorem does not say there is none.

### LAGs and MAC entries: `NdiFdbProofs`

`AlwaysOneForwarder`, `AlwaysServed`, `LagTablesTypeCorrect`.
`LagTypeOK`, `OneForwarder` and `Served` are inductive together: a port that may join is
in the cache, so it is no member and its bridge port goes before it becomes one; a port
that leaves has none by `OneForwarder`, so the one it is given is new. A call SAI stops
changes one bridge port only (`RemovalStopsStep`, `NotMadeType`), and that one is `hurt`.
MAC entries, VLANs and events leave all of it alone.

`NasAlwaysAgrees`, `TypesAlwaysCorrect`. `NasAgrees` speaks of the moments without
waiting events and no single step keeps it. `InFlight` says it of every moment: the last
waiting event of an entry tells where the switch has it, and an entry without one is where
the NAS has it, but for the entries that went `astray`. A batch takes the head of the
queue, so the last event of an entry is in the rest or is the last one applied; a flush
appends the events of a whole set in any order, each entry's once (`SetToSeqsOnto`: a
sequence of distinct elements as long as a finite set names them all).

### Bridges and L2 multicast: `NdiFloodProofs`

`RecordedMembersAlwaysFound`, `MembersAlwaysAsRecorded`. What makes
them inductive is `GoneGroupsEmpty`: SAI has no members of a group it does not have,
hence there are none on record, although the deletion of a group does not look there;
a group made again under its id starts without members in both. A sub-port that goes is
a member of no group, or SAI would have refused, so it is on no record.

`BroadcastsAlwaysAsAsked`. In the middle of a call the record, SAI's group and SAI's control
differ, and two invariants say what the steps the call has to go make of them. `FloodInv` is
about the record: the steps make up for the difference (`AboutToAgree`) or touch neither
(`StillAgrees`), and a record precedes its group (`Ordered`). `AskInv` is about what was
asked: all steps to go that set an attribute of broadcasts set it to one value, an attribute
without such a step has its value already (`Final`), and the two values together are what
was asked (`LeadsTo`). `CallsWhole` and `CallsLead` show that every call of
`ndi_flood_control_1d_bridge` starts with such steps, in either of its orders. A call that
SAI stops leaves "refused" behind, and of its bridge only the record is claimed from then on.

### Next-hop groups: `NdiRouteProofs`

`ListAlwaysExact`, `WeightsAlwaysAsAsked`, `RouteTypesCorrect`. The two properties are
inductive together with `MembersHaveGroups` (a member in SAI is of a group in SAI, so a
new group has none) and `NothingAsked` (nothing is asked of a group the NAS does not
have). The weights need the lists: the deletion of next hops takes the members that the
list gives for them, which are pairwise different and of that next hop only if the list is
exact. `AddedReady` and `RemovedReady` count: the members that a call makes or takes for a
next hop are as many as the call names it, by the cardinality of an injective image.
A list says of whom it may take members (`Owned`): one that names only its own group's
members hits nobody, so only a group that is `stale` or was itself `hit` can hit another.
`RemovalStep` says that every other group that loses a member is then in `hit`, whether the
call was stopped or not, and that the rest is unchanged. The theorems therefore except
exactly two kinds of groups: those a call on which stopped half way (for the first half of
`ListIsExact`, only a deletion), and those in `hit`.

### Router interfaces: `NdiServicesProofs`

`RifTypeCorrect`, `RifDbsAlwaysAgree`, `HeldRifsAlwaysExist`, `RefsAlwaysHeld`. Here the
four invariants together are inductive: a new object is not in SAI, so it has no entry
and no holder, and an interface that is not `lost` has as many references as holders, so
the last delete erases an entry nobody else holds.

### Tunnels: `NdiServicesProofs`

`PortsAlwaysCarryTraffic`, `NothingEverStray`, `TunnelTypeCorrect`. Both properties
break if a call removes an object that somebody still needs, and each call finds what it
removes in two places: on record and in its own `made`. `TunnelInv` therefore says
three things.

- What is on record is one endpoint's (`RecordedOnce`), under its kind (`OidsOfKind`), and
  as far as it is still in SAI it is what the record says (`RecordsHold`). What an
  object uses is in SAI (`UsesLive`); this is how a tunnel with entries or bridge ports
  on it outlives a removal asked of SAI.
- For each place of a call, what it has made and what is left to do. A call that makes
  a tunnel has objects that are in SAI and not on record (`Making`); one that joins a
  bridge has entries that are both, on a bridge without a port (`Joining`); a roll-back
  has left only objects that are not on record, or entries of a bridge without a
  port (`Undoing`, `MayGo`); a removal has the endpoint's own objects, in one of the orders
  of its list, and those before in the list are gone (`RemovingEntries`, `RemovingTunnel`).
- `NothingStray` for the middle of a call: what is not on record the call has in hand
  (`AllKnown`).

`PortsCarryTraffic` is inductive with these: an add writes the bridge port when the two
entries it uses are as recorded; `MayGo` keeps a roll-back from the entries of a bridge
with a port; a removal of the basic objects is of an endpoint whose last port is gone
(`LastPort`). `RollbackStep` and `RemoveStep` have a lemma for what SAI took and one
for what it refused; `left` and `broken` pay for the second.

### Mirroring, ACL, QoS: `NdiServicesProofs`

`MirroredAlwaysAsTold`, `AttributesAlwaysAsTold`, `CountsAlwaysKept`,
`QueueNumbersAlwaysCounted`. The four parts share no state of NDI, so `PolicyInv` is their four
invariants side by side; a port that goes is the only step that changes two of them.

- `MirrorInv` is the property and the types: a change of SAI and one of the list, and
  the roll-back of the list where SAI refused, keep both settled or part the key.
- `AclInv` says of every entry that its attributes outside `crossed` are those of
  the names the NAS was told, in both directions (`EntryAsTold`). Two names may stand for
  one attribute (`Rivals`); `SameAttrFacts` shows that these are all, and a name set beside
  its rival crosses the attribute. A table has the attributes of its types
  (`TableAsMade`).
- `QosInv` has two parts. `ProfileInv`: an attribute of SAI has the value that was given
  under the name it was set by last (`latest`), also the one that ingress and egress share.
  `ReaderInv`: while queues are counted, the two counts are those of the list up to
  the next queue (`CountTo`), so that at its end they are those of the whole list
  (`CountToFacts`, by the cardinality of a set that grows by one element); the caller's numbers
  change only then. The list is in the caller's hands, so queues that come and go meanwhile
  change nothing of it.
- `StatsInv` is `CountsKept` and types. The gap between what is asked for and what SAI has
  is in `AnswerFacts`: the counter at position `n` of a request is answered from the
  position it has among those SAI knows (`PicksStay`). A read that clears takes from SAI
  and from `owed` the same counters, so nothing counted is dropped or given twice.

### What is only model-checked

`EventuallyTold`, because liveness and `ENABLED` are out of TLAPS's reach. Every safety
property of a passing run is stated by a theorem.

TLAPS cannot use the library's induction theorems. Where a list is defined by recursion
on its length (`Only` of `NdiCommon`, `Without` of `NdiStg` and `NdiRoute`), the proofs
get its properties for every list by a least counterexample (`NatLeast`, `LeastExists`,
from the well-foundedness of `<` on the naturals).
None of the modules has a recursive operator.

## Not modelled

Attribute values and their translation, but for the ACL types and QoS names above: an
attribute that passes through to SAI one by one leaves nothing in NDI to be wrong
later. Lists given to a caller with too little room for them, and the counters and usage of
the ACL read back: they are SAI's answers copied. With them: the QoS profile objects
(policers, maps, WRED, schedulers, buffer profiles), Fibre Channel, traps, UDF, hash, sFlow, the switch and its profiles, and the
statistics that are not polled and cleared by QoS. Packet I/O, but for the group a
packet is flooded to. Port breakout and the other attribute operations of
`nas_ndi_port.c`. The L2 entries of `nas_ndi_mcast.cpp`, tunnel members of L2 multicast
groups, MAC entries of 1D bridges and of remote endpoints.
The attributes of router interfaces, and with them the loop of
`ndi_rif_update_attribute`: it clears the flags it knows one by one, and a flag it does
not know (`NDI_RIF_ATTR_IP_REDIRECT`) beside one it does keeps it running with
`_ndi_rif_map_lock` held. Reading shows that; a model would only repeat it.

SAI is taken to be atomic per call and to obey its object dependencies. VLANs are
configured by one thread, as their caller serialises it; two creations of one VLAN
would race. The same holds of the modules whose calls come one at a time.

## Plan

Done: the port map with its registry, router interfaces, spanning tree, VLANs, tunnels,
replication groups, events, routes, LAGs and MAC entries, flooding and L2 multicast,
mirroring, ACL and QoS; the proofs above.

Next: port breakout, which creates and deletes ports in one call; then the switch
attributes and the QoS profile objects, whose statistics repeat what `NdiQosStats` does.
