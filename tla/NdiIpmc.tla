------------------------------- MODULE NdiIpmc -------------------------------
(***************************************************************************)
(* IP multicast: replication groups (nas_ndi_ipmc.cpp) and the routes that *)
(* share them (the ndi_ipmc_entry calls of nas_ndi_mcast.cpp), over the    *)
(* repl_group_cache of nas_ndi_ipmc_utl.h.                                 *)
(*                                                                         *)
(* A replication group has an RPF group, whose member is the interface     *)
(* packets are to arrive on, and, where it has outgoing interfaces, an     *)
(* IPMC group of them.  NDI keeps both in a cache, with the routes that    *)
(* use the group, and refuses to delete a group in use.                    *)
(*                                                                         *)
(* Calls come one at a time from the NAS.  SAI may fail each of its own    *)
(* calls; what a call has done by then is what it leaves.                  *)
(***************************************************************************)
EXTENDS Integers, FiniteSets

CONSTANTS
    Group,    \* replication groups: the object ids of SAI
    Entry,    \* routes: VRF, type, addresses and incoming interface
    Iif, Oif, \* router interfaces packets may arrive on and leave on
    None,
    PortList, \* the port lists (sets of ports and LAGs) a member of each subgroup
              \* may be given
    Bridged   \* the ports that have a 1Q bridge port

Sub == {"rpf", "ipmc"}
Rif(s) == IF s = "rpf" THEN Iif ELSE Oif

\* The members of a subgroup in the cache and in SAI.
MbrList(s) == [Rif(s) -> PortList[s] \cup {None}]
SaiMbrList(s) == [Rif(s) -> (SUBSET Bridged) \cup {None}]

CachedGroup == [out   : BOOLEAN, \* ipmc_grp_id is not 0
                mbr   : [rpf : MbrList("rpf"), ipmc : MbrList("ipmc")],
                using : [Entry -> BOOLEAN \cup {None}]] \* with copy_to_cpu
SaiGroup == [rpf  : SaiMbrList("rpf") \cup {None}, ipmc : SaiMbrList("ipmc") \cup {None}]
SaiEntry == [rpf : Group, ipmc : Group \cup {None}, cpu : BOOLEAN]

ASSUME IpmcAssumption ==
    /\ None \notin Group \cup Entry \cup Iif \cup Oif
    /\ \A s \in Sub : \A ports \in PortList[s] : ports # None /\ ports \cap Bridged # None
    /\ None \notin BOOLEAN
    /\ \A s \in Sub : None \notin SaiMbrList(s)
    /\ None \notin CachedGroup
    /\ None \notin SaiGroup
    /\ None \notin SaiEntry

VARIABLES
    sai,     \* replication groups in SAI: the members of each subgroup
    entries, \* routes in SAI
    cache,   \* _repl_grp_list: subgroups, members and routes of each group
    route,   \* _ipmc_ipv4_entry_list and _ipmc_ipv6_entry_list: route -> group
    call,    \* the deletion of a group that is under way
    half,    \* history: groups whose deletion SAI stopped half way
    torn     \* history: routes whose update SAI stopped half way

vars == <<sai, entries, cache, route, call, half, torn>>

Idle == [grp |-> None, at |-> "idle", left |-> {}]
NoMembers(s) == [r \in Rif(s) |-> None]

Init ==
    /\ sai = [g \in Group |-> None]
    /\ entries = [e \in Entry |-> None]
    /\ cache = [g \in Group |-> None]
    /\ route = [e \in Entry |-> None]
    /\ call = Idle
    /\ half = {}
    /\ torn = {}

Live == {g \in Group : cache[g] # None}
Members(mbr) == {r \in DOMAIN mbr : mbr[r] # None}
Recorded(g, s) == Members(cache[g].mbr[s])
SaiHas(g, s) == sai[g] # None /\ sai[g][s] # None

-----------------------------------------------------------------------------
(* ndi_create_repl_group.                                                  *)

\* Mutant: a port without a bridge port is passed on as it is.
AllPorts(ports) == ports

\* get_member_bridge_port: a port without a bridge port is left out.
BridgePorts(ports) == IF ports = None THEN None ELSE ports \cap Bridged
ToSai(mbr) == [r \in DOMAIN mbr |-> BridgePorts(mbr[r])]

\* SAI does not give out the id of a group NDI has on record.
FreshId(g) == sai[g] = None /\ cache[g] = None

\* The IPMC group or the RPF group is refused: what was made stays in SAI and
\* NDI forgets it.
CreateGivenUp(g) ==
    /\ call = Idle
    /\ FreshId(g)
    /\ \E oifs \in {None, NoMembers("ipmc")} :
          sai' = [sai EXCEPT ![g] = [rpf |-> None, ipmc |-> oifs]]
    /\ UNCHANGED <<entries, cache, route, call, half, torn>>

NewGroup(g, out, rpf, oifs) ==
    /\ sai' = [sai EXCEPT ![g] = [rpf  |-> ToSai(rpf),
                                  ipmc |-> IF out THEN ToSai(oifs) ELSE None]]
    /\ cache' = [cache EXCEPT ![g] = [out |-> out, mbr |-> [rpf |-> rpf, ipmc |-> oifs],
                                      using |-> [e \in Entry |-> None]]]
    /\ UNCHANGED <<entries, route, call, half, torn>>

\* The group is made whole, less the outgoing interfaces SAI refuses.
CreateGroup(g, r, ports) ==
    /\ call = Idle
    /\ FreshId(g)
    /\ \E out \in BOOLEAN, oifs \in [Oif -> PortList["ipmc"] \cup {None}] :
          /\ oifs # NoMembers("ipmc") => out
          /\ NewGroup(g, out, [NoMembers("rpf") EXCEPT ![r] = ports], oifs)

\* The RPF member is refused: the group stays, in SAI and in the cache, without
\* a member.
CreateEmpty(g) ==
    /\ call = Idle
    /\ FreshId(g)
    /\ \E out \in BOOLEAN : NewGroup(g, out, NoMembers("rpf"), NoMembers("ipmc"))

-----------------------------------------------------------------------------
(* ndi_delete_repl_group.                                                  *)

\* Mutant: the routes of the group are not looked at.
UsedNever(g) == FALSE

\* is_repl_group_used.
Used(g) == \E e \in Entry : cache[g].using[e] # None

DeleteGroup(g) ==
    /\ call = Idle
    /\ g \in Live
    /\ ~Used(g)
    /\ Cardinality(Recorded(g, "rpf")) = 1
    /\ call' = [grp |-> g, at |-> "rpf", left |-> Recorded(g, "rpf")]
    /\ UNCHANGED <<sai, entries, cache, route, half, torn>>

DeleteMember(r) ==
    /\ call.at \in Sub
    /\ r \in call.left
    /\ LET mbr == sai[call.grp][call.at] IN mbr # None /\ mbr[r] # None
    /\ sai' = [sai EXCEPT ![call.grp][call.at][r] = None]
    /\ call' = [call EXCEPT !.left = @ \ {r}]
    /\ UNCHANGED <<entries, cache, route, half, torn>>

\* SAI refuses to remove a subgroup that has members or that a route uses.
Free(g, s) == /\ sai[g][s] = NoMembers(s)
              /\ \A e \in Entry : entries[e] # None => entries[e][s] # g

\* The IPMC group is removed only where the cache has outgoing interfaces.
DeleteSubgroup ==
    /\ call.at \in Sub
    /\ call.left = {}
    /\ Free(call.grp, call.at)
    /\ sai' = [sai EXCEPT ![call.grp][call.at] = None]
    /\ LET oifs == Recorded(call.grp, "ipmc")
       IN  call' = IF call.at = "rpf" /\ oifs # {}
                   THEN [call EXCEPT !.at = "ipmc", !.left = oifs]
                   ELSE [call EXCEPT !.at = "repl"]
    /\ UNCHANGED <<entries, cache, route, half, torn>>

DeleteRepl ==
    /\ call.at = "repl"
    /\ \A s \in Sub : sai[call.grp][s] = None
    /\ sai' = [sai EXCEPT ![call.grp] = None]
    /\ cache' = [cache EXCEPT ![call.grp] = None]
    /\ half' = half \ {call.grp}
    /\ call' = Idle
    /\ UNCHANGED <<entries, route, torn>>

\* SAI fails, and the cache keeps what is gone from SAI.
DeleteStops ==
    /\ call # Idle
    /\ call' = Idle
    /\ half' = IF call.at = "rpf" /\ call.left # {} THEN half ELSE half \cup {call.grp}
    /\ UNCHANGED <<sai, entries, cache, route, torn>>

-----------------------------------------------------------------------------
(* ndi_update_repl_group.                                                  *)

\* add_rpf_group_member has room for one member.
CacheTakes(g, s) == s = "rpf" => Recorded(g, s) = {}

\* A member the cache has no room for is in SAI by then, and stays there.
AddMember(g, s, r, ports) ==
    /\ call = Idle
    /\ g \in Live
    /\ r \notin Recorded(g, s)
    /\ SaiHas(g, s)
    /\ sai[g][s][r] = None
    /\ sai' = [sai EXCEPT ![g][s][r] = BridgePorts(ports)]
    /\ cache' = IF CacheTakes(g, s) THEN [cache EXCEPT ![g].mbr[s][r] = ports] ELSE cache
    /\ UNCHANGED <<entries, route, call, half, torn>>

DelMember(g, s, r) ==
    /\ call = Idle
    /\ g \in Live
    /\ r \in Recorded(g, s)
    /\ SaiHas(g, s)
    /\ sai[g][s][r] # None
    /\ sai' = [sai EXCEPT ![g][s][r] = None]
    /\ cache' = [cache EXCEPT ![g].mbr[s][r] = None]
    /\ UNCHANGED <<entries, route, call, half, torn>>

\* Mutant: the cache is not told of the new ports.
UpdateMemberSaiOnly(g, s, r, ports) ==
    /\ call = Idle
    /\ g \in Live
    /\ r \in Recorded(g, s)
    /\ SaiHas(g, s)
    /\ sai[g][s][r] # None
    /\ sai' = [sai EXCEPT ![g][s][r] = BridgePorts(ports)]
    /\ UNCHANGED <<entries, cache, route, call, half, torn>>

UpdateMember(g, s, r, ports) ==
    /\ call = Idle
    /\ g \in Live
    /\ r \in Recorded(g, s)
    /\ SaiHas(g, s)
    /\ sai[g][s][r] # None
    /\ sai' = [sai EXCEPT ![g][s][r] = BridgePorts(ports)]
    /\ cache' = [cache EXCEPT ![g].mbr[s][r] = ports]
    /\ UNCHANGED <<entries, route, call, half, torn>>

-----------------------------------------------------------------------------
(* Routes.                                                                 *)

\* The subgroup ids of the group, 0 (None) for an IPMC group it does not have.
Output(g) == IF cache[g].out THEN g ELSE None

\* get_repl_grp_obj: the route is in both tables.
Listed(e) == route[e] # None /\ cache[route[e]].using[e] # None

\* ndi_ipmc_entry_create.  Its result does not say whether the cache took the
\* route: add_ipmc_entry stops at the table that has it already.
CreateEntry(e, g, cpu) ==
    /\ call = Idle
    /\ g \in Live
    /\ entries[e] = None
    /\ SaiHas(g, "rpf")
    /\ cache[g].out => SaiHas(g, "ipmc")
    /\ entries' = [entries EXCEPT ![e] = [rpf |-> g, ipmc |-> Output(g), cpu |-> cpu]]
    /\ cache' = IF cache[g].using[e] # None THEN cache
                ELSE [cache EXCEPT ![g].using[e] = cpu]
    /\ route' = IF cache[g].using[e] # None \/ route[e] # None THEN route
                ELSE [route EXCEPT ![e] = g]
    /\ UNCHANGED <<sai, call, half, torn>>

\* ndi_ipmc_entry_delete and del_ipmc_entry.
DeleteEntry(e) ==
    /\ call = Idle
    /\ entries[e] # None
    /\ entries' = [entries EXCEPT ![e] = None]
    /\ IF Listed(e)
       THEN /\ cache' = [cache EXCEPT ![route[e]].using[e] = None]
            /\ route' = [route EXCEPT ![e] = None]
       ELSE UNCHANGED <<cache, route>>
    /\ torn' = torn \ {e}
    /\ UNCHANGED <<sai, call, half>>

\* Mutant: the action is left alone where the group changes.
MovedGroupOnly(e, g, cpu, n) ==
    [entries[e] EXCEPT !.rpf = g, !.ipmc = IF n = 3 THEN g ELSE @]

\* NAS_NDI_IPMC_UPD_REPL_GRP sets the RPF group, the action and, where the
\* group has one, the IPMC group, in this order: a route after the first n.
Moved(e, g, cpu, n) ==
    [rpf |-> g, cpu  |-> IF n >= 2 THEN cpu ELSE entries[e].cpu,
                ipmc |-> IF n = 3 THEN g ELSE entries[e].ipmc]

Sets(g) == IF cache[g].out THEN 3 ELSE 2

\* Mutant: the route stays in the list of the group it leaves.
RelistedTwice(e, g, cpu) == [cache EXCEPT ![g].using[e] = cpu]

\* The route leaves the list of its group for that of the new one.
Relisted(e, g, cpu) == [[cache EXCEPT ![route[e]].using[e] = None]
                               EXCEPT ![g].using[e] = cpu]

\* update_ipmc_entry.
MoveEntry(e, g, cpu) ==
    /\ call = Idle
    /\ g \in Live
    /\ entries[e] # None
    /\ SaiHas(g, "rpf")
    /\ cache[g].out => SaiHas(g, "ipmc")
    /\ entries' = [entries EXCEPT ![e] = Moved(e, g, cpu, Sets(g))]
    /\ IF Listed(e)
       THEN /\ cache' = Relisted(e, g, cpu)
            /\ route' = [route EXCEPT ![e] = g]
       ELSE UNCHANGED <<cache, route>>
    /\ torn' = torn \ {e}
    /\ UNCHANGED <<sai, call, half>>

\* SAI fails the second or the third attribute: nothing is set back.
MoveStops(e, g, cpu) ==
    /\ call = Idle
    /\ g \in Live
    /\ entries[e] # None
    /\ SaiHas(g, "rpf")
    /\ \E n \in 1 .. (Sets(g) - 1) :
          entries' = [entries EXCEPT ![e] = Moved(e, g, cpu, n)]
    /\ torn' = torn \cup {e}
    /\ UNCHANGED <<sai, cache, route, call, half>>

\* NAS_NDI_IPMC_UPD_COPY_TO_CPU.
CopyToCpu(e, cpu) ==
    /\ call = Idle
    /\ Live # {}
    /\ entries[e] # None
    /\ entries' = [entries EXCEPT ![e].cpu = cpu]
    /\ IF Listed(e)
       THEN cache' = [cache EXCEPT ![route[e]].using[e] = cpu]
       ELSE UNCHANGED cache
    /\ UNCHANGED <<sai, route, call, half, torn>>

-----------------------------------------------------------------------------
Next ==
    \/ \E g \in Group : CreateGivenUp(g) \/ CreateEmpty(g) \/ DeleteGroup(g)
    \/ \E g \in Group, r \in Iif, ports \in PortList["rpf"] : CreateGroup(g, r, ports)
    \/ \E r \in Iif \cup Oif : DeleteMember(r)
    \/ DeleteSubgroup
    \/ DeleteRepl
    \/ DeleteStops
    \/ \E g \in Group, s \in Sub : \E r \in Rif(s) :
          \/ DelMember(g, s, r)
          \/ \E ports \in PortList[s] : AddMember(g, s, r, ports) \/ UpdateMember(g, s, r, ports)
    \/ \E e \in Entry, g \in Group, cpu \in BOOLEAN :
          CreateEntry(e, g, cpu) \/ MoveEntry(e, g, cpu) \/ MoveStops(e, g, cpu)
    \/ \E e \in Entry : DeleteEntry(e)
    \/ \E e \in Entry, cpu \in BOOLEAN : CopyToCpu(e, cpu)

Spec == Init /\ [][Next]_vars

-----------------------------------------------------------------------------
(* Properties.                                                             *)

\* Groups, routes and members are well formed on both sides, and a deletion
\* has at most the recorded members of its subgroup left to remove.
TypeOK ==
    /\ sai \in [Group -> SaiGroup \cup {None}]
    /\ entries \in [Entry -> SaiEntry \cup {None}]
    /\ cache \in [Group -> CachedGroup \cup {None}]
    /\ route \in [Entry -> Group \cup {None}]
    /\ \/ call = Idle
       \/ /\ call \in [grp : Live, at : Sub \cup {"repl"}, left : SUBSET (Iif \cup Oif)]
          /\ call.at \in Sub => call.left \subseteq Recorded(call.grp, call.at)
    /\ half \subseteq Live
    /\ torn \subseteq Entry

\* The two tables of routes and SAI agree: a route is in SAI when the entry map
\* has it, and it is in the list of one group, the one the map names.
RouteTablesAgree ==
    \A e \in Entry :
        /\ entries[e] # None <=> route[e] # None
        /\ \A g \in Group : (g \in Live /\ cache[g].using[e] # None)
                             <=> (route[e] # None /\ route[e] = g)

\* A route does in SAI what the cache says: it takes the RPF group, the
\* copy-to-CPU action and, if there is one, the IPMC group of the group whose
\* list it is in, unless SAI stopped its last update half way.
RouteFollowsGroup ==
    \A e \in Entry \ torn :
        entries[e] # None =>
            LET g == route[e]
            IN  /\ entries[e].rpf = g
                /\ entries[e].cpu = cache[g].using[e]
                /\ cache[g].out => entries[e].ipmc = g

\* Between calls, a group in the cache is in SAI with its subgroups, the incoming
\* interface on record and all its outgoing ones and their ports, and sends to no
\* other interface, unless its deletion has been stopped half way.  SAI may have a
\* second incoming interface, which the cache refused (OneRpfMember).
GroupAsRecorded ==
    call = Idle => \A g \in Live \ half :
        LET mbr == cache[g].mbr
        IN  /\ SaiHas(g, "rpf")
            /\ \A r \in Members(mbr.rpf) : sai[g].rpf[r] = BridgePorts(mbr.rpf[r])
            /\ sai[g].ipmc = IF cache[g].out THEN ToSai(mbr.ipmc) ELSE None

\* While a route is in the list of a group, a member of the group leaves SAI
\* only together with its record.
MembersKept ==
    \A g \in {route[e] : e \in Entry} \ {None}, s \in Sub : \A r \in Rif(s) :
        /\ SaiHas(g, s) /\ sai[g][s][r] # None
        /\ ~(SaiHas(g, s)' /\ sai'[g][s][r] # None)
        => r \in Recorded(g, s) /\ r \notin Recorded(g, s)'

RoutesKeepMembers == [][MembersKept]_vars

\* add_rpf_group_member refuses a second member: packets of a group arrive on
\* one interface.  The code breaks this: SAI is given the second member first.
OneRpfMember ==
    \A g \in Group : SaiHas(g, "rpf") => Cardinality(Members(sai[g].rpf)) <= 1
=============================================================================
