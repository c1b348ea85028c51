--------------------------- MODULE NdiIpmcProofs ---------------------------
(***************************************************************************)
(* The safety of NdiIpmc for all sets of groups, routes, interfaces and    *)
(* ports: routes and groups agree, and a route keeps its group's members.  *)
(***************************************************************************)
EXTENDS NdiIpmc, TLAPS

\* A deletion works on a group no route uses: it was looked at when the call
\* began, and no other call has come between.
DeletesUnused == call # Idle => ~Used(call.grp)

\* A group in the cache is in SAI, with or without its subgroups.
GroupsInSai == \A g \in Live : sai[g] # None

\* The inductive invariant.
IInv ==
    /\ TypeOK
    /\ RouteTablesAgree
    /\ RouteFollowsGroup
    /\ DeletesUnused
    /\ GroupsInSai

-----------------------------------------------------------------------------
\* Nothing is recorded at the start.
LEMMA InitIInv == Init => IInv
BY IpmcAssumption DEF Init, IInv, TypeOK, RouteTablesAgree, RouteFollowsGroup, DeletesUnused, GroupsInSai, Live

\* A route in SAI is in both tables, on a group in the cache.
LEMMA InSaiListed ==
    ASSUME IInv, NEW e \in Entry, entries[e] # None
    PROVE  Listed(e) /\ route[e] \in Live
BY IpmcAssumption DEF IInv, RouteTablesAgree, Listed, TypeOK, Live

\* SAI gets ports of its own, or None where there is no member.
LEMMA BridgePortsType ==
    ASSUME NEW s \in Sub, NEW ports \in PortList[s]
    PROVE  BridgePorts(ports) \in SUBSET Bridged /\ BridgePorts(ports) # None /\ ports # None
BY IpmcAssumption DEF BridgePorts

-----------------------------------------------------------------------------
\* A step that leaves both tables, the routes in SAI and their histories alone
\* keeps what is said of them.
LEMMA TablesUnchanged ==
    ASSUME IInv, UNCHANGED <<entries, cache, route, torn>>
    PROVE  RouteTablesAgree' /\ RouteFollowsGroup'
BY DEF IInv, RouteTablesAgree, RouteFollowsGroup, Live

\* A step that changes members only keeps what is said of the routes.
LEMMA MembersOnly ==
    ASSUME IInv, UNCHANGED <<entries, route, torn, call>>, call = Idle,
           Live' = Live,
           \A g \in Live : cache'[g].using = cache[g].using /\ cache'[g].out = cache[g].out
    PROVE  RouteTablesAgree' /\ RouteFollowsGroup' /\ DeletesUnused'
<1>1. RouteTablesAgree'
    BY DEF IInv, RouteTablesAgree
<1>2. RouteFollowsGroup'
    BY InSaiListed DEF IInv, RouteFollowsGroup
<1>3. DeletesUnused'
    BY DEF DeletesUnused
<1> QED BY <1>1, <1>2, <1>3

\* A creation that is given up.
LEMMA CreateGivenUpStep ==
    ASSUME IInv, NEW g \in Group, CreateGivenUp(g)
    PROVE  IInv'
<1>1. NoMembers("ipmc") \in SaiMbrList("ipmc")
    BY DEF NoMembers, SaiMbrList
<1>2. sai' \in [Group -> SaiGroup \cup {None}]
    BY <1>1 DEF IInv, TypeOK, CreateGivenUp, SaiGroup
<1>3. TypeOK'
    BY <1>2 DEF IInv, TypeOK, CreateGivenUp, Live, Recorded
<1>4. DeletesUnused'
    BY DEF IInv, CreateGivenUp, DeletesUnused
<1>5. GroupsInSai'
    BY DEF IInv, TypeOK, CreateGivenUp, FreshId, GroupsInSai, Live
<1> QED BY <1>3, <1>4, <1>5, TablesUnchanged DEF IInv, CreateGivenUp

\* A new group: nothing uses it.
LEMMA NewGroupStep ==
    ASSUME IInv, NEW g \in Group, call = Idle, FreshId(g), NEW out \in BOOLEAN,
           NEW rpf \in MbrList("rpf"),
           NEW oifs \in MbrList("ipmc"),
           NewGroup(g, out, rpf, oifs)
    PROVE  IInv'
<1>1. ToSai(rpf) \in SaiMbrList("rpf")
    BY BridgePortsType DEF ToSai, BridgePorts, Sub, MbrList, SaiMbrList, Rif
<1>2. ToSai(oifs) \in SaiMbrList("ipmc")
    BY BridgePortsType DEF ToSai, BridgePorts, Sub, MbrList, SaiMbrList, Rif
<1>3. cache'[g] \in CachedGroup /\ \A e \in Entry : cache'[g].using[e] = None
    BY DEF NewGroup, IInv, TypeOK, CachedGroup
<1>4. cache' \in [Group -> CachedGroup \cup {None}] /\ \A h \in Group \ {g} : cache'[h] = cache[h]
    BY <1>3 DEF NewGroup, IInv, TypeOK, CachedGroup
<1>5. sai' \in [Group -> SaiGroup \cup {None}]
    BY <1>1, <1>2 DEF NewGroup, IInv, TypeOK, SaiGroup
<1>6. cache'[g] # None /\ Live' = Live \cup {g}
    BY <1>3, <1>4, IpmcAssumption DEF NewGroup, Live, IInv, TypeOK
<1>7. TypeOK'
    BY <1>4, <1>5, <1>6 DEF NewGroup, IInv, TypeOK, SaiGroup, CachedGroup
<1>8. RouteTablesAgree'
    BY <1>3, <1>4, <1>6 DEF NewGroup, FreshId, IInv, RouteTablesAgree, Live
<1>9. RouteFollowsGroup'
    BY <1>4, InSaiListed DEF NewGroup, FreshId, IInv, RouteFollowsGroup, Live
<1>10. DeletesUnused'
    BY DEF NewGroup, DeletesUnused
<1>11. GroupsInSai'
    BY <1>6, IpmcAssumption, <1>1, <1>2 DEF NewGroup, IInv, TypeOK, GroupsInSai, SaiGroup, Live
<1> QED BY <1>7, <1>8, <1>9, <1>10, <1>11 DEF IInv
-----------------------------------------------------------------------------
\* A deletion begins on a group without routes.
LEMMA DeleteGroupStep ==
    ASSUME IInv, NEW g \in Group, DeleteGroup(g)
    PROVE  IInv'
<1>1. Recorded(g, "rpf") \subseteq Iif
    BY IpmcAssumption DEF DeleteGroup, IInv, TypeOK, Live, Recorded, Members, CachedGroup, MbrList, Rif
<1>2. TypeOK'
    BY <1>1, IpmcAssumption DEF DeleteGroup, IInv, TypeOK, Live, Sub, Recorded, Members
<1>3. DeletesUnused'
    BY DEF DeleteGroup, DeletesUnused, Used
<1>4. GroupsInSai'
    BY DEF DeleteGroup, IInv, GroupsInSai, Live
<1> QED BY <1>2, <1>3, <1>4, TablesUnchanged DEF DeleteGroup, IInv

\* What a deletion under way is: its group is in the cache.
LEMMA Deleting ==
    ASSUME IInv, call # Idle
    PROVE  /\ call \in [grp : Live, at : Sub \cup {"repl"}, left : SUBSET (Iif \cup Oif)]
           /\ call.grp \in Group
           /\ call.at # "idle"
           /\ sai[call.grp] \in SaiGroup
           /\ ~Used(call.grp)
BY DEF IInv, TypeOK, DeletesUnused, GroupsInSai, Live, Sub

\* A member of the group that is deleted leaves SAI.
LEMMA DeleteMemberStep ==
    ASSUME IInv, NEW r \in Iif \cup Oif, DeleteMember(r)
    PROVE  IInv'
<1>1. call # Idle
    BY DEF DeleteMember, Idle, Sub
<1>2. PICK g \in Group : g = call.grp
    BY <1>1, Deleting
<1>3. PICK s \in Sub : s = call.at
    BY DEF DeleteMember
<1>4. sai[g] \in SaiGroup /\ sai[g][s] \in SaiMbrList(s)
    BY <1>1, <1>2, <1>3, Deleting DEF DeleteMember, SaiGroup, Sub
<1>5. [sai[g] EXCEPT ![s][r] = None] \in SaiGroup
    BY <1>4 DEF SaiGroup, SaiMbrList, Sub
<1>6. sai' \in [Group -> SaiGroup \cup {None}]
    BY <1>2, <1>3, <1>5 DEF DeleteMember, IInv, TypeOK
<1>7. /\ call' \in [grp : Live, at : Sub \cup {"repl"}, left : SUBSET (Iif \cup Oif)]
      /\ call'.grp = call.grp /\ call'.at = call.at /\ call'.left = call.left \ {r}
      /\ call.left \subseteq Recorded(call.grp, call.at)
    BY <1>1, Deleting DEF DeleteMember, IInv, TypeOK
<1>8. TypeOK'
    BY <1>6, <1>7 DEF DeleteMember, IInv, TypeOK, Live, Recorded
<1>9. DeletesUnused'
    BY <1>1, <1>7, Deleting DEF DeleteMember, DeletesUnused, Used
<1>10. GroupsInSai'
    BY <1>2, <1>3, <1>5, IpmcAssumption DEF DeleteMember, IInv, TypeOK, GroupsInSai, Live
<1> QED BY <1>8, <1>9, <1>10, TablesUnchanged DEF DeleteMember, IInv

\* A subgroup of the group that is deleted leaves SAI.
LEMMA DeleteSubgroupStep ==
    ASSUME IInv, DeleteSubgroup
    PROVE  IInv'
<1>1. call # Idle
    BY DEF DeleteSubgroup, Idle, Sub
<1>2. PICK g \in Group : g = call.grp
    BY <1>1, Deleting
<1>3. PICK s \in Sub : s = call.at
    BY DEF DeleteSubgroup
<1>4. [sai[g] EXCEPT ![s] = None] \in SaiGroup
    BY <1>1, <1>2, Deleting DEF SaiGroup, Sub
<1>5. sai' \in [Group -> SaiGroup \cup {None}]
    BY <1>2, <1>3, <1>4 DEF DeleteSubgroup, IInv, TypeOK
<1>6. Recorded(g, "ipmc") \subseteq Oif
    BY <1>1, <1>2, Deleting, IpmcAssumption DEF IInv, TypeOK, Live, Recorded, Members, CachedGroup, MbrList, Rif
<1>7. /\ call' \in [grp : Live, at : Sub \cup {"repl"}, left : SUBSET (Iif \cup Oif)]
      /\ call'.grp = call.grp
      /\ call'.at \in Sub => call'.left \subseteq Recorded(call.grp, call'.at)
    BY <1>1, <1>2, <1>6, Deleting DEF DeleteSubgroup, Sub
<1>8. TypeOK'
    BY <1>5, <1>7 DEF DeleteSubgroup, IInv, TypeOK, Live, Recorded
<1>9. DeletesUnused'
    BY <1>1, <1>7, Deleting DEF DeleteSubgroup, DeletesUnused, Used
<1>10. GroupsInSai'
    BY <1>2, <1>3, <1>4, IpmcAssumption DEF DeleteSubgroup, IInv, TypeOK, GroupsInSai, Live
<1> QED BY <1>8, <1>9, <1>10, TablesUnchanged DEF DeleteSubgroup, IInv

\* The group that is deleted leaves the cache, with no route in its list.
LEMMA DeleteReplStep ==
    ASSUME IInv, DeleteRepl
    PROVE  IInv'
<1>1. call # Idle
    BY DEF DeleteRepl, Idle
<1>2. PICK g \in Group : g = call.grp
    BY <1>1, Deleting
<1>3. \A e \in Entry : cache[g].using[e] = None
    BY <1>1, <1>2, Deleting DEF Used
<1>4. Live' = Live \ {g}
    BY <1>2 DEF DeleteRepl, IInv, TypeOK, Live
<1>5. TypeOK'
    BY <1>2, <1>4 DEF DeleteRepl, IInv, TypeOK
<1>6. RouteTablesAgree'
    BY <1>2, <1>3, <1>4 DEF DeleteRepl, IInv, RouteTablesAgree, TypeOK
<1>7. \A e \in Entry : entries[e] # None => route[e] # g
    BY <1>2, <1>3 DEF IInv, RouteTablesAgree
<1>8. RouteFollowsGroup'
    BY <1>2, <1>7, InSaiListed DEF DeleteRepl, IInv, RouteFollowsGroup, TypeOK, Live
<1>9. DeletesUnused'
    BY DEF DeleteRepl, DeletesUnused
<1>10. GroupsInSai'
    BY <1>2, <1>4 DEF DeleteRepl, IInv, TypeOK, GroupsInSai, Live
<1> QED BY <1>5, <1>6, <1>8, <1>9, <1>10 DEF IInv

\* A deletion that stops leaves its group in the cache.
LEMMA DeleteStopsStep ==
    ASSUME IInv, DeleteStops
    PROVE  IInv'
<1>1. call.grp \in Live
    BY Deleting DEF DeleteStops
<1>2. TypeOK'
    BY <1>1 DEF DeleteStops, IInv, TypeOK, Live
<1>3. DeletesUnused'
    BY DEF DeleteStops, DeletesUnused
<1>4. GroupsInSai'
    BY DEF DeleteStops, IInv, GroupsInSai, Live
<1> QED BY <1>2, <1>3, <1>4, TablesUnchanged DEF DeleteStops, IInv

-----------------------------------------------------------------------------
\* One member of one group changes in SAI, and in the cache or not.
LEMMA MemberChange ==
    ASSUME IInv, NEW g \in Live, NEW s \in Sub, NEW r \in Rif(s), call = Idle, SaiHas(g, s),
           NEW v \in (SUBSET Bridged) \cup {None}, NEW p \in PortList[s] \cup {None},
           sai' = [sai EXCEPT ![g][s][r] = v],
           cache' = [cache EXCEPT ![g].mbr[s][r] = p] \/ cache' = cache,
           UNCHANGED <<entries, route, call, half, torn>>
    PROVE  IInv'
<1>1. g \in Group /\ sai[g] \in SaiGroup /\ sai[g][s] \in SaiMbrList(s)
    BY DEF SaiHas, IInv, TypeOK, Live, SaiGroup, Sub
<1>2. [sai[g] EXCEPT ![s][r] = v] \in SaiGroup
    BY <1>1 DEF SaiGroup, SaiMbrList, Sub
<1>3. sai' \in [Group -> SaiGroup \cup {None}]
    BY <1>1, <1>2 DEF IInv, TypeOK
<1>4. cache[g] \in CachedGroup
    BY DEF IInv, TypeOK, Live
<1>5. [cache[g] EXCEPT !.mbr[s][r] = p] \in CachedGroup
    BY <1>4 DEF CachedGroup, MbrList, Sub
<1>6. /\ [cache[g] EXCEPT !.mbr[s][r] = p].using = cache[g].using
      /\ [cache[g] EXCEPT !.mbr[s][r] = p].out = cache[g].out
    BY <1>4 DEF CachedGroup
<1>7. cache' \in [Group -> CachedGroup \cup {None}] /\ Live' = Live
    BY <1>1, <1>5, IpmcAssumption DEF IInv, TypeOK, Live
<1>8. \A h \in Live : cache'[h].using = cache[h].using /\ cache'[h].out = cache[h].out
    BY <1>1, <1>6 DEF IInv, TypeOK, Live
<1>9. TypeOK'
    BY <1>3, <1>7 DEF IInv, TypeOK, Live, Idle
<1>10. GroupsInSai'
    BY <1>1, <1>2, <1>7, IpmcAssumption DEF IInv, TypeOK, GroupsInSai, Live
<1> QED BY <1>7, <1>8, <1>9, <1>10, MembersOnly DEF IInv

LEMMA AddMemberStep ==
    ASSUME IInv, NEW g \in Group, NEW s \in Sub, NEW r \in Rif(s), NEW ports \in PortList[s],
           AddMember(g, s, r, ports)
    PROVE  IInv'
BY BridgePortsType, MemberChange DEF AddMember

LEMMA DelMemberStep ==
    ASSUME IInv, NEW g \in Group, NEW s \in Sub, NEW r \in Rif(s), DelMember(g, s, r)
    PROVE  IInv'
BY MemberChange DEF DelMember

LEMMA UpdateMemberStep ==
    ASSUME IInv, NEW g \in Group, NEW s \in Sub, NEW r \in Rif(s), NEW ports \in PortList[s],
           UpdateMember(g, s, r, ports)
    PROVE  IInv'
BY BridgePortsType, MemberChange DEF UpdateMember

-----------------------------------------------------------------------------
\* A step of a route leaves SAI's groups, and the cache's but for their lists
\* of routes.
LEMMA RouteStep ==
    ASSUME IInv, call = Idle, UNCHANGED <<sai, call, half>>,
           entries' \in [Entry -> SaiEntry \cup {None}],
           route' \in [Entry -> Group \cup {None}],
           cache' \in [Group -> CachedGroup \cup {None}], Live' = Live,
           torn' \subseteq Entry, RouteTablesAgree', RouteFollowsGroup'
    PROVE  IInv'
<1>1. TypeOK'
    BY DEF IInv, TypeOK, Idle
<1>2. DeletesUnused' /\ GroupsInSai'
    BY DEF IInv, DeletesUnused, GroupsInSai
<1> QED BY <1>1, <1>2 DEF IInv

\* The cache with route e put in the list of group g, or taken off it.
Using(g, e, u) == [cache EXCEPT ![g].using[e] = u]

\* The list of a group is all that changes.
LEMMA UsingChange ==
    ASSUME IInv, NEW e \in Entry, NEW g \in Live, NEW u \in BOOLEAN \cup {None},
           cache' = Using(g, e, u)
    PROVE  /\ cache' \in [Group -> CachedGroup \cup {None}]
           /\ Live' = Live
           /\ \A h \in Live : cache'[h].out = cache[h].out
           /\ \A h \in Live, f \in Entry :
                 cache'[h].using[f] = IF h = g /\ f = e THEN u ELSE cache[h].using[f]
<1>1. cache[g] \in CachedGroup /\ g \in Group
    BY DEF IInv, TypeOK, Live
<1>2. [cache[g] EXCEPT !.using[e] = u] \in CachedGroup
    BY <1>1 DEF CachedGroup
<1>3. cache' \in [Group -> CachedGroup \cup {None}] /\ cache'[g] = [cache[g] EXCEPT !.using[e] = u]
    BY <1>1, <1>2 DEF Using, IInv, TypeOK
<1>4. \A h \in Group \ {g} : cache'[h] = cache[h]
    BY DEF Using, IInv, TypeOK
<1>5. \A h \in Group : cache'[h] # None <=> cache[h] # None
    BY <1>1, <1>2, <1>3, <1>4, IpmcAssumption
<1>6. cache'[g].out = cache[g].out /\ \A f \in Entry : cache'[g].using[f] = IF f = e THEN u ELSE cache[g].using[f]
    BY <1>1, <1>3 DEF CachedGroup
<1>7. Live' = Live
    BY <1>5 DEF Live
<1> QED BY <1>1, <1>3, <1>6, <1>4, <1>7 DEF Live

LEMMA CreateEntryStep ==
    ASSUME IInv, NEW e \in Entry, NEW g \in Group, NEW cpu \in BOOLEAN, CreateEntry(e, g, cpu)
    PROVE  IInv'
<1>1. route[e] = None /\ cache[g].using[e] = None /\ g \in Live
    BY DEF CreateEntry, IInv, RouteTablesAgree
<1>2. cache' = Using(g, e, cpu) /\ route' = [route EXCEPT ![e] = g]
    BY <1>1 DEF CreateEntry, Using
<1>3. /\ cache' \in [Group -> CachedGroup \cup {None}]
      /\ Live' = Live
      /\ \A h \in Live : cache'[h].out = cache[h].out
      /\ \A h \in Live, f \in Entry :
            cache'[h].using[f] = IF h = g /\ f = e THEN cpu ELSE cache[h].using[f]
    BY <1>1, <1>2, UsingChange
<1>4. /\ entries' \in [Entry -> SaiEntry \cup {None}]
      /\ entries'[e] = [rpf |-> g, ipmc |-> Output(g), cpu |-> cpu]
      /\ entries'[e] # None
      /\ \A f \in Entry \ {e} : entries'[f] = entries[f]
    BY IpmcAssumption DEF CreateEntry, Output, SaiEntry, IInv, TypeOK
<1>5. /\ route' \in [Entry -> Group \cup {None}] /\ route'[e] = g
      /\ \A f \in Entry \ {e} : route'[f] = route[f]
    BY <1>2 DEF IInv, TypeOK
<1>6. g # None /\ cpu # None
    BY IpmcAssumption
<1>7. RouteTablesAgree'
    BY <1>1, <1>3, <1>4, <1>5, <1>6 DEF IInv, RouteTablesAgree
<1>8. RouteFollowsGroup'
    BY <1>1, <1>3, <1>4, <1>5, InSaiListed DEF IInv, RouteFollowsGroup, CreateEntry, Output
<1>9. torn' \subseteq Entry
    BY DEF CreateEntry, IInv, TypeOK
<1> QED BY <1>3, <1>4, <1>5, <1>7, <1>8, <1>9, RouteStep DEF CreateEntry

LEMMA DeleteEntryStep ==
    ASSUME IInv, NEW e \in Entry, DeleteEntry(e)
    PROVE  IInv'
<1>1. Listed(e) /\ route[e] \in Live
    BY InSaiListed DEF DeleteEntry
<1>2. cache' = Using(route[e], e, None) /\ route' = [route EXCEPT ![e] = None]
    BY <1>1 DEF DeleteEntry, Using
<1>3. /\ cache' \in [Group -> CachedGroup \cup {None}]
      /\ Live' = Live
      /\ \A h \in Live : cache'[h].out = cache[h].out
      /\ \A h \in Live, f \in Entry :
            cache'[h].using[f] = IF h = route[e] /\ f = e THEN None ELSE cache[h].using[f]
    BY <1>1, <1>2, UsingChange
<1>4. /\ entries' \in [Entry -> SaiEntry \cup {None}] /\ entries'[e] = None
      /\ \A f \in Entry \ {e} : entries'[f] = entries[f]
    BY DEF DeleteEntry, IInv, TypeOK
<1>5. /\ route' \in [Entry -> Group \cup {None}] /\ route'[e] = None
      /\ \A f \in Entry \ {e} : route'[f] = route[f]
    BY <1>2 DEF IInv, TypeOK
<1>6. RouteTablesAgree'
    BY <1>1, <1>3, <1>4, <1>5 DEF IInv, RouteTablesAgree
<1>7. RouteFollowsGroup'
    BY <1>3, <1>4, <1>5, InSaiListed DEF IInv, RouteFollowsGroup, DeleteEntry
<1>8. torn' \subseteq Entry
    BY DEF DeleteEntry, IInv, TypeOK
<1> QED BY <1>3, <1>4, <1>5, <1>6, <1>7, <1>8, RouteStep DEF DeleteEntry

LEMMA CopyToCpuStep ==
    ASSUME IInv, NEW e \in Entry, NEW cpu \in BOOLEAN, CopyToCpu(e, cpu)
    PROVE  IInv'
<1>1. Listed(e) /\ route[e] \in Live /\ cpu # None
    BY InSaiListed, IpmcAssumption DEF CopyToCpu
<1>2. cache' = Using(route[e], e, cpu)
    BY <1>1 DEF CopyToCpu, Using
<1>3. /\ cache' \in [Group -> CachedGroup \cup {None}]
      /\ Live' = Live
      /\ \A h \in Live : cache'[h].out = cache[h].out
      /\ \A h \in Live, f \in Entry :
            cache'[h].using[f] = IF h = route[e] /\ f = e THEN cpu ELSE cache[h].using[f]
    BY <1>1, <1>2, UsingChange
<1>4. entries[e] \in SaiEntry
    BY DEF CopyToCpu, IInv, TypeOK
<1>5. /\ [entries[e] EXCEPT !.cpu = cpu] \in SaiEntry
      /\ [entries[e] EXCEPT !.cpu = cpu].rpf = entries[e].rpf
      /\ [entries[e] EXCEPT !.cpu = cpu].ipmc = entries[e].ipmc
      /\ [entries[e] EXCEPT !.cpu = cpu].cpu = cpu
    BY <1>4 DEF SaiEntry
<1>6. /\ entries' \in [Entry -> SaiEntry \cup {None}]
      /\ entries'[e] = [entries[e] EXCEPT !.cpu = cpu]
      /\ entries'[e] # None
      /\ \A f \in Entry \ {e} : entries'[f] = entries[f]
    BY <1>5, IpmcAssumption DEF CopyToCpu, IInv, TypeOK
<1>7. RouteTablesAgree'
    BY <1>1, <1>3, <1>6 DEF IInv, RouteTablesAgree, CopyToCpu, Listed
<1>8. RouteFollowsGroup'
    BY <1>1, <1>3, <1>5, <1>6, InSaiListed DEF IInv, RouteFollowsGroup, CopyToCpu
<1>9. route' \in [Entry -> Group \cup {None}] /\ torn' \subseteq Entry
    BY DEF CopyToCpu, IInv, TypeOK
<1> QED BY <1>3, <1>6, <1>7, <1>8, <1>9, RouteStep DEF CopyToCpu

\* What a route is after the first n attributes of a move, and after all.
LEMMA MovedType ==
    ASSUME IInv, NEW e \in Entry, entries[e] # None, NEW g \in Group, NEW cpu \in BOOLEAN,
           NEW n \in 1 .. 3
    PROVE  /\ Moved(e, g, cpu, n) \in SaiEntry
           /\ Moved(e, g, cpu, n).rpf = g
           /\ n >= 2 => Moved(e, g, cpu, n).cpu = cpu
           /\ n = 3 => Moved(e, g, cpu, n).ipmc = g
<1>1. entries[e] \in SaiEntry
    BY DEF IInv, TypeOK
<1>2. entries[e].ipmc \in Group \cup {None} /\ entries[e].cpu \in BOOLEAN
    BY <1>1 DEF SaiEntry
<1> QED BY <1>2 DEF Moved, SaiEntry

LEMMA MoveStopsStep ==
    ASSUME IInv, NEW e \in Entry, NEW g \in Group, NEW cpu \in BOOLEAN, MoveStops(e, g, cpu)
    PROVE  IInv'
<1>1. PICK n \in 1 .. (Sets(g) - 1) : entries' = [entries EXCEPT ![e] = Moved(e, g, cpu, n)]
    BY DEF MoveStops
<1>2. n \in 1 .. 3
    BY DEF Sets
<1>3. Moved(e, g, cpu, n) \in SaiEntry
    BY <1>2, MovedType DEF MoveStops
<1>4. /\ entries' \in [Entry -> SaiEntry \cup {None}]
      /\ entries'[e] # None
      /\ \A f \in Entry \ {e} : entries'[f] = entries[f]
    BY <1>1, <1>3, IpmcAssumption DEF IInv, TypeOK
<1>5. RouteTablesAgree'
    BY <1>4 DEF MoveStops, IInv, RouteTablesAgree, Live
<1>6. RouteFollowsGroup'
    BY <1>4 DEF MoveStops, IInv, RouteFollowsGroup
<1>7. /\ cache' \in [Group -> CachedGroup \cup {None}] /\ Live' = Live
      /\ route' \in [Entry -> Group \cup {None}] /\ torn' \subseteq Entry
    BY DEF MoveStops, IInv, TypeOK, Live
<1> QED BY <1>4, <1>5, <1>6, <1>7, RouteStep DEF MoveStops

\* A route that moves leaves one list for another, which may be the same.
LEMMA RelistedType ==
    ASSUME IInv, NEW e \in Entry, route[e] \in Live, NEW g \in Live, NEW cpu \in BOOLEAN,
           cache' = Relisted(e, g, cpu)
    PROVE  /\ cache' \in [Group -> CachedGroup \cup {None}]
           /\ Live' = Live
           /\ \A h \in Live : cache'[h].out = cache[h].out
           /\ \A h \in Live, f \in Entry :
                 cache'[h].using[f] = IF f # e THEN cache[h].using[f]
                                      ELSE IF h = g THEN cpu
                                      ELSE IF h = route[e] THEN None ELSE cache[h].using[f]
<1> DEFINE a == route[e]
           c == [cache EXCEPT ![a].using[e] = None]
<1>1. a \in Group /\ g \in Group /\ cache[a] \in CachedGroup /\ cache[g] \in CachedGroup
    BY DEF IInv, TypeOK, Live
<1>2. /\ [cache[a] EXCEPT !.using[e] = None] \in CachedGroup
      /\ [cache[a] EXCEPT !.using[e] = None].out = cache[a].out
      /\ \A f \in Entry : [cache[a] EXCEPT !.using[e] = None].using[f]
                             = IF f = e THEN None ELSE cache[a].using[f]
    BY <1>1 DEF CachedGroup
<1>3. /\ c \in [Group -> CachedGroup \cup {None}]
      /\ c[a] = [cache[a] EXCEPT !.using[e] = None]
      /\ \A h \in Group \ {a} : c[h] = cache[h]
    BY <1>1, <1>2 DEF IInv, TypeOK
<1>4. c[g] \in CachedGroup
    BY <1>1, <1>2, <1>3
<1>5. cache' = [c EXCEPT ![g].using[e] = cpu]
    BY DEF Relisted
<1> HIDE DEF c, a
<1>6. /\ [c[g] EXCEPT !.using[e] = cpu] \in CachedGroup
      /\ [c[g] EXCEPT !.using[e] = cpu].out = c[g].out
      /\ \A f \in Entry : [c[g] EXCEPT !.using[e] = cpu].using[f]
                             = IF f = e THEN cpu ELSE c[g].using[f]
    BY <1>4 DEF CachedGroup
<1>7. /\ cache' \in [Group -> CachedGroup \cup {None}]
      /\ cache'[g] = [c[g] EXCEPT !.using[e] = cpu]
      /\ \A h \in Group \ {g} : cache'[h] = c[h]
    BY <1>1, <1>3, <1>5, <1>6
<1>8. Live' = Live
    BY <1>1, <1>2, <1>3, <1>6, <1>7, IpmcAssumption DEF Live
<1>11. \A h \in Live : /\ c[h].out = cache[h].out
                       /\ \A f \in Entry : c[h].using[f] = IF h = a /\ f = e THEN None
                                                           ELSE cache[h].using[f]
    <2> TAKE h \in Live
    <2>1. CASE h = a
        BY <1>2, <1>3, <2>1
    <2>2. CASE h # a
        BY <1>3, <2>2 DEF Live
    <2> QED BY <2>1, <2>2
<1>12. \A h \in Live : /\ cache'[h].out = c[h].out
                       /\ \A f \in Entry : cache'[h].using[f] = IF h = g /\ f = e THEN cpu
                                                                ELSE c[h].using[f]
    <2> TAKE h \in Live
    <2>1. CASE h = g
        BY <1>6, <1>7, <2>1
    <2>2. CASE h # g
        BY <1>7, <2>2 DEF Live
    <2> QED BY <2>1, <2>2
<1>9. \A h \in Live : cache'[h].out = cache[h].out
    BY <1>11, <1>12
<1>10. \A h \in Live, f \in Entry :
          cache'[h].using[f] = IF f # e THEN cache[h].using[f]
                               ELSE IF h = g THEN cpu
                               ELSE IF h = a THEN None ELSE cache[h].using[f]
    BY <1>11, <1>12
<1> QED BY <1>7, <1>8, <1>9, <1>10 DEF a

LEMMA MoveEntryStep ==
    ASSUME IInv, NEW e \in Entry, NEW g \in Group, NEW cpu \in BOOLEAN, MoveEntry(e, g, cpu)
    PROVE  IInv'
<1>1. Listed(e) /\ route[e] \in Live /\ g \in Live /\ g # None /\ cpu # None
    BY InSaiListed, IpmcAssumption DEF MoveEntry
<1>2. cache' = Relisted(e, g, cpu) /\ route' = [route EXCEPT ![e] = g]
    BY <1>1 DEF MoveEntry
<1>3. /\ cache' \in [Group -> CachedGroup \cup {None}]
      /\ Live' = Live
      /\ \A h \in Live : cache'[h].out = cache[h].out
      /\ \A h \in Live, f \in Entry :
            cache'[h].using[f] = IF f # e THEN cache[h].using[f]
                                 ELSE IF h = g THEN cpu
                                 ELSE IF h = route[e] THEN None ELSE cache[h].using[f]
    BY <1>1, <1>2, RelistedType
<1>4. \A h \in Live : h # route[e] => cache[h].using[e] = None
    BY DEF IInv, RouteTablesAgree, Live
<1>5. /\ Moved(e, g, cpu, Sets(g)) \in SaiEntry
      /\ Moved(e, g, cpu, Sets(g)).rpf = g
      /\ Moved(e, g, cpu, Sets(g)).cpu = cpu
      /\ cache[g].out => Moved(e, g, cpu, Sets(g)).ipmc = g
    BY MovedType DEF MoveEntry, Sets
<1>6. /\ entries' \in [Entry -> SaiEntry \cup {None}]
      /\ entries'[e] = Moved(e, g, cpu, Sets(g))
      /\ entries'[e] # None
      /\ \A f \in Entry \ {e} : entries'[f] = entries[f]
    BY <1>5, IpmcAssumption DEF MoveEntry, IInv, TypeOK
<1>7. /\ route' \in [Entry -> Group \cup {None}] /\ route'[e] = g
      /\ \A f \in Entry \ {e} : route'[f] = route[f]
    BY <1>2 DEF IInv, TypeOK
<1>8. RouteTablesAgree'
    BY <1>1, <1>3, <1>4, <1>6, <1>7 DEF IInv, RouteTablesAgree
<1>9. RouteFollowsGroup'
    BY <1>1, <1>3, <1>5, <1>6, <1>7, InSaiListed DEF IInv, RouteFollowsGroup, MoveEntry
<1>10. torn' \subseteq Entry
    BY DEF MoveEntry, IInv, TypeOK
<1> QED BY <1>3, <1>6, <1>7, <1>8, <1>9, <1>10, RouteStep DEF MoveEntry

-----------------------------------------------------------------------------
\* Every step keeps the invariant.
LEMMA NextIInv == IInv /\ [Next]_vars => IInv'
<1> SUFFICES ASSUME IInv, [Next]_vars PROVE IInv'
    OBVIOUS
<1>1. CASE \E g \in Group : CreateGivenUp(g) \/ CreateEmpty(g) \/ DeleteGroup(g)
    <2>1. PICK g \in Group : CreateGivenUp(g) \/ CreateEmpty(g) \/ DeleteGroup(g)
        BY <1>1
    <2>2. \A s \in Sub : NoMembers(s) \in MbrList(s)
        BY DEF NoMembers, MbrList
    <2>3. ASSUME CreateEmpty(g) PROVE IInv'
        BY <2>2, <2>3, NewGroupStep DEF CreateEmpty, Sub
    <2> QED BY <2>1, <2>3, CreateGivenUpStep, DeleteGroupStep
<1>2. CASE \E g \in Group, r \in Iif, ports \in PortList["rpf"] : CreateGroup(g, r, ports)
    <2>1. PICK g \in Group, r \in Iif, ports \in PortList["rpf"] : CreateGroup(g, r, ports)
        BY <1>2
    <2>2. [NoMembers("rpf") EXCEPT ![r] = ports] \in MbrList("rpf")
        BY DEF NoMembers, MbrList, Rif
    <2>3. \A oifs \in [Oif -> PortList["ipmc"] \cup {None}] : oifs \in MbrList("ipmc")
        BY DEF MbrList, Rif
    <2> QED BY <2>1, <2>2, <2>3, NewGroupStep DEF CreateGroup
<1>3. CASE \E r \in Iif \cup Oif : DeleteMember(r)
    BY <1>3, DeleteMemberStep
<1>4. CASE DeleteSubgroup \/ DeleteRepl \/ DeleteStops
    BY <1>4, DeleteSubgroupStep, DeleteReplStep, DeleteStopsStep
<1>5. CASE \E g \in Group, s \in Sub : \E r \in Rif(s) :
              \/ DelMember(g, s, r)
              \/ \E ports \in PortList[s] : AddMember(g, s, r, ports) \/ UpdateMember(g, s, r, ports)
    BY <1>5, DelMemberStep, AddMemberStep, UpdateMemberStep
<1>6. CASE \E e \in Entry, g \in Group, cpu \in BOOLEAN :
              CreateEntry(e, g, cpu) \/ MoveEntry(e, g, cpu) \/ MoveStops(e, g, cpu)
    BY <1>6, CreateEntryStep, MoveEntryStep, MoveStopsStep
<1>7. CASE \E e \in Entry : DeleteEntry(e)
    BY <1>7, DeleteEntryStep
<1>8. CASE \E e \in Entry, cpu \in BOOLEAN : CopyToCpu(e, cpu)
    BY <1>8, CopyToCpuStep
<1>9. CASE UNCHANGED vars
    BY <1>9 DEF vars, IInv, TypeOK, RouteTablesAgree, RouteFollowsGroup, DeletesUnused,
       GroupsInSai, Live, Recorded, Members, Used, Idle
<1> QED BY <1>1, <1>2, <1>3, <1>4, <1>5, <1>6, <1>7, <1>8, <1>9 DEF Next

LEMMA Invariance == Spec => []IInv
BY InitIInv, NextIInv, PTL DEF Spec

-----------------------------------------------------------------------------
\* Groups, routes and members stay well formed in the cache and in SAI, and a
\* deletion under way is one of a group on record.
THEOREM TypeCorrect == Spec => []TypeOK
<1>1. IInv => TypeOK
    BY DEF IInv
<1> QED BY <1>1, Invariance, PTL

\* add_ipmc_entry, update_ipmc_entry and del_ipmc_entry keep the map of routes,
\* the lists of the groups and SAI together, whatever SAI refuses.
THEOREM RouteTablesAlwaysAgree == Spec => []RouteTablesAgree
<1>1. IInv => RouteTablesAgree
    BY DEF IInv
<1> QED BY <1>1, Invariance, PTL

\* A route does in SAI what the list it is in says, unless its last update was
\* stopped half way.
THEOREM RoutesAlwaysFollow == Spec => []RouteFollowsGroup
<1>1. IInv => RouteFollowsGroup
    BY DEF IInv
<1> QED BY <1>1, Invariance, PTL

-----------------------------------------------------------------------------
\* A group with a route is in the cache, and not being deleted.
LEMMA RoutedGroup ==
    ASSUME IInv, NEW g \in {route[e] : e \in Entry} \ {None}
    PROVE  g \in Live /\ g \in Group /\ (call # Idle => g # call.grp)
<1>1. PICK e \in Entry : g = route[e]
    OBVIOUS
<1>2. g \in Group /\ g \in Live /\ cache[g].using[e] # None
    BY <1>1 DEF IInv, TypeOK, RouteTablesAgree
<1> QED BY <1>2 DEF IInv, DeletesUnused, Used

\* One member of one group changes, and is still there or gone from both.
LEMMA MemberKept ==
    ASSUME IInv, NEW h \in Live, NEW t \in Sub, NEW q \in Rif(t), SaiHas(h, t),
           NEW v \in (SUBSET Bridged) \cup {None}, sai' = [sai EXCEPT ![h][t][q] = v],
           v # None \/ (q \in Recorded(h, t) /\ q \notin Recorded(h, t)')
    PROVE  MembersKept
<1> SUFFICES ASSUME NEW g \in {route[e] : e \in Entry} \ {None}, NEW s \in Sub, NEW r \in Rif(s),
                    SaiHas(g, s), sai[g][s][r] # None,
                    ~(SaiHas(g, s)' /\ sai'[g][s][r] # None)
             PROVE  r \in Recorded(g, s) /\ r \notin Recorded(g, s)'
    BY DEF MembersKept
<1>1. /\ h \in Group /\ g \in Group
      /\ sai[h] \in SaiGroup /\ sai[h][t] \in SaiMbrList(t)
      /\ sai[g] \in SaiGroup
    BY RoutedGroup DEF SaiHas, IInv, TypeOK, Live, SaiGroup, Sub
<1>2. [sai[h] EXCEPT ![t][q] = v] \in SaiGroup
    BY <1>1 DEF SaiGroup, SaiMbrList, Sub
<1>3. [sai[h] EXCEPT ![t][q] = v][t] = [sai[h][t] EXCEPT ![q] = v]
    BY <1>1 DEF SaiGroup, Sub
<1>4. [sai[h][t] EXCEPT ![q] = v] \in SaiMbrList(t)
    BY <1>1 DEF SaiMbrList
<1>5. \A u \in Sub \ {t} : [sai[h] EXCEPT ![t][q] = v][u] = sai[h][u]
    BY <1>1 DEF SaiGroup, Sub
<1>6. sai'[h] = [sai[h] EXCEPT ![t][q] = v] /\ (g # h => sai'[g] = sai[g])
    BY <1>1 DEF IInv, TypeOK
<1>7. g = h
    BY <1>6 DEF SaiHas
<1>8. s = t
    BY <1>2, <1>5, <1>6, <1>7, IpmcAssumption DEF SaiHas
<1>9. r = q
    BY <1>1, <1>2, <1>3, <1>4, <1>6, <1>7, <1>8, IpmcAssumption DEF SaiHas, SaiMbrList
<1>10. v = None
    BY <1>1, <1>2, <1>3, <1>4, <1>6, <1>7, <1>8, <1>9, IpmcAssumption DEF SaiHas, SaiMbrList
<1> QED BY <1>7, <1>8, <1>9, <1>10

\* What is not a change of one member leaves every group with a route alone.
LEMMA OthersKept ==
    ASSUME IInv, \A g \in {route[e] : e \in Entry} \ {None} : sai'[g] = sai[g]
    PROVE  MembersKept
BY DEF MembersKept, SaiHas

LEMMA NextKeepsMembers == IInv /\ [Next]_vars => [MembersKept]_vars
<1> SUFFICES ASSUME IInv, Next PROVE MembersKept
    OBVIOUS
<1> USE DEF IInv, TypeOK
<1>1. CASE \E g \in Group : CreateGivenUp(g) \/ CreateEmpty(g) \/ DeleteGroup(g)
    BY <1>1, OthersKept, RoutedGroup
       DEF CreateGivenUp, CreateEmpty, DeleteGroup, NewGroup, FreshId, Live
<1>2. CASE \E g \in Group, r \in Iif, ports \in PortList["rpf"] : CreateGroup(g, r, ports)
    BY <1>2, OthersKept, RoutedGroup DEF CreateGroup, NewGroup, FreshId, Live
<1>3. CASE \E r \in Iif \cup Oif : DeleteMember(r)
    BY <1>3, OthersKept, RoutedGroup DEF DeleteMember, Idle, Sub
<1>4. CASE DeleteSubgroup \/ DeleteRepl \/ DeleteStops
    BY <1>4, OthersKept, RoutedGroup DEF DeleteSubgroup, DeleteRepl, DeleteStops, Idle, Sub
<1>5. CASE \E g \in Group, s \in Sub : \E r \in Rif(s) :
              \/ DelMember(g, s, r)
              \/ \E ports \in PortList[s] : AddMember(g, s, r, ports) \/ UpdateMember(g, s, r, ports)
    <2>1. PICK g \in Group, s \in Sub : \E r \in Rif(s) :
              \/ DelMember(g, s, r)
              \/ \E ports \in PortList[s] : AddMember(g, s, r, ports) \/ UpdateMember(g, s, r, ports)
        BY <1>5
    <2>2. PICK r \in Rif(s) :
              \/ DelMember(g, s, r)
              \/ \E ports \in PortList[s] : AddMember(g, s, r, ports) \/ UpdateMember(g, s, r, ports)
        BY <2>1
    <2>3. CASE DelMember(g, s, r)
        <3>1. cache[g] \in CachedGroup /\ g \in Live /\ r \in Recorded(g, s)
            BY <2>3 DEF DelMember, Live
        <3>2. cache'[g].mbr[s][r] = None
            BY <2>3, <3>1 DEF DelMember, CachedGroup, MbrList, Sub
        <3>3. r \notin Recorded(g, s)'
            BY <3>2 DEF Recorded, Members
        <3> QED BY <2>3, <3>1, <3>3, MemberKept DEF DelMember
    <2>4. CASE \E ports \in PortList[s] : AddMember(g, s, r, ports) \/ UpdateMember(g, s, r, ports)
        <3>1. PICK ports \in PortList[s] : AddMember(g, s, r, ports) \/ UpdateMember(g, s, r, ports)
            BY <2>4
        <3>2. BridgePorts(ports) \in SUBSET Bridged /\ BridgePorts(ports) # None
            BY BridgePortsType
        <3>3. /\ sai' = [sai EXCEPT ![g][s][r] = BridgePorts(ports)]
              /\ g \in Live /\ SaiHas(g, s)
            BY <3>1 DEF AddMember, UpdateMember
        <3> HIDE DEF IInv
        <3> QED BY <3>2, <3>3, MemberKept
    <2> QED BY <2>2, <2>3, <2>4
<1>6. CASE \E e \in Entry, g \in Group, cpu \in BOOLEAN :
              CreateEntry(e, g, cpu) \/ MoveEntry(e, g, cpu) \/ MoveStops(e, g, cpu)
    BY <1>6, OthersKept DEF CreateEntry, MoveEntry, MoveStops
<1>7. CASE \E e \in Entry : DeleteEntry(e)
    BY <1>7, OthersKept DEF DeleteEntry
<1>8. CASE \E e \in Entry, cpu \in BOOLEAN : CopyToCpu(e, cpu)
    BY <1>8, OthersKept DEF CopyToCpu
<1> QED BY <1>1, <1>2, <1>3, <1>4, <1>5, <1>6, <1>7, <1>8 DEF Next

\* ndi_delete_repl_group asks is_repl_group_used before it takes the first
\* member out: no deletion, stopped or not, takes a member from a route.
THEOREM RoutesAlwaysKeepMembers == Spec => RoutesKeepMembers
BY Invariance, NextKeepsMembers, PTL DEF Spec, RoutesKeepMembers

-----------------------------------------------------------------------------
(* Groups as recorded.                                                     *)

\* The group is in SAI with its subgroups and its members, and sends nowhere
\* else.
AsRecorded(g) ==
    /\ SaiHas(g, "rpf")
    /\ \A r \in Recorded(g, "rpf") : sai[g].rpf[r] = BridgePorts(cache[g].mbr.rpf[r])
    /\ sai[g].ipmc = IF cache[g].out THEN ToSai(cache[g].mbr.ipmc) ELSE None

\* The deletion under way has not reached group g, or has taken nothing yet.
Untouched(g) == call = Idle \/ g # call.grp \/ (call.at = "rpf" /\ call.left # {})

\* A group has one incoming interface at most, so a deletion that has one left
\* to remove has removed none.
GroupsInv ==
    /\ \A g \in Live : \A a, b \in Recorded(g, "rpf") : a = b
    /\ call # Idle /\ call.at = "rpf" => call.left \in {{}, Recorded(call.grp, "rpf")}
    /\ \A g \in Live \ half : Untouched(g) => AsRecorded(g)

\* What a step leaves of a group is as it was.
LEMMA SameGroup ==
    ASSUME NEW g, sai'[g] = sai[g], cache'[g].mbr = cache[g].mbr, cache'[g].out = cache[g].out
    PROVE  /\ AsRecorded(g) => AsRecorded(g)'
           /\ \A s \in Sub : Recorded(g, s)' = Recorded(g, s)
<1>1. \A s \in Sub : Recorded(g, s)' = Recorded(g, s)
    BY DEF Recorded
<1>2. Recorded(g, "rpf")' = Recorded(g, "rpf")
    BY <1>1 DEF Sub
<1>3. SaiHas(g, "rpf")' <=> SaiHas(g, "rpf")
    BY DEF SaiHas
<1>4. \A r : BridgePorts(cache'[g].mbr.rpf[r]) = BridgePorts(cache[g].mbr.rpf[r])
    OBVIOUS
<1>5. ToSai(cache'[g].mbr.ipmc) = ToSai(cache[g].mbr.ipmc)
    OBVIOUS
<1>6. ASSUME AsRecorded(g)
      PROVE  AsRecorded(g)'
    BY <1>2, <1>3, <1>4, <1>5, <1>6 DEF AsRecorded
<1> QED BY <1>1, <1>6

\* A step between calls that leaves the members of all groups alone.
LEMMA GroupsLeft ==
    ASSUME GroupsInv, UNCHANGED <<sai, call, half>>, Live' = Live,
           \A g \in Live : cache'[g].mbr = cache[g].mbr /\ cache'[g].out = cache[g].out
    PROVE  call = Idle => GroupsInv'
<1> SUFFICES ASSUME call = Idle
             PROVE  GroupsInv'
    OBVIOUS
<1>1. \A g \in Live : /\ AsRecorded(g) => AsRecorded(g)'
                      /\ \A s \in Sub : Recorded(g, s)' = Recorded(g, s)
    BY SameGroup
<1>2. \A g \in Live : Recorded(g, "rpf")' = Recorded(g, "rpf")
    BY <1>1 DEF Sub
<1>3. \A g : Untouched(g)
    BY DEF Untouched
<1> QED BY <1>1, <1>2, <1>3 DEF GroupsInv

\* The list of routes of a group is not its members.
LEMMA UsingMembers ==
    ASSUME NEW c \in [Group -> CachedGroup \cup {None}], NEW g \in Group, c[g] \in CachedGroup,
           NEW e \in Entry, NEW u
    PROVE  /\ \A h \in Group : /\ [c EXCEPT ![g].using[e] = u][h].mbr = c[h].mbr
                               /\ [c EXCEPT ![g].using[e] = u][h].out = c[h].out
<1>1. /\ [c[g] EXCEPT !.using[e] = u].mbr = c[g].mbr
      /\ [c[g] EXCEPT !.using[e] = u].out = c[g].out
    BY DEF CachedGroup
<1>2. \A h \in Group : [c EXCEPT ![g].using[e] = u][h] =
                          IF h = g THEN [c[g] EXCEPT !.using[e] = u] ELSE c[h]
    OBVIOUS
<1> QED BY <1>1, <1>2

\* The calls on routes.
LEMMA RoutesKeepGroups ==
    ASSUME IInv, GroupsInv, NEW e \in Entry, call = Idle, UNCHANGED <<sai, call, half>>,
           \/ cache' = cache
           \/ \E g \in Live, u \in BOOLEAN \cup {None} : cache' = Using(g, e, u)
           \/ route[e] \in Live /\ \E g \in Live, cpu \in BOOLEAN : cache' = Relisted(e, g, cpu)
    PROVE  GroupsInv'
<1>1. cache \in [Group -> CachedGroup \cup {None}]
    BY DEF IInv, TypeOK
<1>2. \A g \in Live : g \in Group /\ cache[g] \in CachedGroup
    BY <1>1 DEF Live
<1>3. CASE cache' = cache
    BY <1>3, GroupsLeft DEF Live
<1>4. CASE \E g \in Live, u \in BOOLEAN \cup {None} : cache' = Using(g, e, u)
    <2>1. PICK g \in Live, u \in BOOLEAN \cup {None} : cache' = Using(g, e, u)
        BY <1>4
    <2>2. Live' = Live
        BY <2>1, UsingChange
    <2>3. \A h \in Group : cache'[h].mbr = cache[h].mbr /\ cache'[h].out = cache[h].out
        BY <1>1, <1>2, <2>1, UsingMembers DEF Using
    <2> QED BY <1>2, <2>2, <2>3, GroupsLeft
<1>5. CASE route[e] \in Live /\ \E g \in Live, cpu \in BOOLEAN : cache' = Relisted(e, g, cpu)
    <2>1. PICK g \in Live, cpu \in BOOLEAN : cache' = Relisted(e, g, cpu)
        BY <1>5
    <2>2. PICK a \in Live : a = route[e]
        BY <1>5
    <2>3. Live' = Live
        BY <1>5, <2>1, RelistedType
    <2> DEFINE c == [cache EXCEPT ![a].using[e] = None]
    <2>4. \A h \in Group : c[h].mbr = cache[h].mbr /\ c[h].out = cache[h].out
        BY <1>1, <1>2, UsingMembers
    <2>5. c \in [Group -> CachedGroup \cup {None}] /\ c[g] \in CachedGroup
        <3>1. [cache[a] EXCEPT !.using[e] = None] \in CachedGroup
            BY <1>2 DEF CachedGroup
        <3> QED BY <1>1, <1>2, <3>1
    <2>6. cache' = [c EXCEPT ![g].using[e] = cpu]
        BY <2>1, <2>2 DEF Relisted
    <2> HIDE DEF c
    <2>7. \A h \in Group : cache'[h].mbr = c[h].mbr /\ cache'[h].out = c[h].out
        BY <1>2, <2>5, <2>6, UsingMembers
    <2> QED BY <1>2, <2>3, <2>4, <2>7, GroupsLeft
<1> QED BY <1>3, <1>4, <1>5

\* A creation that is given up is of a group the cache does not have.
LEMMA GivenUpKeepsGroups ==
    ASSUME IInv, GroupsInv, NEW g \in Group, CreateGivenUp(g)
    PROVE  GroupsInv'
<1>1. \A h \in Live : sai'[h] = sai[h] /\ cache'[h] = cache[h]
    BY DEF CreateGivenUp, FreshId, Live, IInv, TypeOK
<1>2. \A h \in Live : (AsRecorded(h) => AsRecorded(h)') /\ Recorded(h, "rpf")' = Recorded(h, "rpf")
    BY <1>1, SameGroup DEF Sub
<1>3. \A h : Untouched(h)
    BY DEF CreateGivenUp, Untouched
<1> QED BY <1>2, <1>3 DEF GroupsInv, CreateGivenUp, Live

\* A new group is in SAI as it is in the cache.
LEMMA NewGroupRecorded ==
    ASSUME IInv, GroupsInv, NEW g \in Group, call = Idle, FreshId(g), NEW out \in BOOLEAN,
           NEW rpf \in MbrList("rpf"), NEW oifs \in MbrList("ipmc"),
           \A a, b \in Members(rpf) : a = b, NewGroup(g, out, rpf, oifs)
    PROVE  GroupsInv'
<1>1. /\ cache'[g] = [out |-> out, mbr |-> [rpf |-> rpf, ipmc |-> oifs], using |-> [e \in Entry |-> None]]
      /\ sai'[g] = [rpf |-> ToSai(rpf), ipmc |-> IF out THEN ToSai(oifs) ELSE None]
      /\ \A h \in Group : h # g => cache'[h] = cache[h] /\ sai'[h] = sai[h]
    BY DEF NewGroup, IInv, TypeOK
<1>2. ToSai(rpf) \in SaiMbrList("rpf") /\ ToSai(oifs) \in SaiMbrList("ipmc")
    BY BridgePortsType DEF ToSai, BridgePorts, Sub, MbrList, SaiMbrList, Rif
<1>3. sai'[g] # None /\ ToSai(rpf) # None
    BY <1>1, <1>2, IpmcAssumption DEF SaiGroup, Sub
<1>4. AsRecorded(g)'
    <2>1. SaiHas(g, "rpf")'
        BY <1>1, <1>3 DEF SaiHas
    <2>2. \A r \in Rif("rpf") : sai'[g].rpf[r] = BridgePorts(cache'[g].mbr.rpf[r])
        BY <1>1 DEF ToSai, MbrList
    <2>3. Recorded(g, "rpf")' \subseteq Rif("rpf")
        BY <1>1 DEF Recorded, Members, MbrList
    <2>4. sai'[g].ipmc = IF cache'[g].out THEN ToSai(cache'[g].mbr.ipmc) ELSE None
        BY <1>1
    <2> QED BY <2>1, <2>2, <2>3, <2>4 DEF AsRecorded
<1>5. \A a, b \in Recorded(g, "rpf")' : a = b
    <2>1. Recorded(g, "rpf")' = Members(rpf)
        BY <1>1 DEF Recorded
    <2> QED BY <2>1
<1>6. \A h \in Live : h \in Group /\ h # g
    BY DEF Live, FreshId
<1>7. \A h \in Live' : h = g \/ h \in Live
    BY <1>1 DEF Live
<1>8. \A h \in Live : (AsRecorded(h) => AsRecorded(h)') /\ Recorded(h, "rpf")' = Recorded(h, "rpf")
    BY <1>1, <1>6, SameGroup DEF Sub
<1>9. (\A h : Untouched(h)) /\ call' = call /\ half' = half
    BY DEF NewGroup, Untouched
<1> QED BY <1>4, <1>5, <1>7, <1>8, <1>9 DEF GroupsInv

\* A deletion begins with the only incoming interface.
LEMMA DeleteGroupRecorded ==
    ASSUME IInv, GroupsInv, NEW g \in Group, DeleteGroup(g)
    PROVE  GroupsInv'
<1>1. /\ UNCHANGED <<sai, cache, half>> /\ Live' = Live /\ call = Idle
      /\ call' = [grp |-> g, at |-> "rpf", left |-> Recorded(g, "rpf")]
    BY DEF DeleteGroup, Live
<1>2. \A h \in Live : (AsRecorded(h) => AsRecorded(h)') /\ Recorded(h, "rpf")' = Recorded(h, "rpf")
    BY <1>1, SameGroup DEF Sub
<1>3. \A h : Untouched(h)
    BY <1>1 DEF Untouched
<1>4. Recorded(g, "rpf")' = Recorded(g, "rpf")
    BY <1>1 DEF Recorded
<1> QED BY <1>1, <1>2, <1>3, <1>4 DEF GroupsInv

\* A step of the deletion under way that leaves the cache and the other groups
\* alone, and takes something from its own.
LEMMA DeletionKeepsOthers ==
    ASSUME IInv, GroupsInv, call # Idle, call'.grp = call.grp, UNCHANGED <<cache, half>>,
           \A g \in Group : g # call.grp => sai'[g] = sai[g],
           call'.at = "rpf" => call'.left = {}, call' # Idle
    PROVE  GroupsInv'
<1>1. Live' = Live /\ \A g : Recorded(g, "rpf")' = Recorded(g, "rpf")
    BY DEF Live, Recorded
<1>2. \A g \in Live : g # call.grp => (AsRecorded(g) => AsRecorded(g)')
    BY SameGroup DEF Live
<1>3. \A g : Untouched(g)' => g # call.grp /\ Untouched(g)
    BY DEF Untouched
<1> QED BY <1>1, <1>2, <1>3 DEF GroupsInv

LEMMA DeleteMemberRecorded ==
    ASSUME IInv, GroupsInv, NEW r \in Iif \cup Oif, DeleteMember(r)
    PROVE  GroupsInv'
<1>1. call # Idle
    BY DEF DeleteMember, Idle, Sub
<1>2. PICK c \in [grp : Live, at : Sub \cup {"repl"}, left : SUBSET (Iif \cup Oif)] : c = call
    BY <1>1, Deleting
<1>3. call' = [c EXCEPT !.left = @ \ {r}] /\ r \in c.left
    BY <1>2 DEF DeleteMember
<1>4. call'.grp = call.grp /\ call'.at = c.at /\ call'.left = c.left \ {r} /\ c.grp \in Live
    BY <1>2, <1>3
<1>5. call' # Idle
    BY <1>2, <1>4, Deleting, <1>1 DEF Idle
<1>6. ASSUME c.at = "rpf"
      PROVE  c.left \ {r} = {}
    <2>1. c.left = Recorded(c.grp, "rpf")
        BY <1>1, <1>2, <1>3, <1>6 DEF GroupsInv
    <2> QED BY <1>3, <1>4, <2>1 DEF GroupsInv
<1>7. \A g \in Group : g # call.grp => sai'[g] = sai[g]
    BY DEF DeleteMember, IInv, TypeOK
<1> QED BY <1>1, <1>4, <1>5, <1>6, <1>7, DeletionKeepsOthers DEF DeleteMember

LEMMA DeleteSubgroupRecorded ==
    ASSUME IInv, GroupsInv, DeleteSubgroup
    PROVE  GroupsInv'
<1>1. call # Idle
    BY DEF DeleteSubgroup, Idle, Sub
<1>2. PICK c \in [grp : Live, at : Sub \cup {"repl"}, left : SUBSET (Iif \cup Oif)] : c = call
    BY <1>1, Deleting
<1>3. PICK oifs : call' = IF c.at = "rpf" /\ oifs # {} THEN [c EXCEPT !.at = "ipmc", !.left = oifs]
                          ELSE [c EXCEPT !.at = "repl"]
    BY <1>2 DEF DeleteSubgroup
<1>4. call'.grp = call.grp /\ call'.at \in {"ipmc", "repl"}
    BY <1>2, <1>3
<1>5. call' # Idle
    BY <1>4 DEF Idle
<1>6. \A g \in Group : g # call.grp => sai'[g] = sai[g]
    BY DEF DeleteSubgroup, IInv, TypeOK
<1> QED BY <1>1, <1>4, <1>5, <1>6, DeletionKeepsOthers DEF DeleteSubgroup

LEMMA DeleteReplRecorded ==
    ASSUME IInv, GroupsInv, DeleteRepl
    PROVE  GroupsInv'
<1>1. PICK g \in Group : g = call.grp
    BY Deleting DEF DeleteRepl, Idle
<1>2. /\ Live' = Live \ {g} /\ half' = half \ {g} /\ call' = Idle
      /\ \A h \in Group : h # g => sai'[h] = sai[h] /\ cache'[h] = cache[h]
    BY <1>1 DEF DeleteRepl, IInv, TypeOK, Live
<1>3. \A h \in Live \ {g} : /\ AsRecorded(h) => AsRecorded(h)'
                            /\ Recorded(h, "rpf")' = Recorded(h, "rpf")
    BY <1>2, SameGroup DEF Sub, Live
<1>4. \A h \in Live \ {g} : Untouched(h)
    BY <1>1 DEF Untouched
<1>5. \A h \in Live' \ half' : AsRecorded(h)'
    BY <1>2, <1>3, <1>4 DEF GroupsInv
<1>6. \A h \in Live' : \A a, b \in Recorded(h, "rpf")' : a = b
    BY <1>2, <1>3 DEF GroupsInv
<1> QED BY <1>2, <1>5, <1>6 DEF GroupsInv

LEMMA DeleteStopsRecorded ==
    ASSUME IInv, GroupsInv, DeleteStops
    PROVE  GroupsInv'
<1>1. /\ UNCHANGED <<sai, cache>> /\ Live' = Live /\ call # Idle /\ call' = Idle
      /\ half' = IF call.at = "rpf" /\ call.left # {} THEN half ELSE half \cup {call.grp}
    BY DEF DeleteStops, Live
<1>2. \A h \in Live : (AsRecorded(h) => AsRecorded(h)') /\ Recorded(h, "rpf")' = Recorded(h, "rpf")
    BY <1>1, SameGroup DEF Sub
<1>3. \A h : h \notin half' => h \notin half /\ Untouched(h)
    BY <1>1 DEF Untouched
<1>4. \A h \in Live' \ half' : AsRecorded(h)'
    BY <1>1, <1>2, <1>3 DEF GroupsInv
<1>5. \A h \in Live' : \A a, b \in Recorded(h, "rpf")' : a = b
    BY <1>1, <1>2 DEF GroupsInv
<1> QED BY <1>1, <1>4, <1>5 DEF GroupsInv

\* One member of a group changes in SAI and in the cache; or, where the cache
\* has no room for it, in SAI alone.
LEMMA MemberRecorded ==
    ASSUME IInv, GroupsInv, NEW g \in Live, NEW s \in Sub, NEW r \in Rif(s), call = Idle,
           SaiHas(g, s), NEW p \in PortList[s] \cup {None},
           sai' = [sai EXCEPT ![g][s][r] = BridgePorts(p)],
           \/ /\ cache' = [cache EXCEPT ![g].mbr[s][r] = p]
              /\ s = "rpf" => \A a \in Recorded(g, s) : a = r
           \/ cache' = cache /\ s = "rpf" /\ r \notin Recorded(g, s),
           UNCHANGED <<call, half>>
    PROVE  GroupsInv'
<1>1. /\ g \in Group /\ sai[g] \in SaiGroup /\ sai[g][s] \in SaiMbrList(s)
      /\ cache[g] \in CachedGroup
      /\ sai \in [Group -> SaiGroup \cup {None}] /\ cache \in [Group -> CachedGroup \cup {None}]
    BY DEF SaiHas, IInv, TypeOK, Live, SaiGroup, Sub
<1>2. BridgePorts(p) \in (SUBSET Bridged) \cup {None}
    BY BridgePortsType DEF BridgePorts
<1>3. /\ sai'[g] \in SaiGroup /\ sai'[g][s] = [sai[g][s] EXCEPT ![r] = BridgePorts(p)]
      /\ \A u \in Sub \ {s} : sai'[g][u] = sai[g][u]
      /\ \A h \in Group \ {g} : sai'[h] = sai[h]
    <2>1. /\ [sai[g] EXCEPT ![s][r] = BridgePorts(p)] \in SaiGroup
          /\ [sai[g] EXCEPT ![s][r] = BridgePorts(p)][s] = [sai[g][s] EXCEPT ![r] = BridgePorts(p)]
          /\ \A u \in Sub \ {s} : [sai[g] EXCEPT ![s][r] = BridgePorts(p)][u] = sai[g][u]
        BY <1>1, <1>2 DEF SaiGroup, SaiMbrList, Sub
    <2>2. sai'[g] = [sai[g] EXCEPT ![s][r] = BridgePorts(p)]
        BY <1>1
    <2> QED BY <1>1, <2>1, <2>2
<1>4. CASE cache' = cache /\ s = "rpf" /\ r \notin Recorded(g, s)
    <2>1. Live' = Live /\ \A h : Recorded(h, "rpf")' = Recorded(h, "rpf")
        BY <1>4 DEF Live, Recorded
    <2>2. \A h \in Live \ {g} : AsRecorded(h) => AsRecorded(h)'
        BY <1>3, <1>4, SameGroup DEF Live
    <2>3. AsRecorded(g) => AsRecorded(g)'
        <3> SUFFICES ASSUME AsRecorded(g)
                     PROVE  AsRecorded(g)'
            OBVIOUS
        <3>1. sai'[g].rpf = [sai[g].rpf EXCEPT ![r] = BridgePorts(p)] /\ sai'[g].ipmc = sai[g].ipmc
            BY <1>3, <1>4 DEF Sub
        <3>2. SaiHas(g, "rpf")'
            <4>1. sai[g].rpf \in SaiMbrList("rpf")
                BY <1>1, <1>4
            <4>2. sai'[g].rpf \in SaiMbrList("rpf")
                BY <1>2, <1>4, <3>1, <4>1 DEF SaiMbrList
            <4> QED BY <1>3, <4>2, IpmcAssumption DEF SaiHas, Sub
        <3>3. \A a \in Recorded(g, "rpf") : sai'[g].rpf[a] = sai[g].rpf[a]
            <4>1. \A a \in Rif("rpf") : a # r => sai'[g].rpf[a] = sai[g].rpf[a]
                BY <1>1, <1>4, <3>1 DEF SaiMbrList
            <4>2. Recorded(g, "rpf") \subseteq Rif("rpf")
                BY <1>1 DEF Recorded, Members, CachedGroup, MbrList
            <4> QED BY <1>4, <4>1, <4>2
        <3> QED BY <1>4, <2>1, <3>1, <3>2, <3>3 DEF AsRecorded
    <2>4. \A h : Untouched(h)
        BY DEF Untouched
    <2> QED BY <2>1, <2>2, <2>3, <2>4 DEF GroupsInv
<1>5. CASE /\ cache' = [cache EXCEPT ![g].mbr[s][r] = p]
           /\ s = "rpf" => \A a \in Recorded(g, s) : a = r
    <2>1. /\ cache'[g] \in CachedGroup /\ cache'[g].out = cache[g].out
          /\ cache'[g].mbr[s] = [cache[g].mbr[s] EXCEPT ![r] = p]
          /\ \A u \in Sub \ {s} : cache'[g].mbr[u] = cache[g].mbr[u]
          /\ \A h \in Group \ {g} : cache'[h] = cache[h]
        <3>1. /\ [cache[g] EXCEPT !.mbr[s][r] = p] \in CachedGroup
              /\ [cache[g] EXCEPT !.mbr[s][r] = p].out = cache[g].out
              /\ [cache[g] EXCEPT !.mbr[s][r] = p].mbr[s] = [cache[g].mbr[s] EXCEPT ![r] = p]
              /\ \A u \in Sub \ {s} : [cache[g] EXCEPT !.mbr[s][r] = p].mbr[u] = cache[g].mbr[u]
            BY <1>1 DEF CachedGroup, MbrList, Sub
        <3>2. cache'[g] = [cache[g] EXCEPT !.mbr[s][r] = p]
            BY <1>1, <1>5
        <3> QED BY <1>1, <1>5, <3>1, <3>2
    <2>2. Live' = Live
        BY <1>1, <2>1, IpmcAssumption DEF Live
    <2>3. \A h \in Live \ {g} : /\ AsRecorded(h) => AsRecorded(h)'
                                /\ Recorded(h, "rpf")' = Recorded(h, "rpf")
        BY <1>3, <2>1, SameGroup DEF Live, Sub
    <2>4. \A h : Untouched(h)
        BY DEF Untouched
    <2>5. /\ cache[g].mbr[s] \in MbrList(s) /\ cache[g].mbr.rpf \in MbrList("rpf")
          /\ cache[g].mbr.ipmc \in MbrList("ipmc")
        BY <1>1 DEF CachedGroup, Sub
    <2>6. CASE s = "rpf"
        <3>1. /\ sai'[g].rpf = [sai[g].rpf EXCEPT ![r] = BridgePorts(p)] /\ sai'[g].ipmc = sai[g].ipmc
              /\ cache'[g].mbr.rpf = [cache[g].mbr.rpf EXCEPT ![r] = p]
              /\ cache'[g].mbr.ipmc = cache[g].mbr.ipmc
              /\ sai[g].rpf \in SaiMbrList("rpf")
            BY <1>1, <1>3, <2>1, <2>6 DEF Sub
        <3>2. Recorded(g, "rpf")' \subseteq {r}
            <4>1. \A a \in Rif("rpf") : a # r => cache'[g].mbr.rpf[a] = cache[g].mbr.rpf[a]
                BY <2>5, <2>6, <3>1 DEF MbrList
            <4>2. \A a \in Rif("rpf") : cache[g].mbr.rpf[a] # None => a = r
                BY <1>5, <2>5, <2>6 DEF Recorded, Members, MbrList
            <4>3. DOMAIN cache'[g].mbr.rpf = Rif("rpf")
                BY <2>5, <3>1 DEF MbrList
            <4> QED BY <4>1, <4>2, <4>3 DEF Recorded, Members
        <3>3. sai'[g].rpf[r] = BridgePorts(p) /\ cache'[g].mbr.rpf[r] = p
            BY <2>5, <2>6, <3>1 DEF SaiMbrList, MbrList
        <3>4. SaiHas(g, "rpf")'
            <4>1. sai'[g].rpf \in SaiMbrList("rpf")
                BY <1>2, <2>6, <3>1 DEF SaiMbrList
            <4> QED BY <1>3, <4>1, IpmcAssumption DEF SaiHas, Sub
        <3>5. AsRecorded(g) => AsRecorded(g)'
            BY <2>1, <3>1, <3>2, <3>3, <3>4 DEF AsRecorded
        <3> QED BY <2>2, <2>3, <2>4, <3>2, <3>5 DEF GroupsInv
    <2>7. CASE s = "ipmc"
        <3>1. /\ sai'[g].ipmc = [sai[g].ipmc EXCEPT ![r] = BridgePorts(p)] /\ sai'[g].rpf = sai[g].rpf
              /\ cache'[g].mbr.ipmc = [cache[g].mbr.ipmc EXCEPT ![r] = p]
              /\ cache'[g].mbr.rpf = cache[g].mbr.rpf
              /\ sai[g].ipmc # None
            BY <1>1, <1>3, <2>1, <2>7 DEF Sub, SaiHas
        <3>2. Recorded(g, "rpf")' = Recorded(g, "rpf")
            BY <3>1 DEF Recorded
        <3>3. ToSai([cache[g].mbr.ipmc EXCEPT ![r] = p]) =
                  [ToSai(cache[g].mbr.ipmc) EXCEPT ![r] = BridgePorts(p)]
            <4>1. PICK mbr \in MbrList("ipmc") : mbr = cache[g].mbr.ipmc
                BY <2>5
            <4>2. r \in Rif("ipmc")
                BY <2>7
            <4>3. ToSai([mbr EXCEPT ![r] = p]) = [ToSai(mbr) EXCEPT ![r] = BridgePorts(p)]
                BY <4>2 DEF ToSai, MbrList
            <4> QED BY <4>1, <4>3
        <3>4. AsRecorded(g) => AsRecorded(g)'
            <4> SUFFICES ASSUME AsRecorded(g)
                         PROVE  AsRecorded(g)'
                OBVIOUS
            <4>1. cache[g].out /\ sai[g].ipmc = ToSai(cache[g].mbr.ipmc)
                BY <3>1 DEF AsRecorded
            <4>2. sai'[g].ipmc = ToSai(cache'[g].mbr.ipmc)
                BY <3>1, <3>3, <4>1
            <4>3. SaiHas(g, "rpf")'
                BY <1>3, <3>1, IpmcAssumption DEF AsRecorded, SaiHas
            <4> QED BY <2>1, <3>1, <3>2, <4>1, <4>2, <4>3 DEF AsRecorded
        <3> QED BY <2>2, <2>3, <2>4, <3>2, <3>4 DEF GroupsInv
    <2> QED BY <2>6, <2>7 DEF Sub
<1> QED BY <1>4, <1>5

LEMMA MembersRecorded ==
    ASSUME IInv, GroupsInv, NEW g \in Group, NEW s \in Sub, NEW r \in Rif(s),
           \/ DelMember(g, s, r)
           \/ \E ports \in PortList[s] : AddMember(g, s, r, ports) \/ UpdateMember(g, s, r, ports)
    PROVE  GroupsInv'
<1>1. CASE DelMember(g, s, r)
    <2>1. BridgePorts(None) = None /\ (s = "rpf" => \A a \in Recorded(g, s) : a = r)
        BY <1>1 DEF DelMember, GroupsInv, BridgePorts
    <2> QED BY <1>1, <2>1, MemberRecorded DEF DelMember
<1>2. CASE \E ports \in PortList[s] : AddMember(g, s, r, ports)
    <2>1. PICK ports \in PortList[s] : AddMember(g, s, r, ports)
        BY <1>2
    <2>2. CASE CacheTakes(g, s)
        BY <2>1, <2>2, MemberRecorded DEF AddMember, CacheTakes
    <2>3. CASE ~ CacheTakes(g, s)
        BY <2>1, <2>3, MemberRecorded DEF AddMember, CacheTakes
    <2> QED BY <2>2, <2>3
<1>3. CASE \E ports \in PortList[s] : UpdateMember(g, s, r, ports)
    <2>1. PICK ports \in PortList[s] : UpdateMember(g, s, r, ports)
        BY <1>3
    <2>2. s = "rpf" => \A a \in Recorded(g, s) : a = r
        BY <2>1 DEF UpdateMember, GroupsInv
    <2> QED BY <2>1, <2>2, MemberRecorded DEF UpdateMember
<1> QED BY <1>1, <1>2, <1>3

LEMMA NextGroups ==
    IInv /\ GroupsInv /\ [Next]_vars => GroupsInv'
<1> SUFFICES ASSUME IInv, GroupsInv, [Next]_vars
             PROVE  GroupsInv'
    OBVIOUS
<1>1. CASE \E g \in Group : CreateGivenUp(g) \/ CreateEmpty(g) \/ DeleteGroup(g)
    <2>1. PICK g \in Group : CreateGivenUp(g) \/ CreateEmpty(g) \/ DeleteGroup(g)
        BY <1>1
    <2>2. \A s \in Sub : NoMembers(s) \in MbrList(s)
        BY DEF NoMembers, MbrList
    <2>3. \A a, b \in Members(NoMembers("rpf")) : a = b
        BY DEF Members, NoMembers
    <2>4. ASSUME CreateEmpty(g) PROVE GroupsInv'
        BY <2>2, <2>3, <2>4, NewGroupRecorded DEF CreateEmpty, Sub
    <2> QED BY <2>1, <2>4, GivenUpKeepsGroups, DeleteGroupRecorded
<1>2. CASE \E g \in Group, r \in Iif, ports \in PortList["rpf"] : CreateGroup(g, r, ports)
    <2>1. PICK g \in Group, r \in Iif, ports \in PortList["rpf"] : CreateGroup(g, r, ports)
        BY <1>2
    <2>2. /\ [NoMembers("rpf") EXCEPT ![r] = ports] \in MbrList("rpf")
          /\ \A a, b \in Members([NoMembers("rpf") EXCEPT ![r] = ports]) : a = b
        BY DEF NoMembers, MbrList, Rif, Members
    <2>3. \A oifs \in [Oif -> PortList["ipmc"] \cup {None}] : oifs \in MbrList("ipmc")
        BY DEF MbrList, Rif
    <2> QED BY <2>1, <2>2, <2>3, NewGroupRecorded DEF CreateGroup
<1>3. CASE \E r \in Iif \cup Oif : DeleteMember(r)
    BY <1>3, DeleteMemberRecorded
<1>4. CASE DeleteSubgroup \/ DeleteRepl \/ DeleteStops
    BY <1>4, DeleteSubgroupRecorded, DeleteReplRecorded, DeleteStopsRecorded
<1>5. CASE \E g \in Group, s \in Sub : \E r \in Rif(s) :
              \/ DelMember(g, s, r)
              \/ \E ports \in PortList[s] : AddMember(g, s, r, ports) \/ UpdateMember(g, s, r, ports)
    BY <1>5, MembersRecorded
<1>6. CASE \E e \in Entry, g \in Group, cpu \in BOOLEAN :
              CreateEntry(e, g, cpu) \/ MoveEntry(e, g, cpu) \/ MoveStops(e, g, cpu)
    <2>1. PICK e \in Entry, g \in Group, cpu \in BOOLEAN :
               CreateEntry(e, g, cpu) \/ MoveEntry(e, g, cpu) \/ MoveStops(e, g, cpu)
        BY <1>6
    <2>2. CASE CreateEntry(e, g, cpu)
        BY <2>2, RoutesKeepGroups DEF CreateEntry, Using
    <2>3. CASE MoveEntry(e, g, cpu)
        <3>1. Listed(e) /\ route[e] \in Live /\ g \in Live
            BY <2>3, InSaiListed DEF MoveEntry
        <3> QED BY <2>3, <3>1, RoutesKeepGroups DEF MoveEntry
    <2>4. CASE MoveStops(e, g, cpu)
        BY <2>4, RoutesKeepGroups DEF MoveStops
    <2> QED BY <2>1, <2>2, <2>3, <2>4
<1>7. CASE \E e \in Entry : DeleteEntry(e)
    <2>1. PICK e \in Entry : DeleteEntry(e)
        BY <1>7
    <2>2. Listed(e) /\ route[e] \in Live
        BY <2>1, InSaiListed DEF DeleteEntry
    <2> QED BY <2>1, <2>2, RoutesKeepGroups DEF DeleteEntry, Using
<1>8. CASE \E e \in Entry, cpu \in BOOLEAN : CopyToCpu(e, cpu)
    <2>1. PICK e \in Entry, cpu \in BOOLEAN : CopyToCpu(e, cpu)
        BY <1>8
    <2>2. Listed(e) /\ route[e] \in Live
        BY <2>1, InSaiListed DEF CopyToCpu
    <2> QED BY <2>1, <2>2, RoutesKeepGroups DEF CopyToCpu, Using
<1>9. CASE UNCHANGED vars
    <2>1. \A g : (AsRecorded(g) => AsRecorded(g)') /\ (Untouched(g)' <=> Untouched(g))
        BY <1>9, SameGroup DEF vars, Untouched
    <2> QED BY <1>9, <2>1 DEF vars, GroupsInv, Live, Recorded
<1> QED BY <1>1, <1>2, <1>3, <1>4, <1>5, <1>6, <1>7, <1>8, <1>9 DEF Next

\* ndi_create_repl_group and ndi_update_repl_group leave a group in SAI with exactly
\* the outgoing members the cache has and with its incoming one, beside which SAI may
\* have one that the cache refused; a deletion that SAI stops is noted unless it has
\* taken nothing yet.
THEOREM GroupsAlwaysAsRecorded == Spec => []GroupAsRecorded
<1>1. Init => GroupsInv
    BY DEF Init, GroupsInv, Live, Idle
<1>2. GroupsInv => GroupAsRecorded
    BY DEF GroupsInv, GroupAsRecorded, AsRecorded, Untouched, Recorded
<1> QED BY <1>1, <1>2, NextGroups, Invariance, PTL DEF Spec
=============================================================================
