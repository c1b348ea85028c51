------------------------------ MODULE NdiRoute ------------------------------
(***************************************************************************)
(* Routes, next hops and next-hop groups (nas_ndi_route.c).                *)
(*                                                                         *)
(* SAI makes a member object for each next hop of a group and NDI keeps    *)
(* the members of a group in nas_ndi_map, under NH_GRP_MEMBER: a list of   *)
(* pairs of a next hop and a member.  A next hop listed twice has twice    *)
(* the weight, as two members.  A call makes or removes one member after   *)
(* another, and SAI may refuse any of them.                                *)
(*                                                                         *)
(* Calls come one at a time from the NAS, and an action is one call, with  *)
(* every outcome SAI's refusals give it.  SAI refuses to remove what       *)
(* another object uses, and may give the id of a removed member to the     *)
(* next.                                                                   *)
(***************************************************************************)
EXTENDS Integers, Sequences, FiniteSets, SequencesExt

CONSTANTS
    NextHop,  \* next-hop objects
    Group,    \* next-hop groups: the object ids of SAI
    Member,   \* members of groups: the object ids of SAI
    Route,    \* prefixes
    None,
    MaxNh,    \* NDI_MAX_NH_ENTRIES_PER_GROUP
    MaxCall,  \* bound: the next hops listed in one call
    MaxList,  \* bound: the length of a group's list
    MaxTorn   \* bound: a call is stopped while fewer groups are torn or hit

ASSUME RouteAssumption ==
    /\ MaxNh \in Nat /\ MaxList \in Nat /\ MaxTorn \in Nat /\ MaxCall \in 0 .. MaxNh
    /\ None \notin NextHop \cup Group \cup Member
    /\ Group \cap NextHop = {}
    /\ IsFiniteSet(Member)

Record == [nh : NextHop, mbr : Member]
SaiMember == [grp : Group, nh : NextHop]
NhList == UNION {[1 .. n -> NextHop] : n \in 1 .. MaxCall}

ASSUME NoneAssumption == None \notin SaiMember \cup Seq(Record)

VARIABLES
    hops,    \* next hops in SAI
    groups,  \* groups in SAI
    mbr,     \* members in SAI
    map,     \* nas_ndi_map: the list of each group
    routes,  \* routes in SAI: the next hop or the group
    known,   \* groups the NAS was given the id of
    want,    \* history: the weights the calls that were answered OK ask for
    stale,   \* history: groups a deletion of which stopped among the members
    torn,    \* history: groups a call on which stopped half way
    hit      \* history: groups that lost a member to a call on another group

vars == <<hops, groups, mbr, map, routes, known, want, stale, torn, hit>>

NoWeights == [n \in NextHop |-> 0]

Init ==
    /\ hops = {}
    /\ groups = {}
    /\ mbr = [m \in Member |-> None]
    /\ map = [g \in Group |-> None]
    /\ routes = [r \in Route |-> None]
    /\ known = {}
    /\ want = [g \in Group |-> NoWeights]
    /\ stale = {}
    /\ torn = {}
    /\ hit = {}

MembersOf(g) == {m \in Member : mbr[m] # None /\ mbr[m].grp = g}
Recorded(g) == IF map[g] = None THEN {} ELSE Range(map[g])
Count(nhs, n) == Cardinality({i \in DOMAIN nhs : nhs[i] = n})
Routed == {routes[r] : r \in Route} \ {None}

-----------------------------------------------------------------------------
(* Routes and next hops: one call to SAI each.                             *)

\* ndi_route_next_hop_add.
NextHopAdd(n) ==
    /\ n \notin hops
    /\ hops' = hops \cup {n}
    /\ UNCHANGED <<groups, mbr, map, routes, known, want, stale, torn, hit>>

\* ndi_route_next_hop_delete.
NextHopDelete(n) ==
    /\ n \in hops \ Routed
    /\ \A m \in Member : mbr[m] # None => mbr[m].nh # n
    /\ hops' = hops \ {n}
    /\ UNCHANGED <<groups, mbr, map, routes, known, want, stale, torn, hit>>

\* ndi_route_add, and ndi_route_set_attribute with a next hop or a group.
RouteSet(r, h) ==
    /\ h \in hops \cup known
    /\ routes' = [routes EXCEPT ![r] = h]
    /\ UNCHANGED <<hops, groups, mbr, map, known, want, stale, torn, hit>>

\* ndi_route_delete.
RouteDelete(r) ==
    /\ routes[r] # None
    /\ routes' = [routes EXCEPT ![r] = None]
    /\ UNCHANGED <<hops, groups, mbr, map, known, want, stale, torn, hit>>

-----------------------------------------------------------------------------
(* ndi_route_nh_grp_members_create: one member after another.              *)

\* SAI makes members of the first next hops of the list, under ids of its
\* choice; a next hop it does not have is refused.
Made(nhs, ids) ==
    /\ Len(ids) <= Len(nhs)
    /\ \A i \in DOMAIN ids : mbr[ids[i]] = None /\ nhs[i] \in hops
    /\ IsInjective(ids)

\* Mutant: every member is made with the first next hop.
WithFirst(g, nhs, ids) ==
    [m \in Member |-> IF m \in Range(ids) THEN [grp |-> g, nh |-> nhs[1]] ELSE mbr[m]]

WithMembers(g, nhs, ids) ==
    [m \in Member |-> IF m \in Range(ids)
                      THEN [grp |-> g, nh |-> nhs[CHOOSE i \in DOMAIN ids : ids[i] = m]]
                      ELSE mbr[m]]

Pairs(nhs, ids) == [i \in DOMAIN ids |-> [nh |-> nhs[i], mbr |-> ids[i]]]

\* nas_ndi_map_insert: the pairs go to the end of the list, if there is one.
Inserted(list, pairs) == IF list = None THEN pairs ELSE list \o pairs

Asked(g, nhs) ==
    want' = [want EXCEPT ![g] = IF g \in torn THEN @
                                ELSE [n \in NextHop |-> @[n] + Count(nhs, n)]]

\* A call on the group stopped half way: nothing is asked of it from then on.
Tear(g) ==
    /\ Cardinality(torn \cup hit) < MaxTorn
    /\ torn' = torn \cup {g}
    /\ want' = [want EXCEPT ![g] = NoWeights]

\* Every next hop became a member.
MembersAdded(g, nhs) ==
    \E ids \in [DOMAIN nhs -> Member] :
        /\ Made(nhs, ids)
        /\ (map[g] # None => Len(map[g]) + Len(nhs) <= MaxList)
        /\ mbr' = WithMembers(g, nhs, ids)
        /\ map' = [map EXCEPT ![g] = Inserted(@, Pairs(nhs, ids))]
        /\ Asked(g, nhs)

\* One was refused: the members made are removed again.  SAI may refuse that
\* too, which nobody looks at.
MembersRefused(g, nhs, left) ==
    /\ Len(left) < Len(nhs)
    /\ Made(nhs, left)
    /\ mbr' = WithMembers(g, nhs, left)
    /\ UNCHANGED map

-----------------------------------------------------------------------------
(* Next-hop groups.                                                        *)

\* ndi_route_next_hop_group_create.
GroupCreate(g, nhs) ==
    /\ g \notin groups
    /\ MembersAdded(g, nhs)
    /\ groups' = groups \cup {g}
    /\ known' = known \cup {g}
    /\ UNCHANGED <<hops, routes, stale, torn, hit>>

\* Without next hops the answer is OK, and the id is not given to the caller.
GroupCreateEmpty(g) ==
    /\ g \notin groups
    /\ groups' = groups \cup {g}
    /\ UNCHANGED <<hops, mbr, map, routes, known, want, stale, torn, hit>>

\* The members are refused, and the group is removed again, unless SAI refuses
\* that: it does when a member is left.
GroupCreateRefused(g, nhs) ==
    /\ g \notin groups
    /\ \E k \in 0 .. MaxCall : \E left \in [1 .. k -> Member] :
          /\ MembersRefused(g, nhs, left)
          /\ \/ groups' = groups \cup {g}
             \/ left = <<>> /\ groups' = groups
    /\ UNCHANGED <<hops, routes, known, want, stale, torn, hit>>

\* ndi_route_add_next_hop_to_group.
AddNextHops(g, nhs) ==
    /\ g \in known
    /\ MembersAdded(g, nhs)
    /\ UNCHANGED <<hops, groups, routes, known, stale, torn, hit>>

AddNextHopsRefused(g, nhs) ==
    /\ g \in known
    /\ \E k \in 1 .. MaxCall : \E left \in [1 .. k -> Member] : MembersRefused(g, nhs, left)
    /\ Tear(g)
    /\ UNCHANGED <<hops, groups, routes, known, stale, hit>>

-----------------------------------------------------------------------------
(* Removal of members.                                                     *)

\* remove_next_hop_group_member, for each of a list: SAI may stop at any, and
\* stops at one it does not have.
SaiRemoves(ms) ==
    /\ \A i \in DOMAIN ms : ms[i] \in Member /\ mbr[ms[i]] # None
    /\ IsInjective(ms)
    /\ mbr' = [m \in Member |-> IF m \in Range(ms) THEN None ELSE mbr[m]]

\* The other groups that lose a member, by an id that was on record in g and
\* has been given out again.
Hit(g, ms) == {mbr[m].grp : m \in Range(ms)} \ {g}

Members(list) == [i \in DOMAIN list |-> list[i].mbr]

\* ndi_route_nh_grp_all_members_remove reads the list into MaxNh places:
\* nas_ndi_map_get fails where there is no list or a longer one.
ReadList(g) == map[g] # None /\ Len(map[g]) <= MaxNh

\* ndi_route_next_hop_group_delete.
GroupDelete(g) ==
    /\ g \in known
    /\ ReadList(g)
    /\ SaiRemoves(Members(map[g]))
    /\ g \notin Routed
    /\ \A m \in MembersOf(g) : m \in Range(Members(map[g]))
    /\ groups' = groups \ {g}
    /\ known' = known \ {g}
    /\ map' = [map EXCEPT ![g] = None]
    /\ want' = [want EXCEPT ![g] = NoWeights]
    /\ stale' = stale \ {g}
    /\ torn' = torn \ {g}
    /\ hit' = (hit \ {g}) \cup Hit(g, Members(map[g]))
    /\ UNCHANGED <<hops, routes>>

\* SAI stops in the middle of the members: the list keeps all of them.
GroupDeleteStops(g) ==
    /\ g \in known
    /\ ReadList(g)
    /\ \E k \in 1 .. Len(map[g]) - 1 :
          LET ms == Members(SubSeq(map[g], 1, k))
          IN  SaiRemoves(ms) /\ hit' = hit \cup Hit(g, ms)
    /\ stale' = stale \cup {g}
    /\ Tear(g)
    /\ UNCHANGED <<hops, groups, map, routes, known>>

\* The members and the list are gone, and SAI refuses to remove the group.
GroupDeleteRefused(g) ==
    /\ g \in known
    /\ ReadList(g)
    /\ SaiRemoves(Members(map[g]))
    /\ map' = [map EXCEPT ![g] = None]
    /\ stale' = stale \ {g}
    /\ hit' = hit \cup Hit(g, Members(map[g]))
    /\ Tear(g)
    /\ UNCHANGED <<hops, groups, routes, known>>

\* The places in the list that are not taken by an earlier next hop of the call.
FreePlaces(list, n, taken) == {i \in DOMAIN list : list[i].nh = n} \ taken

Least(S) == CHOOSE i \in S : \A j \in S : i <= j

\* ndi_route_get_nh_member_oid: for each next hop of the call, the first place of
\* the list with it that no earlier one took; 0 if there is none.
Match(list, nhs, at) ==
    \A k \in DOMAIN nhs :
        LET free == FreePlaces(list, nhs[k], {at[j] : j \in 1 .. k - 1})
        IN  at[k] = IF free = {} THEN 0 ELSE Least(free)

MemberAt(list, i) == IF i = 0 THEN None ELSE list[i].mbr

\* nas_ndi_map_delete_elements: every pair with one of the members goes.
Without(list, ms) ==
    LET kept[i \in 0 .. Len(list)] ==
            IF i = 0 THEN <<>>
            ELSE IF list[i].mbr \in Range(ms) THEN kept[i-1] ELSE Append(kept[i-1], list[i])
    IN  kept[Len(list)]

\* ndi_route_delete_next_hop_from_group: each member is taken out of SAI, then
\* out of the list.
DelNextHops(g, nhs) ==
    /\ g \in known
    /\ map[g] # None
    /\ \E at \in [DOMAIN nhs -> 0 .. Len(map[g])] :
          LET ms == [i \in DOMAIN nhs |-> MemberAt(map[g], at[i])]
          IN  /\ Match(map[g], nhs, at)
              /\ SaiRemoves(ms)
              /\ map' = [map EXCEPT ![g] = Without(@, ms)]
              /\ hit' = hit \cup Hit(g, ms)
    /\ want' = [want EXCEPT ![g] = IF g \in torn THEN @
                                    ELSE [n \in NextHop |-> @[n] - Count(nhs, n)]]
    /\ UNCHANGED <<hops, groups, routes, known, stale, torn>>

\* Mutant: the list of a call that stops keeps the members it has removed.
DelNextHopsListed(g, nhs) ==
    /\ g \in known
    /\ map[g] # None
    /\ \E at \in [DOMAIN nhs -> 0 .. Len(map[g])], k \in 1 .. Len(nhs) - 1 :
          LET ms == [i \in 1 .. k |-> MemberAt(map[g], at[i])]
          IN  Match(map[g], nhs, at) /\ SaiRemoves(ms) /\ hit' = hit \cup Hit(g, ms)
    /\ Tear(g)
    /\ UNCHANGED <<hops, groups, map, routes, known, stale>>

\* SAI, or a next hop the group does not have, stops the call half way.
DelNextHopsStops(g, nhs) ==
    /\ g \in known
    /\ map[g] # None
    /\ \E at \in [DOMAIN nhs -> 0 .. Len(map[g])], k \in 1 .. Len(nhs) - 1 :
          LET ms == [i \in 1 .. k |-> MemberAt(map[g], at[i])]
          IN  /\ Match(map[g], nhs, at)
              /\ SaiRemoves(ms)
              /\ map' = [map EXCEPT ![g] = Without(@, ms)]
              /\ hit' = hit \cup Hit(g, ms)
    /\ Tear(g)
    /\ UNCHANGED <<hops, groups, routes, known, stale>>

-----------------------------------------------------------------------------
Next ==
    \/ \E n \in NextHop : NextHopAdd(n) \/ NextHopDelete(n)
    \/ \E r \in Route, h \in NextHop \cup Group : RouteSet(r, h)
    \/ \E r \in Route : RouteDelete(r)
    \/ \E g \in Group, nhs \in NhList :
          \/ GroupCreate(g, nhs) \/ GroupCreateRefused(g, nhs)
          \/ AddNextHops(g, nhs) \/ AddNextHopsRefused(g, nhs)
          \/ DelNextHops(g, nhs) \/ DelNextHopsStops(g, nhs)
    \/ \E g \in Group :
          \/ GroupCreateEmpty(g)
          \/ GroupDelete(g) \/ GroupDeleteStops(g) \/ GroupDeleteRefused(g)

Spec == Init /\ [][Next]_vars

-----------------------------------------------------------------------------
(* Properties.                                                             *)

Weight(g, n) == Cardinality({m \in MembersOf(g) : mbr[m].nh = n})
InSai(g) == {[nh |-> mbr[m].nh, mbr |-> m] : m \in MembersOf(g)}

\* The list of a group names members the group has in SAI, with their next hops and
\* each once, unless a deletion of the group stopped half way or another group's
\* call took a member of it: only such a list makes a call on one group remove a
\* member of another.  It names all of them, unless a call on the group stopped.
ListIsExact ==
    /\ \A g \in known \ (stale \cup hit) :
          /\ Recorded(g) \subseteq InSai(g)
          /\ map[g] # None => IsInjective(map[g])
    /\ \A g \in known \ (torn \cup hit) : map[g] # None /\ InSai(g) \subseteq Recorded(g)

\* Whatever is refused, a group has in SAI, for each next hop, as many members as
\* the calls on it that were answered OK leave it, unless a call on it stopped half
\* way or a call on another group, by a list a stopped deletion left, took a member
\* of it.
WeightsAsAsked ==
    \A g \in known \ (torn \cup hit) : \A n \in NextHop : Weight(g, n) = want[g][n]

\* A group every call on which was answered OK has what they leave it.  The code
\* breaks this: a deletion of another group stops, SAI gives one of the ids on its
\* list to a member of this one, and the next call on the other group takes it.
OwnCallsDecide ==
    \A g \in known \ torn : \A n \in NextHop : Weight(g, n) = want[g][n]

\* nas_ndi_route.c:573 has a member's id "unique" in its list.  The code breaks this:
\* it is named twice once a deletion stopped and the group was given the id again.
MemberListedOnce ==
    \A g \in known : map[g] # None => \A i, j \in DOMAIN map[g] : map[g][i].mbr = map[g][j].mbr => i = j

\* nas_ndi_map_get answers a place too small with the number of elements, "so that
\* the caller will call with sufficient memory again": a group on record is never
\* too long for ndi_route_next_hop_group_delete to read.  The code breaks this:
\* a second call takes a group past MaxNh, and its deletion fails for ever.
GroupCanBeRead ==
    \A g \in known \ torn : ReadList(g)

\* Objects, members and lists are of their types; a list is of a group the NAS has.
TypeOK ==
    /\ hops \subseteq NextHop
    /\ groups \subseteq Group
    /\ known \subseteq groups
    /\ mbr \in [Member -> SaiMember \cup {None}]
    /\ map \in [Group -> Seq(Record) \cup {None}]
    /\ \A g \in Group \ known : map[g] = None
    /\ routes \in [Route -> hops \cup known \cup {None}]
    /\ want \in [Group -> [NextHop -> Int]]
    /\ stale \subseteq torn /\ torn \subseteq groups /\ hit \subseteq groups
=============================================================================
