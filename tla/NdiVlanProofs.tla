---------------------------- MODULE NdiVlanProofs ----------------------------
(***************************************************************************)
(* The VLANs are consistent for any number of VLANs, ports, members and    *)
(* threads that create and delete bridge ports: the tables agree with SAI, *)
(* the cache of members agrees with SAI, and a port added is a member.     *)
(* The invariant says what each step of a call leaves half done, and that  *)
(* nobody else undoes it: a VLAN on its way in or out has no member, a     *)
(* bridge port not in the cache yet has none either, and what is taken out *)
(* of the default VLAN is in no cache.                                     *)
(***************************************************************************)
EXTENDS NdiVlan, FiniteSetTheorems, TLAPS

-----------------------------------------------------------------------------
(* What the proofs assume of the constants beyond VlanAssumption.          *)

\* One thread configures VLANs, as nas-l2 does; the VLANs whose members it
\* configures are never the default, and the one SAI starts with may be; a
\* list is as long as its count says; SAI has finitely many members.
Orderly ==
    /\ \A t, u \in Vlanner : t = u
    /\ Managed \cap Defaultable = {} /\ BootVid \in Defaultable
    /\ Garbage = {}
    /\ IsFiniteSet(Member)

-----------------------------------------------------------------------------
(* The inductive invariant.                                                *)

VlanPC == {"create_vlan", "create_map", "create_virtual",
           "delete_vlan", "delete_map", "delete_virtual"}
AddPC == {"add_get", "add_vlan", "add_brport", "add_member", "set_mode",
          "cache_get", "cache_delete", "cache_insert", "added"}
DelPC == {"del_member", "del_cache"}
DefaultPC == {"default_vlan", "default_count", "default_list", "default_next",
              "default_remove"}
BrportPC == {"remove_brport", "new_cache"}
PCs == {"idle"} \cup VlanPC \cup AddPC \cup DelPC \cup DefaultPC \cup BrportPC

ThreadRec ==
    [pc : PCs, vid : Vid \cup {Null}, vlan : Vlan \cup {Null}, port : Port \cup {Null},
     brport : Brport \cup {Null}, mode : Mode \cup {Null}, member : Member \cup {Null},
     n : Nat, todo : SUBSET Member]

\* A thread has set what the steps from its pc on use.
ThreadOK(t) ==
    /\ t \in Vlanner => th[t].pc \notin BrportPC
    /\ t \in Porter => th[t].pc \notin VlanPC \cup AddPC \cup DelPC
    /\ th[t].pc = "idle" => th[t] = Idle
    /\ th[t].pc \in VlanPC => th[t].vid \in Vid
    /\ th[t].pc \in VlanPC \ {"create_vlan"} => th[t].vlan \in Vlan
    /\ th[t].pc \in AddPC \cup DelPC => th[t].vid \in Managed /\ th[t].port \in Port
    /\ th[t].pc \in AddPC => th[t].mode \in Mode
    /\ th[t].pc \in DelPC \cup {"set_mode", "cache_get", "cache_delete", "cache_insert", "default_remove"}
          => th[t].member \in Member
    /\ th[t].pc = "add_member" => th[t].brport \in Brport
    /\ th[t].pc \in DefaultPC \ {"default_vlan"} => th[t].vlan \in Vlan
    /\ th[t].pc = "default_vlan" => th[t].todo = {}
    /\ th[t].pc \in DefaultPC /\ th[t].brport # Null => t \in Porter /\ th[t].port \in Port
    /\ th[t].pc \in BrportPC => th[t].port \in Port /\ th[t].brport \in Brport

TypesOK ==
    /\ TypeOK
    /\ th \in [Thread -> ThreadRec]
    /\ \A t \in Thread : ThreadOK(t)

\* Between SAI and the last of its tables a VLAN is its call's alone.
Working == {"create_map", "create_virtual", "delete_map", "delete_virtual"}
AtWork(v) == \E t \in Vlanner : th[t].pc \in Working /\ th[t].vid = v

AgreeOn(v) ==
    \A o \in Vlan : /\ vlanMap[v] = o <=> vlans[o] = v
                    /\ vidObj[v] = o <=> vlans[o] = v
                    /\ objVid[o] = v <=> vlans[o] = v

\* What SAI and each table know of a VLAN on its way in or out.
InWork(t) ==
    LET v == th[t].vid
        o == th[t].vlan
    IN  \A u \in Vlan :
            /\ vlans[u] = v <=> th[t].pc \in {"create_map", "create_virtual"} /\ u = o
            /\ vlanMap[v] = u <=> th[t].pc \in {"create_virtual", "delete_map"} /\ u = o
            /\ vidObj[v] = u <=> th[t].pc \in {"delete_map", "delete_virtual"} /\ u = o
            /\ objVid[u] = v <=> th[t].pc \in {"delete_map", "delete_virtual"} /\ u = o

TablesInv ==
    /\ \A v \in Vid : ~ AtWork(v) => AgreeOn(v)
    /\ \A t \in Vlanner :
          /\ th[t].pc \in Working => InWork(t)
          /\ th[t].pc = "delete_vlan" => vlanMap[th[t].vid] = th[t].vlan

\* A bridge port is in the cache but for one whose creation has not come to
\* it, which is its thread's alone; a thread that has read a bridge port knows
\* whose it is as long as it is there.
BrportInv ==
    /\ \A p \in Port : brCache[p] # Null => brports[brCache[p]] = p
    /\ \A b, c \in Brport : brports[b] = brports[c] /\ brports[b] # Null => b = c
    /\ \A b \in Brport : brports[b] # Null =>
          \/ brCache[brports[b]] = b
          \/ \E t \in Porter : th[t].pc = "new_cache" /\ th[t].brport = b
    /\ \A t \in Porter : th[t].pc = "new_cache" =>
          /\ brports[th[t].brport] = th[t].port
          /\ \A u \in Thread \ {t} : th[u].brport # th[t].brport
          /\ \A p \in Port : brCache[p] # th[t].brport
    /\ \A t \in Thread : th[t].pc \in {"add_member", "remove_brport"} \cup DefaultPC
                         /\ th[t].brport # Null => brports[th[t].brport] \in {th[t].port, Null}

\* A member is of a VLAN and on a bridge port that are there, the second in the
\* cache and the first in all its tables.
MembersInv ==
    \A m \in Member : members[m] # Null =>
        /\ vlans[members[m][1]] # Null
        /\ brports[members[m][2]] # Null /\ brCache[brports[members[m][2]]] = members[m][2]
        /\ \A t \in Vlanner : th[t].pc \in Working => members[m][1] # th[t].vlan

\* A removal from the default VLAN works on a VLAN that may be the default, or
\* is gone, and its members.
DefaultOK(t) ==
    /\ vlans[th[t].vlan] \in Defaultable \cup {Null}
    /\ \A m \in th[t].todo : members[m] # Null => members[m][1] = th[t].vlan
    /\ th[t].pc = "default_remove" /\ members[th[t].member] # Null =>
          members[th[t].member][1] = th[t].vlan
DefaultsInv ==
    /\ defaultVid \in Defaultable
    /\ \A t \in Thread : th[t].pc \in DefaultPC \ {"default_vlan"} => DefaultOK(t)

\* The member of SAI that port p is of VLAN v.
MemberOf(v, p, m) ==
    members[m] # Null /\ vlans[members[m][1]] = v /\ brports[members[m][2]] = p

Agrees(v, p) ==
    /\ \A m \in Member : MemberOf(v, p, m) => Found(v, p) /\ Cached(v, p)[1] = m
    /\ Found(v, p) => /\ MemberOf(v, p, Cached(v, p)[1])
                      /\ members[Cached(v, p)[1]][3] = Cached(v, p)[2]

\* Between SAI and the cache a member is its call's alone.
Mid == {"cache_get", "cache_delete", "cache_insert", "del_cache"}
Settled(v, p) == \A t \in Vlanner : ~ (th[t].pc \in Mid /\ th[t].vid = v /\ th[t].port = p)

CacheInv ==
    \A v \in Vid \ Defaultable, p \in Port :
        /\ Len(cache[<<v, p>>]) \in {0, 1}
        /\ Settled(v, p) => Agrees(v, p)

\* What a call has found out of the member it adds or deletes, or has done.
CallOK(t) ==
    LET v == th[t].vid
        p == th[t].port
        m == th[t].member
    IN  /\ th[t].pc \in AddPC \cup DelPC => vlanMap[v] # Null
        /\ th[t].pc \in {"add_vlan", "add_brport", "add_member", "cache_insert"} => ~ Found(v, p)
        /\ th[t].pc \in {"set_mode", "cache_delete"} \cup DelPC => Found(v, p) /\ Cached(v, p)[1] = m
        /\ th[t].pc \in {"add_brport", "add_member"} => th[t].vlan = vlanMap[v]
        /\ th[t].pc \in {"cache_get", "cache_delete", "cache_insert"} =>
              /\ MemberOf(v, p, m) /\ members[m][3] = th[t].mode
              /\ \A n \in Member : MemberOf(v, p, n) => n = m
        /\ th[t].pc = "cache_get" /\ Found(v, p) => Cached(v, p)[1] = m
        /\ th[t].pc = "del_cache" => \A n \in Member : ~ MemberOf(v, p, n)
        /\ th[t].pc = "added" => Found(v, p) /\ Cached(v, p)[2] = th[t].mode
CallsInv == \A t \in Vlanner : CallOK(t)

IInv ==
    /\ TypesOK /\ TablesInv /\ BrportInv /\ MembersInv /\ DefaultsInv
    /\ CacheInv /\ CallsInv

-----------------------------------------------------------------------------
(* Steps and what they leave alone.                                        *)

\* Only thread t moves.
OnlyMoves(t) == \A u \in Thread : u # t => th'[u] = th[u]

LEMMA Moves ==
    ASSUME th \in [Thread -> ThreadRec], NEW t \in Thread, NEW r, th' = [th EXCEPT ![t] = r]
    PROVE  OnlyMoves(t) /\ th'[t] = r /\ (r \in ThreadRec => th' \in [Thread -> ThreadRec])
  BY DEF OnlyMoves

LEMMA Threads ==
    /\ \A t \in Vlanner : t \in Thread
    /\ \A t \in Porter : t \in Thread
    /\ VlanAssumption => \A t \in Vlanner : t \notin Porter
  BY DEF Thread, VlanAssumption

LEMMA IdleRec ==
    Idle \in ThreadRec
  BY DEF Idle, ThreadRec, PCs

LEMMA GotoFields ==
    ASSUME NEW r \in ThreadRec, NEW pc \in PCs
    PROVE  /\ [r EXCEPT !.pc = pc] \in ThreadRec
           /\ [r EXCEPT !.pc = pc].pc = pc
           /\ [r EXCEPT !.pc = pc].vid = r.vid /\ [r EXCEPT !.pc = pc].vlan = r.vlan
           /\ [r EXCEPT !.pc = pc].port = r.port /\ [r EXCEPT !.pc = pc].brport = r.brport
           /\ [r EXCEPT !.pc = pc].mode = r.mode /\ [r EXCEPT !.pc = pc].member = r.member
           /\ [r EXCEPT !.pc = pc].todo = r.todo
  BY DEF ThreadRec

\* The threads stay in their ranges.
LEMMA QuietThreads ==
    ASSUME TypesOK, NEW t \in Thread, OnlyMoves(t), th' \in [Thread -> ThreadRec], ThreadOK(t)'
    PROVE  /\ \A u \in Thread : ThreadOK(u)'
           /\ \A u \in Thread : th'[u].todo \subseteq Member
<1>1. \A u \in Thread : ThreadOK(u)'
  <2> SUFFICES ASSUME NEW u \in Thread, u # t
               PROVE  ThreadOK(u)'
    OBVIOUS
  <2>1. th'[u] = th[u] /\ ThreadOK(u)
    BY DEF OnlyMoves, TypesOK
  <2> QED BY <2>1 DEF ThreadOK
<1>2. \A u \in Thread : th'[u].todo \subseteq Member
  BY DEF ThreadRec
<1> QED BY <1>1, <1>2

LEMMA QuietTypes ==
    ASSUME TypesOK, NEW t \in Thread, OnlyMoves(t), th' \in [Thread -> ThreadRec], ThreadOK(t)',
           UNCHANGED <<vlans, members, brports, brCache, vlanMap, vidObj, objVid, cache, defaultVid>>
    PROVE  TypesOK'
  BY QuietThreads DEF TypesOK, TypeOK

\* The tables, in a step that leaves them and SAI's VLANs alone.
LEMMA QuietTables ==
    ASSUME Orderly, TablesInv, NEW t \in Thread, OnlyMoves(t),
           UNCHANGED <<vlans, vlanMap, vidObj, objVid>>,
           t \in Vlanner => th[t].pc \notin Working /\ th'[t].pc \notin Working,
           th'[t].pc = "delete_vlan" => vlanMap[th'[t].vid] = th'[t].vlan
    PROVE  TablesInv'
<1>1. CASE t \in Vlanner
  <2>1. \A u \in Vlanner : u = t
    BY <1>1 DEF Orderly
  <2>2. \A v : ~ AtWork(v) /\ ~ AtWork(v)'
    BY <1>1, <2>1 DEF AtWork
  <2>3. \A v : AgreeOn(v)' <=> AgreeOn(v)
    BY DEF AgreeOn
  <2> QED BY <1>1, <2>1, <2>2, <2>3 DEF TablesInv
<1>2. CASE t \notin Vlanner
  <2>1. \A u \in Vlanner : th'[u] = th[u]
    BY <1>2, Threads DEF OnlyMoves
  <2>2. \A v : AtWork(v)' <=> AtWork(v)
    BY <2>1 DEF AtWork
  <2>3. \A v : AgreeOn(v)' <=> AgreeOn(v)
    BY DEF AgreeOn
  <2>4. \A u \in Vlanner : InWork(u)' <=> InWork(u)
    BY <2>1 DEF InWork
  <2> QED BY <2>1, <2>2, <2>3, <2>4 DEF TablesInv
<1> QED BY <1>1, <1>2

\* Whose bridge port t has read.
Knows == {"add_member", "remove_brport"} \cup DefaultPC

LEMMA QuietBrports ==
    ASSUME VlanAssumption, TypesOK, BrportInv, NEW t \in Thread, OnlyMoves(t), UNCHANGED ports,
           th[t].pc # "new_cache", th'[t].pc # "new_cache",
           \/ th'[t].brport = Null
           \/ th'[t].port \in Port /\ th'[t].brport = brCache[th'[t].port]
           \/ /\ th'[t].brport = th[t].brport
              /\ th'[t].pc \in Knows => th[t].pc \in Knows /\ th'[t].port = th[t].port
    PROVE  BrportInv'
<1> USE DEF ports
<1>1. \A u \in Porter : th'[u].pc = "new_cache" => u # t /\ th'[u] = th[u]
  BY Threads DEF OnlyMoves
<1>2. \A u \in Porter : th[u].pc = "new_cache" => u # t /\ th'[u] = th[u]
  BY Threads DEF OnlyMoves
<1>3. \A u \in Porter : th[u].pc = "new_cache" => th[u].brport # th'[t].brport
  <2> SUFFICES ASSUME NEW u \in Porter, th[u].pc = "new_cache"
               PROVE  th[u].brport # th'[t].brport
    OBVIOUS
  <2>1. u # t /\ u \in Thread /\ ThreadOK(u)
    BY <1>2, Threads DEF TypesOK
  <2>2. th[u].brport \in Brport
    BY <2>1 DEF ThreadOK, BrportPC
  <2>3. th[t].brport # th[u].brport /\ \A p \in Port : brCache[p] # th[u].brport
    BY <2>1 DEF BrportInv
  <2> QED BY <2>2, <2>3 DEF VlanAssumption
<1>4. ASSUME NEW u \in Porter, th'[u].pc = "new_cache"
      PROVE  /\ brports'[th'[u].brport] = th'[u].port
             /\ \A w \in Thread \ {u} : th'[w].brport # th'[u].brport
             /\ \A p \in Port : brCache'[p] # th'[u].brport
  <2>1. u # t /\ th'[u] = th[u]
    BY <1>1, <1>4
  <2> QED BY <1>3, <1>4, <2>1 DEF BrportInv, OnlyMoves
<1>5. ASSUME NEW u \in Thread, th'[u].pc \in Knows, th'[u].brport # Null
      PROVE  brports'[th'[u].brport] \in {th'[u].port, Null}
  <2>1. CASE u = t
    <3>1. CASE th'[t].port \in Port /\ th'[t].brport = brCache[th'[t].port]
      BY <1>5, <2>1, <3>1 DEF BrportInv
    <3>2. CASE th'[t].brport = th[t].brport /\ th[t].pc \in Knows /\ th'[t].port = th[t].port
      BY <1>5, <2>1, <3>2 DEF BrportInv, Knows
    <3> QED BY <1>5, <2>1, <3>1, <3>2
  <2>2. CASE u # t
    BY <1>5, <2>2 DEF BrportInv, OnlyMoves, Knows
  <2> QED BY <2>1, <2>2
<1>6. ASSUME NEW b \in Brport, brports'[b] # Null
      PROVE  \/ brCache'[brports'[b]] = b
             \/ \E u \in Porter : th'[u].pc = "new_cache" /\ th'[u].brport = b
  BY <1>2, <1>6 DEF BrportInv
<1> QED BY <1>4, <1>5, <1>6 DEF BrportInv, Knows

\* SAI gains no member.
Fewer == \A m \in Member : members'[m] \in {members[m], Null}

LEMMA QuietMembers ==
    ASSUME Orderly, MembersInv, NEW t \in Thread, OnlyMoves(t), UNCHANGED <<vlans, brports, brCache>>,
           Fewer,
           t \in Vlanner /\ th'[t].pc \in Working => th[t].pc \in Working /\ th'[t].vlan = th[t].vlan
    PROVE  MembersInv'
<1> SUFFICES ASSUME NEW m \in Member, members'[m] # Null
             PROVE  /\ vlans'[members'[m][1]] # Null
                    /\ brports'[members'[m][2]] # Null
                    /\ brCache'[brports'[members'[m][2]]] = members'[m][2]
                    /\ \A u \in Vlanner : th'[u].pc \in Working => members'[m][1] # th'[u].vlan
  BY DEF MembersInv
<1>1. members'[m] = members[m]
  BY DEF Fewer
<1>2. ASSUME NEW u \in Vlanner, th'[u].pc \in Working
      PROVE  members'[m][1] # th'[u].vlan
  <2>1. th[u].pc \in Working /\ th'[u].vlan = th[u].vlan
    BY <1>2, Threads DEF OnlyMoves
  <2> QED BY <1>1, <2>1 DEF MembersInv
<1> QED BY <1>1, <1>2 DEF MembersInv

\* t is about to go on with a removal from the default VLAN that was under way.
GoesOn(t) ==
    /\ th[t].pc \in DefaultPC \ {"default_vlan"} /\ th'[t].vlan = th[t].vlan
    /\ th'[t].todo \subseteq th[t].todo
    /\ th'[t].pc = "default_remove" => th'[t].member \in th[t].todo

LEMMA QuietDefaults ==
    ASSUME TypesOK, DefaultsInv, NEW t \in Thread, OnlyMoves(t), UNCHANGED vlans, defaultVid' \in Defaultable,
           Fewer, th'[t].pc \in DefaultPC \ {"default_vlan"} => GoesOn(t) \/ DefaultOK(t)'
    PROVE  DefaultsInv'
<1>1. \A u \in Thread : th[u].todo \subseteq Member /\
          (th[u].pc = "default_remove" => th[u].member \in Member)
  BY DEF TypesOK, TypeOK, ThreadOK
<1>2. \A m \in Member : members'[m] # Null => members'[m] = members[m]
  BY DEF Fewer
<1> SUFFICES ASSUME NEW u \in Thread, th'[u].pc \in DefaultPC \ {"default_vlan"}
             PROVE  DefaultOK(u)'
  BY DEF DefaultsInv
<1>3. CASE u = t
  <2>1. CASE GoesOn(t)
    <3>1. DefaultOK(t)
      BY <2>1 DEF GoesOn, DefaultsInv
    <3> QED BY <1>1, <1>2, <1>3, <2>1, <3>1 DEF DefaultOK, GoesOn
  <2> QED BY <1>3, <2>1
<1>4. CASE u # t
  <2>1. th'[u] = th[u] /\ DefaultOK(u)
    BY <1>4 DEF OnlyMoves, DefaultsInv
  <2> QED BY <1>1, <1>2, <2>1 DEF DefaultOK
<1> QED BY <1>3, <1>4

\* SAI has the same members in the VLANs that are never the default.
SameMembers ==
    \A v \in Vid \ Defaultable, p \in Port, m \in Member :
        /\ MemberOf(v, p, m)' <=> MemberOf(v, p, m)
        /\ MemberOf(v, p, m) => members'[m] = members[m]

LEMMA QuietSai ==
    ASSUME UNCHANGED <<vlans, members, brports>>
    PROVE  SameMembers
  BY DEF SameMembers, MemberOf

LEMMA SameAgrees ==
    ASSUME SameMembers, UNCHANGED cache, TypesOK,
           NEW v \in Vid \ Defaultable, NEW p \in Port, Agrees(v, p)
    PROVE  Agrees(v, p)'
<1>1. /\ Found(v, p)' <=> Found(v, p)
      /\ Cached(v, p)' = Cached(v, p)
  BY DEF Found, Cached
<1>2. Found(v, p) => Cached(v, p)[1] \in Member
  <2>1. cache[<<v, p>>] \in Seq(Member \X Mode)
    BY DEF TypesOK, TypeOK
  <2> QED BY <2>1 DEF Found, Cached
<1>3. \A m \in Member : /\ MemberOf(v, p, m)' <=> MemberOf(v, p, m)
                        /\ MemberOf(v, p, m) => members'[m] = members[m]
  BY DEF SameMembers
<1> QED BY <1>1, <1>2, <1>3 DEF Agrees

LEMMA QuietCache ==
    ASSUME TypesOK, CacheInv, NEW t \in Thread, OnlyMoves(t), SameMembers, UNCHANGED cache,
           t \in Vlanner /\ th[t].pc \in Mid =>
              \/ th'[t].pc \in Mid /\ th'[t].vid = th[t].vid /\ th'[t].port = th[t].port
              \/ Agrees(th[t].vid, th[t].port)
    PROVE  CacheInv'
<1> SUFFICES ASSUME NEW v \in Vid \ Defaultable, NEW p \in Port
             PROVE  /\ Len(cache'[<<v, p>>]) \in {0, 1}
                    /\ Settled(v, p)' => Agrees(v, p)'
  BY DEF CacheInv
<1>1. Settled(v, p)' => Settled(v, p) \/ Agrees(v, p)
  <2> SUFFICES ASSUME NEW u \in Vlanner, th[u].pc \in Mid, th[u].vid = v, th[u].port = p,
                      Settled(v, p)'
               PROVE  Agrees(v, p)
    BY DEF Settled
  <2>1. u = t /\ ~ (th'[t].pc \in Mid /\ th'[t].vid = v /\ th'[t].port = p)
    BY Threads DEF Settled, OnlyMoves
  <2> QED BY <2>1
<1>2. Len(cache[<<v, p>>]) \in {0, 1} /\ (Settled(v, p) => Agrees(v, p))
  BY DEF CacheInv
<1> QED BY <1>1, <1>2, SameAgrees

\* The calls that add and delete members, in the steps of others.
LEMMA QuietCalls ==
    ASSUME VlanAssumption, Orderly, TypesOK, CallsInv, NEW t \in Thread, OnlyMoves(t), SameMembers,
           UNCHANGED cache,
           t \in Vlanner => th'[t].pc \notin AddPC \cup DelPC,
           t \notin Vlanner => UNCHANGED vlanMap
    PROVE  CallsInv'
<1> SUFFICES ASSUME NEW u \in Vlanner
             PROVE  CallOK(u)'
  BY DEF CallsInv
<1>1. CASE t \in Vlanner
  <2>1. u = t
    BY <1>1 DEF Orderly
  <2> QED BY <1>1, <2>1 DEF CallOK, AddPC, DelPC
<1>2. CASE t \notin Vlanner
  <2>1. th'[u] = th[u] /\ vlanMap' = vlanMap /\ CallOK(u) /\ u \in Thread
    BY <1>2, Threads DEF OnlyMoves, CallsInv
  <2> DEFINE v == th[u].vid
             p == th[u].port
             m == th[u].member
  <2>2. /\ Found(v, p)' <=> Found(v, p)
        /\ Cached(v, p)' = Cached(v, p)
    BY <2>1 DEF Found, Cached
  <2>3. CASE th[u].pc \in AddPC \cup DelPC
    <3>1. v \in Vid \ Defaultable /\ p \in Port
      BY <2>1, <2>3 DEF TypesOK, ThreadOK, Orderly, VlanAssumption
    <3>2. \A n \in Member : /\ MemberOf(v, p, n)' <=> MemberOf(v, p, n)
                            /\ MemberOf(v, p, n) => members'[n] = members[n]
      BY <2>1, <3>1 DEF SameMembers
    <3>3. th[u].pc \in {"cache_get", "cache_delete", "cache_insert"} => m \in Member
      BY <2>1 DEF TypesOK, ThreadOK
    <3> HIDE DEF v, p, m
    <3> QED BY <2>1, <2>2, <3>2, <3>3 DEF CallOK, v, p, m
  <2>4. CASE th[u].pc \notin AddPC \cup DelPC
    BY <2>1, <2>4 DEF CallOK, AddPC, DelPC
  <2> QED BY <2>3, <2>4
<1> QED BY <1>1, <1>2

\* Everything holds after a step of t that changes no table and nothing in SAI.
LEMMA QuietStep ==
    ASSUME VlanAssumption, Orderly, IInv, NEW t \in Thread, NEW r \in ThreadRec,
           th' = [th EXCEPT ![t] = r],
           UNCHANGED <<vlans, members, brports, brCache, vlanMap, vidObj, objVid, cache, defaultVid>>,
           ThreadOK(t)',
           t \in Vlanner => /\ th[t].pc \notin Working /\ r.pc \notin Working
                            /\ \/ th[t].pc \notin Mid
                               \/ r.pc \in Mid /\ r.vid = th[t].vid /\ r.port = th[t].port
                               \/ Agrees(th[t].vid, th[t].port)
                            /\ CallOK(t)',
           r.pc = "delete_vlan" => vlanMap[r.vid] = r.vlan,
           th[t].pc # "new_cache", r.pc # "new_cache",
           \/ r.brport = Null
           \/ r.port \in Port /\ r.brport = brCache[r.port]
           \/ /\ r.brport = th[t].brport
              /\ r.pc \in Knows => th[t].pc \in Knows /\ r.port = th[t].port,
           r.pc \in DefaultPC \ {"default_vlan"} => GoesOn(t) \/ DefaultOK(t)'
    PROVE  IInv'
<1>1. OnlyMoves(t) /\ th'[t] = r /\ th' \in [Thread -> ThreadRec]
  BY Moves DEF IInv, TypesOK
<1>2. TypesOK'
  BY <1>1, QuietTypes DEF IInv
<1>3. TablesInv'
  BY <1>1, QuietTables DEF IInv
<1>4. BrportInv'
  BY <1>1, QuietBrports DEF IInv, ports
<1>5. Fewer
  BY DEF Fewer
<1>6. MembersInv'
  BY <1>1, <1>5, QuietMembers DEF IInv
<1>7. DefaultsInv'
  BY <1>1, <1>5, QuietDefaults DEF IInv, DefaultsInv
<1>8. SameMembers
  BY QuietSai
<1>9. CacheInv'
  BY <1>1, <1>8, QuietCache DEF IInv
<1>10. CallsInv'
  <2>1. CASE t \in Vlanner
    BY <2>1 DEF CallsInv, Orderly
  <2>2. CASE t \notin Vlanner
    BY <1>1, <1>8, <2>2, QuietCalls DEF IInv
  <2> QED BY <2>1, <2>2
<1> QED BY <1>2, <1>3, <1>4, <1>6, <1>7, <1>9, <1>10 DEF IInv

\* A call that ends without a change.
LEMMA ReturnStep ==
    ASSUME VlanAssumption, Orderly, IInv, NEW t \in Thread, Return(t),
           UNCHANGED <<vlans, members, brports, brCache, vlanMap, vidObj, objVid, cache, defaultVid>>,
           th[t].pc # "new_cache", t \in Vlanner => th[t].pc \notin Working \cup Mid
    PROVE  IInv'
<1>1. th' = [th EXCEPT ![t] = Idle] /\ Idle \in ThreadRec
  BY IdleRec DEF Return
<1>2. th'[t] = Idle /\ Idle.pc = "idle" /\ Idle.brport = Null
  BY <1>1, Moves DEF IInv, TypesOK, Idle
<1>3. ThreadOK(t)'
  BY <1>2 DEF ThreadOK, VlanPC, AddPC, DelPC, DefaultPC, BrportPC
<1>4. CallOK(t)'
  BY <1>2 DEF CallOK, AddPC, DelPC
<1>5. "idle" \notin Working \cup DefaultPC
  BY DEF Working, DefaultPC
<1> QED BY <1>1, <1>2, <1>3, <1>4, <1>5, QuietStep

\* A VLAN that is, or was, in the table.
LEMMA MappedVlan ==
    ASSUME VlanAssumption, Orderly, TypesOK, TablesInv, NEW v \in Vid, vlanMap[v] # Null
    PROVE  /\ vlanMap[v] \in Vlan
           /\ vlans[vlanMap[v]] \in {v, Null}
           /\ ~ AtWork(v) => vlans[vlanMap[v]] = v
<1> DEFINE o == vlanMap[v]
<1>1. o \in Vlan /\ vlans[o] \in Vid \cup {Null}
  BY DEF TypesOK, TypeOK
<1>2. CASE ~ AtWork(v)
  BY <1>1, <1>2 DEF TablesInv, AgreeOn
<1>3. CASE AtWork(v)
  <2>1. PICK u \in Vlanner : th[u].pc \in Working /\ th[u].vid = v
    BY <1>3 DEF AtWork
  <2>2. InWork(u)
    BY <2>1 DEF TablesInv
  <2>3. o = th[u].vlan /\ th[u].pc \in {"create_virtual", "delete_map"}
    BY <1>1, <2>1, <2>2 DEF InWork
  <2>4. th[u].pc = "create_virtual" => vlans[o] = v
    BY <1>1, <2>1, <2>2, <2>3 DEF InWork
  <2>5. ASSUME th[u].pc = "delete_map", vlans[o] # Null
        PROVE  FALSE
    <3>1. objVid[o] = v /\ vlans[o] # v
      BY <1>1, <2>1, <2>2, <2>3, <2>5 DEF InWork
    <3>2. ~ AtWork(vlans[o])
      BY <2>1, <3>1 DEF AtWork, Orderly
    <3>3. objVid[o] = vlans[o]
      BY <1>1, <2>5, <3>2 DEF TablesInv, AgreeOn
    <3> QED BY <3>1, <3>3
  <2> QED BY <1>1, <1>3, <2>3, <2>4, <2>5
<1> QED BY <1>1, <1>2, <1>3

-----------------------------------------------------------------------------
(* The steps of a call that only look.                                     *)

LEMMA CreateVlanStep ==
    ASSUME VlanAssumption, Orderly, IInv, NEW t \in Vlanner, NEW v \in Vid, CreateVlan(t, v)
    PROVE  IInv'
<1> DEFINE r == [Idle EXCEPT !.pc = "create_vlan", !.vid = v]
<1>1. /\ t \in Thread /\ t \in Vlanner /\ th[t].pc = "idle" /\ th' = [th EXCEPT ![t] = r]
      /\ UNCHANGED <<vlans, members, brports, brCache, vlanMap, vidObj, objVid, cache, defaultVid>>
      /\ ThreadOK(t) /\ CallOK(t) /\ th[t] \in ThreadRec
  BY Threads DEF CreateVlan, Step, Goto, tables, ports, IInv, TypesOK, CallsInv
<1>2. /\ r \in ThreadRec /\ r.pc = "create_vlan" /\ r.vid = v /\ r.brport = Null
  BY DEF Idle, ThreadRec, PCs, VlanPC, AddPC, DelPC, DefaultPC, VlanAssumption
<1>3. th' = [th EXCEPT ![t] = r] /\ th'[t] = r
  <2> HIDE DEF r
  <2> QED BY <1>1, Moves DEF IInv, TypesOK
<1> HIDE DEF r
<1>4. ThreadOK(t)'
  BY <1>1, <1>2, <1>3, Threads DEF ThreadOK, VlanPC, AddPC, DelPC, DefaultPC, BrportPC, VlanAssumption
<1>5. CallOK(t)'
  BY <1>2, <1>3 DEF CallOK, AddPC, DelPC
<1>6. r.pc \notin Working \cup (DefaultPC \ {"default_vlan"}) /\ th[t].pc \notin Working \cup Mid
  BY <1>1, <1>2 DEF Working, DefaultPC, Mid
<1> QED BY <1>1, <1>2, <1>3, <1>4, <1>5, <1>6, QuietStep

LEMMA DeleteVlanStep ==
    ASSUME VlanAssumption, Orderly, IInv, NEW t \in Vlanner, NEW v \in Vid, DeleteVlan(t, v)
    PROVE  IInv'
<1> DEFINE r == [Idle EXCEPT !.pc = "delete_vlan", !.vid = v, !.vlan = vlanMap[v]]
<1>1. /\ t \in Thread /\ t \in Vlanner /\ th[t].pc = "idle" /\ th' = [th EXCEPT ![t] = r]
      /\ UNCHANGED <<vlans, members, brports, brCache, vlanMap, vidObj, objVid, cache, defaultVid>>
      /\ ThreadOK(t) /\ CallOK(t) /\ th[t] \in ThreadRec
  BY Threads DEF DeleteVlan, Step, Goto, tables, ports, IInv, TypesOK, CallsInv
<1>0. vlanMap[v] \in Vlan
  BY DEF DeleteVlan, IInv, TypesOK, TypeOK
<1>2. /\ r \in ThreadRec /\ r.pc = "delete_vlan" /\ r.vid = v /\ r.brport = Null /\ r.vlan = vlanMap[v] /\ vlanMap[v] \in Vlan
  BY <1>0 DEF Idle, ThreadRec, PCs, VlanPC
<1>3. th' = [th EXCEPT ![t] = r] /\ th'[t] = r
  <2> HIDE DEF r
  <2> QED BY <1>1, Moves DEF IInv, TypesOK
<1> HIDE DEF r
<1>4. ThreadOK(t)'
  BY <1>1, <1>2, <1>3, Threads DEF ThreadOK, VlanPC, AddPC, DelPC, DefaultPC, BrportPC, VlanAssumption
<1>5. CallOK(t)'
  BY <1>2, <1>3 DEF CallOK, AddPC, DelPC
<1>6. r.pc \notin Working \cup (DefaultPC \ {"default_vlan"}) /\ th[t].pc \notin Working \cup Mid
  BY <1>1, <1>2 DEF Working, DefaultPC, Mid
<1> QED BY <1>1, <1>2, <1>3, <1>4, <1>5, <1>6, QuietStep

LEMMA AddPortStep ==
    ASSUME VlanAssumption, Orderly, IInv, NEW t \in Vlanner, NEW v \in Vid, NEW p \in Port, NEW mode \in Mode, AddPort(t, v, p, mode)
    PROVE  IInv'
<1> DEFINE r == [Idle EXCEPT !.pc = "add_get", !.vid = v, !.port = p, !.mode = mode]
<1>1. /\ t \in Thread /\ t \in Vlanner /\ th[t].pc = "idle" /\ th' = [th EXCEPT ![t] = r]
      /\ UNCHANGED <<vlans, members, brports, brCache, vlanMap, vidObj, objVid, cache, defaultVid>>
      /\ ThreadOK(t) /\ CallOK(t) /\ th[t] \in ThreadRec
  BY Threads DEF AddPort, Step, Goto, tables, ports, IInv, TypesOK, CallsInv
<1>0. v \in Managed /\ vlanMap[v] # Null
  BY DEF AddPort
<1>2. /\ r \in ThreadRec /\ r.pc = "add_get" /\ r.vid = v /\ r.port = p /\ r.mode = mode /\ r.brport = Null
  BY DEF Idle, ThreadRec, PCs, VlanPC, AddPC, DelPC, DefaultPC, VlanAssumption
<1>3. th' = [th EXCEPT ![t] = r] /\ th'[t] = r
  <2> HIDE DEF r
  <2> QED BY <1>1, Moves DEF IInv, TypesOK
<1> HIDE DEF r
<1>4. ThreadOK(t)'
  BY <1>0, <1>1, <1>2, <1>3, Threads DEF ThreadOK, VlanPC, AddPC, DelPC, DefaultPC, BrportPC, VlanAssumption
<1>5. CallOK(t)'
  BY <1>0, <1>1, <1>2, <1>3 DEF CallOK, AddPC, DelPC
<1>6. r.pc \notin Working \cup (DefaultPC \ {"default_vlan"}) /\ th[t].pc \notin Working \cup Mid
  BY <1>1, <1>2 DEF Working, DefaultPC, Mid
<1> QED BY <1>1, <1>2, <1>3, <1>4, <1>5, <1>6, QuietStep

LEMMA DelPortStep ==
    ASSUME VlanAssumption, Orderly, IInv, NEW t \in Vlanner, NEW v \in Vid, NEW p \in Port, DelPort(t, v, p)
    PROVE  IInv'
<1> DEFINE r == [Idle EXCEPT !.pc = "del_member", !.vid = v, !.port = p, !.member = Cached(v, p)[1]]
<1>1. /\ t \in Thread /\ t \in Vlanner /\ th[t].pc = "idle" /\ th' = [th EXCEPT ![t] = r]
      /\ UNCHANGED <<vlans, members, brports, brCache, vlanMap, vidObj, objVid, cache, defaultVid>>
      /\ ThreadOK(t) /\ CallOK(t) /\ th[t] \in ThreadRec
  BY Threads DEF DelPort, Step, Goto, tables, ports, IInv, TypesOK, CallsInv
<1>0. v \in Managed /\ vlanMap[v] # Null /\ Found(v, p) /\ Cached(v, p)[1] \in Member
  <2>1. cache[<<v, p>>] \in Seq(Member \X Mode)
    BY DEF IInv, TypesOK, TypeOK
  <2> QED BY <2>1 DEF DelPort, Found, Cached
<1>2. /\ r \in ThreadRec /\ r.pc = "del_member" /\ r.vid = v /\ r.port = p /\ r.member = Cached(v, p)[1] /\ r.brport = Null
  BY <1>0 DEF Idle, ThreadRec, PCs, DelPC
<1>3. th' = [th EXCEPT ![t] = r] /\ th'[t] = r
  <2> HIDE DEF r
  <2> QED BY <1>1, Moves DEF IInv, TypesOK
<1> HIDE DEF r
<1>4. ThreadOK(t)'
  BY <1>0, <1>1, <1>2, <1>3, Threads DEF ThreadOK, VlanPC, AddPC, DelPC, DefaultPC, BrportPC, VlanAssumption
<1>5. CallOK(t)'
  BY <1>0, <1>1, <1>2, <1>3 DEF CallOK, AddPC, DelPC, Found, Cached
<1>6. r.pc \notin Working \cup (DefaultPC \ {"default_vlan"}) /\ th[t].pc \notin Working \cup Mid
  BY <1>1, <1>2 DEF Working, DefaultPC, Mid
<1> QED BY <1>1, <1>2, <1>3, <1>4, <1>5, <1>6, QuietStep

LEMMA DelAllFromDefaultStep ==
    ASSUME VlanAssumption, Orderly, IInv, NEW t \in Vlanner, DelAllFromDefault(t)
    PROVE  IInv'
<1> DEFINE r == [Idle EXCEPT !.pc = "default_vlan"]
<1>1. /\ t \in Thread /\ t \in Vlanner /\ th[t].pc = "idle" /\ th' = [th EXCEPT ![t] = r]
      /\ UNCHANGED <<vlans, members, brports, brCache, vlanMap, vidObj, objVid, cache, defaultVid>>
      /\ ThreadOK(t) /\ CallOK(t) /\ th[t] \in ThreadRec
  BY Threads DEF DelAllFromDefault, Step, Goto, tables, ports, IInv, TypesOK, CallsInv
<1>2. /\ r \in ThreadRec /\ r.pc = "default_vlan" /\ r.brport = Null /\ r.todo = {}
  BY DEF Idle, ThreadRec, PCs, VlanPC, AddPC, DelPC, DefaultPC, VlanAssumption
<1>3. th' = [th EXCEPT ![t] = r] /\ th'[t] = r
  <2> HIDE DEF r
  <2> QED BY <1>1, Moves DEF IInv, TypesOK
<1> HIDE DEF r
<1>4. ThreadOK(t)'
  BY <1>1, <1>2, <1>3, Threads DEF ThreadOK, VlanPC, AddPC, DelPC, DefaultPC, BrportPC, VlanAssumption
<1>5. CallOK(t)'
  BY <1>2, <1>3 DEF CallOK, AddPC, DelPC
<1>6. r.pc \notin Working \cup (DefaultPC \ {"default_vlan"}) /\ th[t].pc \notin Working \cup Mid
  BY <1>1, <1>2 DEF Working, DefaultPC, Mid
<1> QED BY <1>1, <1>2, <1>3, <1>4, <1>5, <1>6, QuietStep

LEMMA AddGetNewStep ==
    ASSUME VlanAssumption, Orderly, IInv, NEW t \in Vlanner, AddGet(t), ~ Found(th[t].vid, th[t].port)
    PROVE  IInv'
<1> DEFINE r == [th[t] EXCEPT !.pc = "add_vlan"]
<1>1. /\ t \in Thread /\ t \in Vlanner /\ th[t].pc = "add_get" /\ th' = [th EXCEPT ![t] = r]
      /\ UNCHANGED <<vlans, members, brports, brCache, vlanMap, vidObj, objVid, cache, defaultVid>>
      /\ ThreadOK(t) /\ CallOK(t) /\ th[t] \in ThreadRec
  BY Threads DEF AddGet, Step, Goto, tables, ports, IInv, TypesOK, CallsInv
<1>2. /\ r \in ThreadRec /\ r.pc = "add_vlan" /\ r.vid = th[t].vid /\ r.port = th[t].port /\ r.mode = th[t].mode /\ r.brport = th[t].brport
  BY <1>1, GotoFields DEF PCs, AddPC
<1>3. th' = [th EXCEPT ![t] = r] /\ th'[t] = r
  <2> HIDE DEF r
  <2> QED BY <1>1, Moves DEF IInv, TypesOK
<1> HIDE DEF r
<1>4. ThreadOK(t)'
  BY <1>1, <1>2, <1>3, Threads DEF ThreadOK, VlanPC, AddPC, DelPC, DefaultPC, BrportPC, VlanAssumption
<1>5. CallOK(t)'
  BY <1>1, <1>2, <1>3 DEF CallOK, AddPC, DelPC, Found, Cached
<1>6. r.pc \notin Working \cup (DefaultPC \ {"default_vlan"}) /\ th[t].pc \notin Working \cup Mid
  BY <1>1, <1>2 DEF Working, DefaultPC, Mid
<1> QED BY <1>1, <1>2, <1>3, <1>4, <1>5, <1>6, QuietStep DEF Knows, DefaultPC

LEMMA AddGetFoundStep ==
    ASSUME VlanAssumption, Orderly, IInv, NEW t \in Vlanner, AddGet(t), Found(th[t].vid, th[t].port)
    PROVE  IInv'
<1> DEFINE r == [th[t] EXCEPT !.member = Cached(th[t].vid, th[t].port)[1],
                           !.pc = IF Cached(th[t].vid, th[t].port)[2] = th[t].mode THEN "added" ELSE "set_mode"]
<1>1. /\ t \in Thread /\ t \in Vlanner /\ th[t].pc = "add_get" /\ th' = [th EXCEPT ![t] = r]
      /\ UNCHANGED <<vlans, members, brports, brCache, vlanMap, vidObj, objVid, cache, defaultVid>>
      /\ ThreadOK(t) /\ CallOK(t) /\ th[t] \in ThreadRec
  BY Threads DEF AddGet, Step, Goto, tables, ports, IInv, TypesOK, CallsInv
<1>0. Cached(th[t].vid, th[t].port) \in Member \X Mode
  <2>1. th[t].vid \in Vid /\ th[t].port \in Port
    BY <1>1 DEF ThreadOK, AddPC, VlanAssumption
  <2>2. cache[<<th[t].vid, th[t].port>>] \in Seq(Member \X Mode)
    BY <2>1 DEF IInv, TypesOK, TypeOK
  <2> QED BY <2>2 DEF Found, Cached
<1>2. /\ r \in ThreadRec
      /\ r.pc = (IF Cached(th[t].vid, th[t].port)[2] = th[t].mode THEN "added" ELSE "set_mode")
      /\ r.vid = th[t].vid /\ r.port = th[t].port /\ r.mode = th[t].mode /\ r.brport = th[t].brport
      /\ r.member = Cached(th[t].vid, th[t].port)[1] /\ r.member \in Member
  <2> DEFINE c == Cached(th[t].vid, th[t].port)[1]
             pc == IF Cached(th[t].vid, th[t].port)[2] = th[t].mode THEN "added" ELSE "set_mode"
  <2>1. c \in Member /\ pc \in PCs
    BY <1>0 DEF PCs, AddPC
  <2>2. r = [th[t] EXCEPT !.member = c, !.pc = pc]
    OBVIOUS
  <2> HIDE DEF c, pc, r
  <2>3. /\ r \in ThreadRec /\ r.pc = pc /\ r.vid = th[t].vid /\ r.port = th[t].port
        /\ r.mode = th[t].mode /\ r.brport = th[t].brport /\ r.member = c
    BY <1>1, <2>1, <2>2 DEF ThreadRec
  <2> QED BY <2>1, <2>3 DEF c, pc
<1>3. th' = [th EXCEPT ![t] = r] /\ th'[t] = r
  <2> HIDE DEF r
  <2> QED BY <1>1, Moves DEF IInv, TypesOK
<1> HIDE DEF r
<1>4. ThreadOK(t)'
  BY <1>1, <1>2, <1>3, Threads DEF ThreadOK, VlanPC, AddPC, DelPC, DefaultPC, BrportPC, VlanAssumption
<1>5. CallOK(t)'
  BY <1>1, <1>2, <1>3 DEF CallOK, AddPC, DelPC, Found, Cached
<1>6. r.pc \notin Working \cup (DefaultPC \ {"default_vlan"}) /\ th[t].pc \notin Working \cup Mid
  BY <1>1, <1>2 DEF Working, DefaultPC, Mid
<1> QED BY <1>1, <1>2, <1>3, <1>4, <1>5, <1>6, QuietStep DEF Knows, DefaultPC

LEMMA AddVlanStep ==
    ASSUME VlanAssumption, Orderly, IInv, NEW t \in Vlanner, AddVlan(t)
    PROVE  IInv'
<1> DEFINE r == [th[t] EXCEPT !.pc = "add_brport", !.vlan = vlanMap[th[t].vid]]
<1>1. /\ t \in Thread /\ t \in Vlanner /\ th[t].pc = "add_vlan" /\ th' = [th EXCEPT ![t] = r]
      /\ UNCHANGED <<vlans, members, brports, brCache, vlanMap, vidObj, objVid, cache, defaultVid>>
      /\ ThreadOK(t) /\ CallOK(t) /\ th[t] \in ThreadRec
  BY Threads DEF AddVlan, Step, Goto, tables, ports, IInv, TypesOK, CallsInv
<1>0. vlanMap[th[t].vid] \in Vlan
  <2>1. th[t].vid \in Vid /\ vlanMap[th[t].vid] # Null
    BY <1>1 DEF ThreadOK, AddPC, VlanAssumption, CallOK
  <2> QED BY <2>1 DEF IInv, TypesOK, TypeOK
<1>2. /\ r \in ThreadRec /\ r.pc = "add_brport" /\ r.vid = th[t].vid /\ r.port = th[t].port /\ r.mode = th[t].mode /\ r.brport = th[t].brport /\ r.vlan = vlanMap[th[t].vid]
  BY <1>0, <1>1 DEF ThreadRec, PCs, AddPC
<1>3. th' = [th EXCEPT ![t] = r] /\ th'[t] = r
  <2> HIDE DEF r
  <2> QED BY <1>1, Moves DEF IInv, TypesOK
<1> HIDE DEF r
<1>4. ThreadOK(t)'
  BY <1>1, <1>2, <1>3, Threads DEF ThreadOK, VlanPC, AddPC, DelPC, DefaultPC, BrportPC, VlanAssumption
<1>5. CallOK(t)'
  BY <1>1, <1>2, <1>3 DEF CallOK, AddPC, DelPC, Found, Cached
<1>6. r.pc \notin Working \cup (DefaultPC \ {"default_vlan"}) /\ th[t].pc \notin Working \cup Mid
  BY <1>1, <1>2 DEF Working, DefaultPC, Mid
<1> QED BY <1>1, <1>2, <1>3, <1>4, <1>5, <1>6, QuietStep DEF Knows, DefaultPC

LEMMA AddBrportFoundStep ==
    ASSUME VlanAssumption, Orderly, IInv, NEW t \in Vlanner, AddBrport(t), brCache[th[t].port] # Null
    PROVE  IInv'
<1> DEFINE r == [th[t] EXCEPT !.pc = "add_member", !.brport = brCache[th[t].port]]
<1>1. /\ t \in Thread /\ t \in Vlanner /\ th[t].pc = "add_brport" /\ th' = [th EXCEPT ![t] = r]
      /\ UNCHANGED <<vlans, members, brports, brCache, vlanMap, vidObj, objVid, cache, defaultVid>>
      /\ ThreadOK(t) /\ CallOK(t) /\ th[t] \in ThreadRec
  BY Threads DEF AddBrport, Step, Goto, tables, ports, IInv, TypesOK, CallsInv
<1>0. th[t].port \in Port /\ brCache[th[t].port] \in Brport
  <2>1. th[t].port \in Port
    BY <1>1 DEF ThreadOK, AddPC
  <2> QED BY <2>1 DEF IInv, TypesOK, TypeOK
<1>2. /\ r \in ThreadRec /\ r.pc = "add_member" /\ r.vid = th[t].vid /\ r.port = th[t].port /\ r.mode = th[t].mode /\ r.vlan = th[t].vlan
      /\ r.brport = brCache[r.port] /\ r.port \in Port /\ r.brport \in Brport
  BY <1>0, <1>1 DEF ThreadRec, PCs, AddPC
<1>3. th' = [th EXCEPT ![t] = r] /\ th'[t] = r
  <2> HIDE DEF r
  <2> QED BY <1>1, Moves DEF IInv, TypesOK
<1> HIDE DEF r
<1>4. ThreadOK(t)'
  BY <1>1, <1>2, <1>3, Threads DEF ThreadOK, VlanPC, AddPC, DelPC, DefaultPC, BrportPC, VlanAssumption
<1>5. CallOK(t)'
  BY <1>1, <1>2, <1>3 DEF CallOK, AddPC, DelPC, Found, Cached
<1>6. r.pc \notin Working \cup (DefaultPC \ {"default_vlan"}) /\ th[t].pc \notin Working \cup Mid
  BY <1>1, <1>2 DEF Working, DefaultPC, Mid
<1> QED BY <1>1, <1>2, <1>3, <1>4, <1>5, <1>6, QuietStep

LEMMA AddBrportStep ==
    ASSUME VlanAssumption, Orderly, IInv, NEW t \in Vlanner, AddBrport(t)
    PROVE  IInv'
<1>1. CASE brCache[th[t].port] = Null
  <2>1. /\ t \in Thread /\ Return(t) /\ th[t].pc = "add_brport"
        /\ UNCHANGED <<vlans, members, brports, brCache, vlanMap, vidObj, objVid, cache, defaultVid>>
    BY <1>1, Threads DEF AddBrport, tables, ports
  <2>2. th[t].pc \notin Working \cup Mid
    BY <2>1 DEF Working, Mid
  <2> QED BY <2>1, <2>2, ReturnStep
<1>2. CASE brCache[th[t].port] # Null
  BY <1>2, AddBrportFoundStep
<1> QED BY <1>1, <1>2

LEMMA AddReturnsStep ==
    ASSUME VlanAssumption, Orderly, IInv, NEW t \in Vlanner, AddReturns(t)
    PROVE  IInv'
<1>1. /\ t \in Thread /\ Return(t) /\ th[t].pc = "added"
      /\ UNCHANGED <<vlans, members, brports, brCache, vlanMap, vidObj, objVid, cache, defaultVid>>
  BY Threads DEF AddReturns, tables, ports
<1>2. th[t].pc \notin Working \cup Mid
  BY <1>1 DEF Working, Mid
<1> QED BY <1>1, <1>2, ReturnStep

\* The mode of a member is compared with the one asked for.
LEMMA CacheGetStep ==
    ASSUME VlanAssumption, Orderly, IInv, NEW t \in Vlanner, CacheGet(t)
    PROVE  IInv'
<1> DEFINE v == th[t].vid
           p == th[t].port
           m == th[t].member
           pc == IF ~ Found(v, p) THEN "cache_insert"
                 ELSE IF Cached(v, p)[2] # th[t].mode THEN "cache_delete" ELSE "added"
           r == [th[t] EXCEPT !.pc = pc]
<1>1. /\ t \in Thread /\ t \in Vlanner /\ th[t].pc = "cache_get" /\ th' = [th EXCEPT ![t] = r]
      /\ UNCHANGED <<vlans, members, brports, brCache, vlanMap, vidObj, objVid, cache, defaultVid>>
      /\ ThreadOK(t) /\ CallOK(t) /\ th[t] \in ThreadRec
  BY Threads DEF CacheGet, Goto, tables, ports, IInv, TypesOK, CallsInv
<1>2. /\ r \in ThreadRec /\ r.pc = pc /\ r.vid = v /\ r.port = p /\ r.mode = th[t].mode
      /\ r.member = m /\ r.brport = th[t].brport
  <2>1. pc \in PCs
    BY DEF PCs, AddPC
  <2> HIDE DEF pc, v, p, m
  <2> QED BY <1>1, <2>1, GotoFields DEF v, p, m
<1>3. th' = [th EXCEPT ![t] = r] /\ th'[t] = r
  <2> HIDE DEF r
  <2> QED BY <1>1, Moves DEF IInv, TypesOK
<1> HIDE DEF r
<1>4. ThreadOK(t)'
  BY <1>1, <1>2, <1>3, Threads DEF ThreadOK, VlanPC, AddPC, DelPC, DefaultPC, BrportPC, VlanAssumption
<1>5. /\ vlanMap[v] # Null /\ MemberOf(v, p, m) /\ members[m][3] = th[t].mode
      /\ \A n \in Member : MemberOf(v, p, n) => n = m
      /\ Found(v, p) => Cached(v, p)[1] = m
  BY <1>1 DEF CallOK, AddPC
<1>6. CallOK(t)'
  <2>1. th'[t].vid = th[t].vid /\ th'[t].port = th[t].port /\ th'[t].member = th[t].member
        /\ th'[t].mode = th[t].mode /\ th'[t].pc = pc
    BY <1>1, <1>2, <1>3
  <2>2. CASE pc = "cache_insert"
    BY <1>1, <1>5, <2>1, <2>2 DEF CallOK, AddPC, DelPC, Found, MemberOf
  <2>3. CASE pc # "cache_insert"
    BY <1>1, <1>5, <2>1, <2>3 DEF CallOK, AddPC, DelPC, Found, Cached, MemberOf
  <2> QED BY <2>2, <2>3
<1>7. (r.pc \in Mid /\ r.vid = v /\ r.port = p) \/ Agrees(v, p)
  <2>1. CASE pc = "added"
    BY <1>5, <2>1 DEF Agrees
  <2>2. CASE pc # "added"
    BY <1>2, <2>2 DEF Mid
  <2> QED BY <2>1, <2>2
<1>8. r.pc \notin Working \cup DefaultPC \cup Knows \cup {"delete_vlan", "new_cache"}
      /\ th[t].pc \notin Working
  BY <1>1, <1>2 DEF Working, DefaultPC, Knows
<1> HIDE DEF pc
<1> QED BY <1>1, <1>2, <1>3, <1>4, <1>6, <1>7, <1>8, QuietStep

-----------------------------------------------------------------------------
(* VLANs and their tables.                                                 *)

\* Everything else holds after a step of a call that makes or deletes a VLAN.
LEMMA TableStep ==
    ASSUME VlanAssumption, Orderly, IInv, NEW t \in Vlanner, NEW r \in ThreadRec,
           th' = [th EXCEPT ![t] = r], UNCHANGED <<members, brports, brCache, cache>>,
           vlans' \in [Vlan -> Vid \cup {Null}], vlanMap' \in [Vid -> Vlan \cup {Null}],
           vidObj' \in [Vid -> Vlan \cup {Null}], objVid' \in [Vlan -> Vid \cup {Null}],
           defaultVid' \in Defaultable, ThreadOK(t)',
           th[t].pc \in VlanPC \cup {"idle"}, r.pc \in VlanPC \cup {"idle"},
           r.brport \in {Null, th[t].brport},
           TablesInv', MembersInv', SameMembers,
           \A u \in Thread : u # t /\ th[u].vlan \in Vlan =>
               vlans'[th[u].vlan] \in {vlans[th[u].vlan], Null}
    PROVE  IInv'
<1>1. OnlyMoves(t) /\ th'[t] = r /\ th' \in [Thread -> ThreadRec] /\ t \in Thread
  BY Moves, Threads DEF IInv, TypesOK
<1>2. /\ th[t].pc \notin Mid \cup Knows \cup {"new_cache"}
      /\ r.pc \notin AddPC \cup DelPC \cup DefaultPC \cup Knows \cup {"new_cache"}
  BY DEF VlanPC, Mid, Knows, AddPC, DelPC, DefaultPC
<1>3. TypesOK'
  <2>1. \A u \in Thread : ThreadOK(u)' /\ th'[u].todo \subseteq Member
    BY <1>1, QuietThreads DEF IInv
  <2> QED BY <1>1, <2>1 DEF IInv, TypesOK, TypeOK, VlanAssumption
<1>4. BrportInv'
  BY <1>1, <1>2, QuietBrports DEF IInv, ports
<1>5. DefaultsInv'
  <2> SUFFICES ASSUME NEW u \in Thread, th'[u].pc \in DefaultPC \ {"default_vlan"}
               PROVE  DefaultOK(u)'
    BY DEF DefaultsInv
  <2>1. u # t /\ th'[u] = th[u]
    BY <1>1, <1>2 DEF OnlyMoves
  <2>2. DefaultOK(u) /\ th[u].vlan \in Vlan
    BY <2>1 DEF IInv, DefaultsInv, TypesOK, ThreadOK
  <2>3. vlans'[th[u].vlan] \in {vlans[th[u].vlan], Null} /\ members' = members
    BY <2>1, <2>2
  <2> QED BY <2>1, <2>2, <2>3 DEF DefaultOK
<1>6. CacheInv'
  BY <1>1, <1>2, QuietCache DEF IInv
<1>7. CallsInv'
  BY <1>1, <1>2, QuietCalls DEF IInv
<1> QED BY <1>3, <1>4, <1>5, <1>6, <1>7 DEF IInv

\* No other call works on a VLAN.
LEMMA AloneAtWork ==
    ASSUME Orderly, TablesInv, NEW t \in Vlanner, NEW w \in Vid,
           th[t].pc \in Working => w # th[t].vid
    PROVE  AgreeOn(w) /\ ~ AtWork(w)
  BY DEF Orderly, TablesInv, AtWork

LEMMA OneAtWork ==
    ASSUME Orderly, NEW t \in Vlanner,
           \A w \in Vid : (th'[t].pc \in Working => w # th'[t].vid) => AgreeOn(w)',
           th'[t].pc \in Working => InWork(t)', th'[t].pc # "delete_vlan"
    PROVE  TablesInv'
<1>1. \A u \in Vlanner : u = t
  BY DEF Orderly
<1>2. \A w \in Vid : ~ AtWork(w)' => (th'[t].pc \in Working => w # th'[t].vid)
  BY DEF AtWork
<1> QED BY <1>1, <1>2 DEF TablesInv

\* A VLAN that SAI has, or loses, without members.
LEMMA EmptyVlan ==
    ASSUME TypesOK, MembersInv, NEW o \in Vlan, \A m \in Member : members[m] # Null => members[m][1] # o,
           \A u \in Vlan : u # o => vlans'[u] = vlans[u], UNCHANGED <<members, brports>>
    PROVE  /\ SameMembers
           /\ \A m \in Member : members[m] # Null => vlans'[members[m][1]] # Null
<1>1. \A m \in Member : members[m] # Null => members[m] \in Vlan \X Brport \X Mode
  BY DEF TypesOK, TypeOK
<1>2. \A m \in Member : members[m] # Null => vlans'[members[m][1]] = vlans[members[m][1]]
  BY <1>1
<1> QED BY <1>2 DEF SameMembers, MemberOf, MembersInv

LEMMA SetDefaultVlanStep ==
    ASSUME VlanAssumption, Orderly, IInv, NEW t \in Vlanner, NEW v \in Vid, SetDefaultVlan(t, v)
    PROVE  IInv'
<1> DEFINE r == IF vlanMap[v] = Null THEN [Idle EXCEPT !.pc = "create_vlan", !.vid = v] ELSE Idle
<1>1. /\ th' = [th EXCEPT ![t] = r] /\ th[t].pc = "idle" /\ v \in Defaultable
      /\ defaultVid' = v
      /\ UNCHANGED <<vlans, members, brports, brCache, vlanMap, vidObj, objVid, cache>>
  BY DEF SetDefaultVlan, Step, ports
<1>2. r \in ThreadRec /\ r.brport = Null
      /\ ((r = Idle /\ r.pc = "idle") \/ (r.pc = "create_vlan" /\ r.vid = v))
  BY IdleRec DEF Idle, ThreadRec, PCs, VlanPC
<1>3. OnlyMoves(t) /\ th'[t] = r /\ t \in Thread /\ th' = [th EXCEPT ![t] = r]
  <2> HIDE DEF r
  <2> QED BY <1>1, Moves, Threads DEF IInv, TypesOK
<1> HIDE DEF r
<1>4. r.pc \in {"create_vlan", "idle"}
  BY <1>2
<1>5. ThreadOK(t)'
  BY <1>2, <1>3, <1>4, Threads DEF ThreadOK, VlanPC, AddPC, DelPC, DefaultPC, BrportPC, VlanAssumption
<1>6. th[t].pc \notin Working /\ th'[t].pc \notin Working /\ th'[t].pc # "delete_vlan"
  BY <1>1, <1>3, <1>4 DEF Working
<1>7. TablesInv'
  BY <1>1, <1>3, <1>6, QuietTables DEF IInv
<1>8. Fewer /\ SameMembers
  BY <1>1, QuietSai DEF Fewer
<1>9. MembersInv'
  BY <1>1, <1>3, <1>6, <1>8, QuietMembers DEF IInv
<1>10. TypeOK /\ th[t].pc \in VlanPC \cup {"idle"} /\ r.pc \in VlanPC \cup {"idle"}
  BY <1>1, <1>4 DEF IInv, TypesOK, VlanPC
<1> QED BY <1>1, <1>2, <1>3, <1>5, <1>7, <1>8, <1>9, <1>10, TableStep DEF TypeOK

\* SAI makes VLAN o.
LEMMA VlanMade ==
    ASSUME VlanAssumption, Orderly, IInv, NEW t \in Vlanner, NEW o \in Vlan,
           th[t].pc = "create_vlan", FreshVlan(o), \A u \in Vlan : vlans[u] # th[t].vid,
           vlans' = [vlans EXCEPT ![o] = th[t].vid],
           Step(t, [th[t] EXCEPT !.pc = "create_map", !.vlan = o]),
           UNCHANGED <<members, ports, tables, cache>>
    PROVE  IInv'
<1> DEFINE r == [th[t] EXCEPT !.pc = "create_map", !.vlan = o]
           v == th[t].vid
<1>1. /\ th' = [th EXCEPT ![t] = r] /\ t \in Thread /\ ThreadOK(t) /\ th[t] \in ThreadRec
      /\ UNCHANGED <<members, brports, brCache, vlanMap, vidObj, objVid, cache, defaultVid>>
      /\ v \in Vid
  BY Threads DEF Step, ports, tables, IInv, TypesOK, ThreadOK, VlanPC
<1>2. /\ r \in ThreadRec /\ r.pc = "create_map" /\ r.vid = v /\ r.vlan = o /\ r.brport = th[t].brport
  BY <1>1 DEF ThreadRec, PCs, VlanPC
<1>3. OnlyMoves(t) /\ th'[t] = r /\ th' = [th EXCEPT ![t] = r]
  <2> HIDE DEF r
  <2> QED BY <1>1, Moves DEF IInv, TypesOK
<1> HIDE DEF r
<1>4. ThreadOK(t)'
  BY <1>1, <1>2, <1>3, Threads DEF ThreadOK, VlanPC, AddPC, DelPC, DefaultPC, BrportPC, VlanAssumption
<1>5. /\ vlans \in [Vlan -> Vid \cup {Null}] /\ vlans' \in [Vlan -> Vid \cup {Null}]
      /\ vlans[o] = Null /\ vlans'[o] = v /\ \A u \in Vlan : u # o => vlans'[u] = vlans[u]
  BY <1>1 DEF IInv, TypesOK, TypeOK, FreshVlan
<1>6. \A w \in Vid : AgreeOn(w)
  BY AloneAtWork DEF IInv, Working
<1>7. TablesInv'
  <2>1. InWork(t)'
    <3>1. \A u \in Vlan : vlanMap[v] # u /\ vidObj[v] # u /\ objVid[u] # v
      BY <1>1, <1>6 DEF AgreeOn
    <3> QED BY <1>1, <1>2, <1>3, <1>5, <3>1 DEF InWork
  <2>2. ASSUME NEW w \in Vid, w # v
        PROVE  AgreeOn(w)'
    BY <1>1, <1>5, <1>6, <2>2, Threads DEF AgreeOn, VlanAssumption
  <2> QED BY <1>2, <1>3, <2>1, <2>2, OneAtWork DEF Working
<1>8. \A m \in Member : members[m] # Null => members[m][1] # o
  BY <1>5 DEF IInv, MembersInv
<1>9. SameMembers /\ \A m \in Member : members[m] # Null => vlans'[members[m][1]] # Null
  BY <1>1, <1>5, <1>8, EmptyVlan DEF IInv
<1>10. MembersInv'
  <2>1. \A u \in Vlanner : th'[u].vlan = o
    BY <1>2, <1>3 DEF Orderly
  <2> QED BY <1>1, <1>8, <1>9, <2>1 DEF IInv, MembersInv
<1>11. \A u \in Thread : u # t /\ th[u].vlan \in Vlan => vlans'[th[u].vlan] \in {vlans[th[u].vlan], Null}
  BY <1>5 DEF FreshVlan
<1>12. TypeOK /\ th[t].pc \in VlanPC \cup {"idle"} /\ r.pc \in VlanPC \cup {"idle"} /\ defaultVid \in Defaultable
  BY <1>2 DEF IInv, TypesOK, VlanPC, DefaultsInv
<1> QED BY <1>1, <1>2, <1>3, <1>4, <1>5, <1>7, <1>9, <1>10, <1>11, <1>12, TableStep DEF TypeOK

LEMMA CreateVlanSaiStep ==
    ASSUME VlanAssumption, Orderly, IInv, NEW t \in Vlanner, CreateVlanSai(t)
    PROVE  IInv'
<1>1. CASE Return(t) /\ UNCHANGED vlans
  <2>1. /\ t \in Thread /\ th[t].pc = "create_vlan"
        /\ UNCHANGED <<vlans, members, brports, brCache, vlanMap, vidObj, objVid, cache, defaultVid>>
    BY <1>1, Threads DEF CreateVlanSai, ports, tables
  <2>2. th[t].pc \notin Working \cup Mid
    BY <2>1 DEF Working, Mid
  <2> QED BY <1>1, <2>1, <2>2, ReturnStep
<1>2. CASE ~ (Return(t) /\ UNCHANGED vlans)
  <2>1. PICK o \in Vlan :
             /\ FreshVlan(o) /\ \A u \in Vlan : vlans[u] # th[t].vid
             /\ vlans' = [vlans EXCEPT ![o] = th[t].vid]
             /\ Step(t, [th[t] EXCEPT !.pc = "create_map", !.vlan = o])
    BY <1>2 DEF CreateVlanSai
  <2> QED BY <2>1, VlanMade DEF CreateVlanSai
<1> QED BY <1>1, <1>2

\* What is known of the VLAN a call works on.
LEMMA AtWorkFacts ==
    ASSUME VlanAssumption, Orderly, IInv, NEW t \in Vlanner, th[t].pc \in Working
    PROVE  /\ t \in Thread /\ ThreadOK(t) /\ th[t] \in ThreadRec
           /\ th[t].vid \in Vid /\ th[t].vlan \in Vlan
           /\ InWork(t) /\ \A w \in Vid : w # th[t].vid => AgreeOn(w)
           /\ TypeOK /\ th[t].pc \in VlanPC /\ th[t].pc # "create_vlan"
           /\ \A m \in Member : members[m] # Null => members[m][1] # th[t].vlan
<1>1. t \in Thread /\ ThreadOK(t) /\ th[t] \in ThreadRec /\ th[t].pc \in VlanPC \ {"create_vlan"}
  BY Threads DEF IInv, TypesOK, Working, VlanPC
<1>2. th[t].vid \in Vid /\ th[t].vlan \in Vlan
  BY <1>1 DEF ThreadOK
<1>3. InWork(t) /\ \A w \in Vid : w # th[t].vid => AgreeOn(w)
  BY AloneAtWork DEF IInv, TablesInv
<1>4. TypeOK /\ \A m \in Member : members[m] # Null => members[m][1] # th[t].vlan
  BY DEF IInv, TypesOK, MembersInv
<1> QED BY <1>1, <1>2, <1>3, <1>4

\* The steps at work that only change tables.
LEMMA TablesStep ==
    ASSUME VlanAssumption, Orderly, IInv, NEW t \in Vlanner, NEW r \in ThreadRec,
           th[t].pc \in Working, r.pc \in Working \cup {"idle"},
           r.pc \in Working => r.vid = th[t].vid /\ r.vlan = th[t].vlan,
           r.pc = "idle" => r = Idle,
           r.brport \in {Null, th[t].brport},
           th' = [th EXCEPT ![t] = r],
           UNCHANGED <<vlans, members, brports, brCache, defaultVid, cache>>,
           vlanMap' \in [Vid -> Vlan \cup {Null}],
           vidObj' \in [Vid -> Vlan \cup {Null}], objVid' \in [Vlan -> Vid \cup {Null}],
           r.pc \in Working => InWork(t)',
           \A w \in Vid : (r.pc \in Working => w # th[t].vid) => AgreeOn(w)'
    PROVE  IInv'
<1>1. OnlyMoves(t) /\ th'[t] = r /\ t \in Thread
  BY Moves, Threads DEF IInv, TypesOK
<1>2. "idle" \notin Working /\ r.pc # "delete_vlan"
      /\ th[t].pc \in VlanPC /\ r.pc \in VlanPC \cup {"idle"}
  BY DEF Working, VlanPC
<1>3. TablesInv'
  BY <1>1, <1>2, OneAtWork
<1>4. Fewer /\ SameMembers
  BY QuietSai DEF Fewer
<1>5. MembersInv'
  BY <1>1, <1>2, <1>4, QuietMembers DEF IInv
<1>6. ThreadOK(t)'
  <2>1. th[t].vid \in Vid /\ th[t].vlan \in Vlan
    BY AtWorkFacts
  <2>2. CASE r.pc \in Working
    BY <1>1, <2>1, <2>2, Threads DEF ThreadOK, VlanPC, AddPC, DelPC, DefaultPC, BrportPC, VlanAssumption, Working
  <2>3. CASE r = Idle
    <3>1. Idle.pc = "idle"
      BY DEF Idle
    <3> QED BY <1>1, <2>3, <3>1 DEF ThreadOK, VlanPC, AddPC, DelPC, DefaultPC, BrportPC
  <2> QED BY <2>2, <2>3
<1>7. TypeOK /\ defaultVid \in Defaultable
  BY DEF IInv, TypesOK, DefaultsInv
<1> QED BY <1>1, <1>2, <1>3, <1>4, <1>5, <1>6, <1>7, TableStep DEF TypeOK

LEMMA CreateVlanMapStep ==
    ASSUME VlanAssumption, Orderly, IInv, NEW t \in Vlanner, CreateVlanMap(t)
    PROVE  IInv'
<1> DEFINE r == [th[t] EXCEPT !.pc = "create_virtual"]
           v == th[t].vid
           o == th[t].vlan
<1>1. th[t].pc = "create_map" /\ th[t].pc \in Working /\ "create_virtual" \in Working
  BY DEF CreateVlanMap, Working
<1>2. /\ t \in Thread /\ th[t] \in ThreadRec /\ v \in Vid /\ o \in Vlan /\ InWork(t)
      /\ TypeOK /\ \A w \in Vid : w # v => AgreeOn(w)
  BY <1>1, AtWorkFacts
<1>3. vlanMap[v] = Null
  BY <1>1, <1>2 DEF InWork, TypeOK
<1>4. /\ th' = [th EXCEPT ![t] = r] /\ vlanMap' = [vlanMap EXCEPT ![v] = o]
      /\ UNCHANGED <<vlans, members, brports, brCache, vidObj, objVid, cache, defaultVid>>
  BY <1>3 DEF CreateVlanMap, Goto, ports
<1>5. r \in ThreadRec /\ r.pc = "create_virtual" /\ r.vid = v /\ r.vlan = o /\ r.brport = th[t].brport
  BY <1>2, GotoFields DEF PCs, VlanPC
<1>6. th'[t] = r /\ th' = [th EXCEPT ![t] = r]
  <2> HIDE DEF r
  <2> QED BY <1>2, <1>4, Moves DEF IInv, TypesOK
<1> HIDE DEF r
<1>7. /\ vlanMap' \in [Vid -> Vlan \cup {Null}] /\ vlanMap'[v] = o
      /\ \A w \in Vid : w # v => vlanMap'[w] = vlanMap[w]
  BY <1>2, <1>4 DEF TypeOK
<1>8. InWork(t)'
  BY <1>1, <1>2, <1>4, <1>5, <1>6, <1>7 DEF InWork
<1>9. \A w \in Vid : w # v => AgreeOn(w)'
  BY <1>2, <1>4, <1>7 DEF AgreeOn
<1>10. \A w \in Vid : (r.pc \in Working => w # th[t].vid) => AgreeOn(w)'
  BY <1>1, <1>5, <1>9
<1>11. r.pc \in Working \cup {"idle"} /\ r.pc # "idle" /\ vidObj' \in [Vid -> Vlan \cup {Null}]
       /\ objVid' \in [Vlan -> Vid \cup {Null}]
  BY <1>1, <1>2, <1>4, <1>5 DEF TypeOK
<1> HIDE DEF v, o
<1> QED BY <1>1, <1>4, <1>5, <1>6, <1>7, <1>8, <1>10, <1>11, TablesStep DEF v, o

LEMMA CreateVlanVirtualStep ==
    ASSUME VlanAssumption, Orderly, IInv, NEW t \in Vlanner, CreateVlanVirtual(t)
    PROVE  IInv'
<1> DEFINE v == th[t].vid
           o == th[t].vlan
<1>1. th[t].pc = "create_virtual" /\ th[t].pc \in Working
  BY DEF CreateVlanVirtual, Working
<1>2. /\ v \in Vid /\ o \in Vlan /\ InWork(t)
      /\ TypeOK /\ \A w \in Vid : w # v => AgreeOn(w)
  BY <1>1, AtWorkFacts
<1>3. /\ th' = [th EXCEPT ![t] = Idle]
      /\ vidObj' = [vidObj EXCEPT ![v] = o] /\ objVid' = [objVid EXCEPT ![o] = v]
      /\ UNCHANGED <<vlans, members, brports, brCache, vlanMap, cache, defaultVid>>
  BY DEF CreateVlanVirtual, Return, ports
<1>4. Idle \in ThreadRec /\ Idle.pc = "idle" /\ Idle.brport = Null /\ "idle" \notin Working
  BY IdleRec DEF Idle, Working
<1>5. /\ vidObj' \in [Vid -> Vlan \cup {Null}] /\ vidObj'[v] = o
      /\ \A w \in Vid : w # v => vidObj'[w] = vidObj[w]
      /\ objVid' \in [Vlan -> Vid \cup {Null}] /\ objVid'[o] = v
      /\ \A u \in Vlan : u # o => objVid'[u] = objVid[u]
  BY <1>2, <1>3 DEF TypeOK
<1>6. \A u \in Vlan : /\ vlans[u] = v <=> u = o
                      /\ vlanMap[v] = u <=> u = o
                      /\ objVid[u] # v
  BY <1>1, <1>2 DEF InWork
<1>7. ASSUME NEW w \in Vid, w = v
      PROVE  AgreeOn(w)'
  BY <1>2, <1>3, <1>5, <1>6, <1>7 DEF AgreeOn
<1>8. ASSUME NEW w \in Vid, w # v
      PROVE  AgreeOn(w)'
  <2>1. vlans[o] # w /\ objVid[o] # w
    BY <1>2, <1>6, <1>8 DEF AgreeOn
  <2> QED BY <1>2, <1>3, <1>5, <1>8, <2>1 DEF AgreeOn
<1>9. \A w \in Vid : AgreeOn(w)'
  BY <1>7, <1>8
<1>10. vlanMap' \in [Vid -> Vlan \cup {Null}]
  BY <1>2, <1>3 DEF TypeOK
<1>11. /\ th' = [th EXCEPT ![t] = Idle] /\ UNCHANGED <<vlans, members, brports, brCache, defaultVid, cache>>
       /\ vidObj' \in [Vid -> Vlan \cup {Null}] /\ objVid' \in [Vlan -> Vid \cup {Null}]
       /\ Idle.pc \notin Working /\ Idle.pc \in Working \cup {"idle"} /\ Idle.brport \in {Null, th[t].brport}
  BY <1>3, <1>4, <1>5
<1> QED BY <1>1, <1>9, <1>10, <1>11, IdleRec, TablesStep

LEMMA DeleteVlanSaiStep ==
    ASSUME VlanAssumption, Orderly, IInv, NEW t \in Vlanner, DeleteVlanSai(t)
    PROVE  IInv'
<1> DEFINE r == [th[t] EXCEPT !.pc = "delete_map"]
           v == th[t].vid
           o == th[t].vlan
<1>1. /\ t \in Thread /\ ThreadOK(t) /\ th[t] \in ThreadRec /\ th[t].pc = "delete_vlan"
      /\ v \in Vid /\ o \in Vlan /\ vlanMap[v] = o
      /\ UNCHANGED <<members, brports, brCache, vlanMap, vidObj, objVid, cache, defaultVid>>
  BY Threads DEF DeleteVlanSai, IInv, TypesOK, ThreadOK, VlanPC, TablesInv, ports, tables
<1>2. CASE Return(t) /\ UNCHANGED vlans
  <2>1. th[t].pc \notin Working \cup Mid
    BY <1>1 DEF Working, Mid
  <2> QED BY <1>1, <1>2, <2>1, ReturnStep
<1>3. CASE ~ (Return(t) /\ UNCHANGED vlans)
  <2>1. /\ th' = [th EXCEPT ![t] = r] /\ vlans' = [vlans EXCEPT ![o] = Null] /\ InVlan(o) = {}
    BY <1>3 DEF DeleteVlanSai, Goto
  <2>2. r \in ThreadRec /\ r.pc = "delete_map" /\ r.vid = v /\ r.vlan = o /\ r.brport = th[t].brport
    BY <1>1, GotoFields DEF PCs, VlanPC
  <2>3. th'[t] = r /\ th' = [th EXCEPT ![t] = r]
    <3> HIDE DEF r
    <3> QED BY <1>1, <2>1, Moves DEF IInv, TypesOK
  <2> HIDE DEF r
  <2>4. ThreadOK(t)'
    BY <1>1, <2>2, <2>3, Threads DEF ThreadOK, VlanPC, AddPC, DelPC, DefaultPC, BrportPC, VlanAssumption
  <2>5. /\ vlans \in [Vlan -> Vid \cup {Null}] /\ vlans' \in [Vlan -> Vid \cup {Null}]
        /\ vlans'[o] = Null /\ \A u \in Vlan : u # o => vlans'[u] = vlans[u]
    BY <1>1, <2>1 DEF IInv, TypesOK, TypeOK
  <2>6. \A w \in Vid : AgreeOn(w)
    BY <1>1, AloneAtWork DEF IInv, Working
  <2>7. \A u \in Vlan : /\ vlans[u] = v <=> u = o
                        /\ vidObj[v] = u <=> u = o
                        /\ objVid[u] = v <=> u = o
    BY <1>1, <2>6 DEF AgreeOn
  <2>8. v # Null
    BY <1>1 DEF VlanAssumption
  <2>9. TablesInv'
    <3>1. InWork(t)'
      BY <1>1, <2>2, <2>3, <2>5, <2>7, <2>8 DEF InWork
    <3>2. ASSUME NEW w \in Vid, w # v
          PROVE  AgreeOn(w)'
      <4>1. w # Null /\ vlans[o] # w /\ AgreeOn(w)
        BY <1>1, <2>6, <2>7, <3>2 DEF VlanAssumption
      <4> QED BY <1>1, <2>5, <4>1 DEF AgreeOn
    <3> QED BY <2>2, <2>3, <3>1, <3>2, OneAtWork DEF Working
  <2>10. \A m \in Member : members[m] # Null => members[m][1] # o
    BY <2>1 DEF InVlan
  <2>11. SameMembers /\ \A m \in Member : members[m] # Null => vlans'[members[m][1]] # Null
    BY <1>1, <2>5, <2>10, EmptyVlan DEF IInv
  <2>12. MembersInv'
    <3>1. \A u \in Vlanner : th'[u].vlan = o
      BY <2>2, <2>3 DEF Orderly
    <3> QED BY <1>1, <2>10, <2>11, <3>1 DEF IInv, MembersInv
  <2>13. \A u \in Thread : u # t /\ th[u].vlan \in Vlan => vlans'[th[u].vlan] \in {vlans[th[u].vlan], Null}
    BY <2>5
  <2>14. TypeOK /\ th[t].pc \in VlanPC \cup {"idle"} /\ r.pc \in VlanPC \cup {"idle"} /\ defaultVid \in Defaultable
    BY <1>1, <2>2 DEF IInv, TypesOK, VlanPC, DefaultsInv
  <2> QED BY <1>1, <2>2, <2>3, <2>4, <2>5, <2>9, <2>11, <2>12, <2>13, <2>14, TableStep DEF TypeOK
<1> QED BY <1>2, <1>3

LEMMA DeleteVlanMapStep ==
    ASSUME VlanAssumption, Orderly, IInv, NEW t \in Vlanner, DeleteVlanMap(t)
    PROVE  IInv'
<1> DEFINE r == [th[t] EXCEPT !.pc = "delete_virtual"]
           v == th[t].vid
           o == th[t].vlan
<1>1. th[t].pc = "delete_map" /\ th[t].pc \in Working /\ "delete_virtual" \in Working
  BY DEF DeleteVlanMap, Working
<1>2. /\ t \in Thread /\ th[t] \in ThreadRec /\ v \in Vid /\ o \in Vlan /\ InWork(t)
      /\ TypeOK /\ \A w \in Vid : w # v => AgreeOn(w)
  BY <1>1, AtWorkFacts
<1>3. vlanMap[v] = o /\ o # Null
  BY <1>1, <1>2 DEF InWork, VlanAssumption
<1>4. /\ th' = [th EXCEPT ![t] = r] /\ vlanMap' = [vlanMap EXCEPT ![v] = Null]
      /\ UNCHANGED <<vlans, members, brports, brCache, vidObj, objVid, cache, defaultVid>>
  BY <1>3 DEF DeleteVlanMap, Goto, ports
<1>5. r \in ThreadRec /\ r.pc = "delete_virtual" /\ r.vid = v /\ r.vlan = o /\ r.brport = th[t].brport
  BY <1>2, GotoFields DEF PCs, VlanPC
<1>6. th'[t] = r /\ th' = [th EXCEPT ![t] = r]
  <2> HIDE DEF r
  <2> QED BY <1>2, <1>4, Moves DEF IInv, TypesOK
<1> HIDE DEF r
<1>7. /\ vlanMap' \in [Vid -> Vlan \cup {Null}] /\ vlanMap'[v] = Null /\ Null \notin Vlan
      /\ \A w \in Vid : w # v => vlanMap'[w] = vlanMap[w]
  BY <1>2, <1>4 DEF TypeOK, VlanAssumption
<1>8. InWork(t)'
  BY <1>1, <1>2, <1>4, <1>5, <1>6, <1>7 DEF InWork
<1>9. \A w \in Vid : w # v => AgreeOn(w)'
  BY <1>2, <1>4, <1>7 DEF AgreeOn
<1>10. \A w \in Vid : (r.pc \in Working => w # th[t].vid) => AgreeOn(w)'
  BY <1>1, <1>5, <1>9
<1>11. r.pc \in Working \cup {"idle"} /\ r.pc # "idle" /\ vidObj' \in [Vid -> Vlan \cup {Null}]
       /\ objVid' \in [Vlan -> Vid \cup {Null}]
  BY <1>1, <1>2, <1>4, <1>5 DEF TypeOK
<1> HIDE DEF v, o
<1> QED BY <1>1, <1>4, <1>5, <1>6, <1>7, <1>8, <1>10, <1>11, TablesStep DEF v, o

LEMMA DeleteVlanVirtualStep ==
    ASSUME VlanAssumption, Orderly, IInv, NEW t \in Vlanner, DeleteVlanVirtual(t)
    PROVE  IInv'
<1> DEFINE v == th[t].vid
           o == th[t].vlan
<1>1. th[t].pc = "delete_virtual" /\ th[t].pc \in Working
  BY DEF DeleteVlanVirtual, Working
<1>2. /\ v \in Vid /\ o \in Vlan /\ InWork(t) /\ v # Null
      /\ TypeOK /\ \A w \in Vid : w # v => AgreeOn(w)
  BY <1>1, AtWorkFacts DEF VlanAssumption
<1>3. \A u \in Vlan : /\ vlans[u] # v /\ vlanMap[v] # u
                      /\ vidObj[v] = u <=> u = o
                      /\ objVid[u] = v <=> u = o
  BY <1>1, <1>2 DEF InWork
<1>4. /\ th' = [th EXCEPT ![t] = Idle]
      /\ vidObj' = [vidObj EXCEPT ![v] = Null] /\ objVid' = [objVid EXCEPT ![o] = Null]
      /\ UNCHANGED <<vlans, members, brports, brCache, vlanMap, cache, defaultVid>>
  BY <1>2, <1>3 DEF DeleteVlanVirtual, Return, ports
<1>5. Idle \in ThreadRec /\ Idle.pc = "idle" /\ Idle.brport = Null /\ "idle" \notin Working
  BY IdleRec DEF Idle, Working
<1>6. /\ vidObj' \in [Vid -> Vlan \cup {Null}] /\ vidObj'[v] = Null
      /\ \A w \in Vid : w # v => vidObj'[w] = vidObj[w]
      /\ objVid' \in [Vlan -> Vid \cup {Null}] /\ objVid'[o] = Null
      /\ \A u \in Vlan : u # o => objVid'[u] = objVid[u]
  BY <1>2, <1>4 DEF TypeOK
<1>7. ASSUME NEW w \in Vid, w = v
      PROVE  AgreeOn(w)'
  BY <1>2, <1>3, <1>4, <1>6, <1>7 DEF AgreeOn, VlanAssumption
<1>8. ASSUME NEW w \in Vid, w # v
      PROVE  AgreeOn(w)'
  <2>1. vlans[o] # w /\ objVid[o] # w /\ w # Null
    BY <1>2, <1>3, <1>8 DEF AgreeOn, VlanAssumption
  <2> QED BY <1>2, <1>4, <1>6, <1>8, <2>1 DEF AgreeOn
<1>9. \A w \in Vid : AgreeOn(w)'
  BY <1>7, <1>8
<1>10. vlanMap' \in [Vid -> Vlan \cup {Null}]
  BY <1>2, <1>4 DEF TypeOK
<1>11. /\ th' = [th EXCEPT ![t] = Idle] /\ UNCHANGED <<vlans, members, brports, brCache, defaultVid, cache>>
       /\ vidObj' \in [Vid -> Vlan \cup {Null}] /\ objVid' \in [Vlan -> Vid \cup {Null}]
       /\ Idle.pc \notin Working /\ Idle.pc \in Working \cup {"idle"} /\ Idle.brport \in {Null, th[t].brport}
  BY <1>4, <1>5, <1>6
<1> QED BY <1>1, <1>9, <1>10, <1>11, IdleRec, TablesStep

-----------------------------------------------------------------------------
(* Members and their cache.                                                *)

\* What is known of the port and the VLAN of a call.
LEMMA CallFacts ==
    ASSUME VlanAssumption, Orderly, IInv, NEW t \in Vlanner, th[t].pc \in AddPC \cup DelPC
    PROVE  /\ t \in Thread /\ ThreadOK(t) /\ CallOK(t) /\ th[t] \in ThreadRec
           /\ th[t].vid \in Vid \ Defaultable /\ th[t].port \in Port
           /\ vlanMap[th[t].vid] # Null /\ vlanMap[th[t].vid] \in Vlan
           /\ vlans[vlanMap[th[t].vid]] = th[t].vid
           /\ th[t].pc \notin Mid => Agrees(th[t].vid, th[t].port)
<1>1. t \in Thread /\ ThreadOK(t) /\ CallOK(t) /\ th[t] \in ThreadRec
  BY Threads DEF IInv, TypesOK, CallsInv
<1>2. th[t].vid \in Vid \ Defaultable /\ th[t].port \in Port /\ vlanMap[th[t].vid] # Null
  BY <1>1 DEF ThreadOK, CallOK, Orderly, VlanAssumption
<1>3. ~ AtWork(th[t].vid)
  BY DEF AtWork, Orderly, AddPC, DelPC, Working
<1>4. vlanMap[th[t].vid] \in Vlan /\ vlans[vlanMap[th[t].vid]] = th[t].vid
  BY <1>2, <1>3, MappedVlan DEF IInv
<1>5. ASSUME th[t].pc \notin Mid
      PROVE  Agrees(th[t].vid, th[t].port)
  <2>1. Settled(th[t].vid, th[t].port)
    BY <1>5 DEF Settled, Orderly
  <2> QED BY <1>2, <2>1 DEF IInv, CacheInv
<1> QED BY <1>1, <1>2, <1>4, <1>5

\* No call is at the cache of another port or VLAN.
LEMMA Elsewhere ==
    ASSUME Orderly, CacheInv, NEW t \in Vlanner, NEW v \in Vid \ Defaultable, NEW p \in Port,
           v # th[t].vid \/ p # th[t].port
    PROVE  Agrees(v, p)
<1>1. Settled(v, p)
  BY DEF Settled, Orderly
<1> QED BY <1>1 DEF CacheInv

LEMMA AgreesKept ==
    ASSUME TypesOK, NEW v \in Vid, NEW p \in Port, Agrees(v, p),
           \A m \in Member : /\ MemberOf(v, p, m)' <=> MemberOf(v, p, m)
                             /\ MemberOf(v, p, m) => members'[m] = members[m],
           cache'[<<v, p>>] = cache[<<v, p>>]
    PROVE  Agrees(v, p)'
<1>1. /\ Found(v, p)' <=> Found(v, p)
      /\ Cached(v, p)' = Cached(v, p)
  BY DEF Found, Cached
<1>2. Found(v, p) => Cached(v, p)[1] \in Member
  <2>1. cache[<<v, p>>] \in Seq(Member \X Mode)
    BY DEF TypesOK, TypeOK
  <2> QED BY <2>1 DEF Found, Cached
<1> QED BY <1>1, <1>2 DEF Agrees

\* Everything else holds after a step of a call on a member.
LEMMA MembersStep ==
    ASSUME VlanAssumption, Orderly, IInv, NEW t \in Vlanner, NEW r \in ThreadRec,
           th' = [th EXCEPT ![t] = r],
           UNCHANGED <<vlans, brports, brCache, vlanMap, vidObj, objVid, defaultVid>>,
           members' \in [Member -> {Null} \cup (Vlan \X Brport \X Mode)],
           cache' \in [Vid \X Port -> Seq(Member \X Mode)],
           th[t].pc \in AddPC \cup DelPC, r.pc \in (AddPC \ {"add_member"}) \cup DelPC \cup {"idle"},
           r.brport \in {th[t].brport, Null},
           ThreadOK(t)', CallOK(t)', CacheInv',
           \A m \in Member : members'[m] # Null =>
               \/ /\ members[m] # Null
                  /\ members'[m][1] = members[m][1] /\ members'[m][2] = members[m][2]
               \/ /\ FreshMember(m) /\ vlans[members'[m][1]] # Null
                  /\ brports[members'[m][2]] # Null
                  /\ brCache[brports[members'[m][2]]] = members'[m][2]
    PROVE  IInv'
<1>1. OnlyMoves(t) /\ th'[t] = r /\ th' \in [Thread -> ThreadRec] /\ t \in Thread
  BY Moves, Threads DEF IInv, TypesOK
<1>2. /\ th[t].pc \notin Working \cup {"new_cache"}
      /\ r.pc \notin Working \cup DefaultPC \cup Knows \cup {"new_cache", "delete_vlan"}
  BY DEF Working, Knows, AddPC, DelPC, DefaultPC
<1>3. TypesOK'
  <2>1. \A u \in Thread : ThreadOK(u)' /\ th'[u].todo \subseteq Member
    BY <1>1, QuietThreads DEF IInv
  <2> QED BY <1>1, <2>1 DEF IInv, TypesOK, TypeOK
<1>4. TablesInv'
  BY <1>1, <1>2, QuietTables DEF IInv
<1>5. BrportInv'
  BY <1>1, <1>2, QuietBrports DEF IInv, ports
<1>6. MembersInv'
  <2>1. \A u \in Vlanner : th'[u].pc \notin Working
    BY <1>1, <1>2 DEF Orderly
  <2> QED BY <2>1 DEF IInv, MembersInv
<1>7. DefaultsInv'
  <2> SUFFICES ASSUME NEW u \in Thread, th'[u].pc \in DefaultPC \ {"default_vlan"}
               PROVE  DefaultOK(u)'
    BY DEF IInv, DefaultsInv
  <2>1. u # t /\ th'[u] = th[u]
    BY <1>1, <1>2 DEF OnlyMoves
  <2>2. DefaultOK(u) /\ th[u].todo \subseteq Member /\ (th[u].pc = "default_remove" => th[u].member \in Member)
    BY <2>1 DEF IInv, DefaultsInv, TypesOK, TypeOK, ThreadOK
  <2>3. \A m \in Member : members'[m] # Null /\ (m \in th[u].todo \/ m = th[u].member) =>
            members[m] # Null /\ members'[m][1] = members[m][1]
    BY DEF FreshMember
  <2> QED BY <2>1, <2>2, <2>3 DEF DefaultOK
<1>8. CallsInv'
  BY DEF CallsInv, Orderly
<1> QED BY <1>3, <1>4, <1>5, <1>6, <1>7, <1>8 DEF IInv

\* SAI makes member m.
LEMMA MemberMade ==
    ASSUME VlanAssumption, NullAssumption, Orderly, IInv, NEW t \in Vlanner, NEW m \in Member,
           NEW o, NEW b, o = th[t].vlan, b = th[t].brport,
           th[t].pc = "add_member", FreshMember(m), brports[b] # Null,
           members' = [members EXCEPT ![m] = <<o, b, th[t].mode>>],
           Step(t, [th[t] EXCEPT !.pc = "cache_get", !.member = m]),
           UNCHANGED <<vlans, ports, tables, cache>>
    PROVE  IInv'
<1> DEFINE r == [th[t] EXCEPT !.pc = "cache_get", !.member = m]
<1>1. PICK v, p : v = th[t].vid /\ p = th[t].port
  OBVIOUS
<1>2. /\ th' = [th EXCEPT ![t] = r]
      /\ UNCHANGED <<vlans, brports, brCache, vlanMap, vidObj, objVid, cache, defaultVid>>
  BY DEF Step, ports, tables
<1>3. /\ t \in Thread /\ ThreadOK(t) /\ CallOK(t) /\ th[t] \in ThreadRec
      /\ v \in Vid \ Defaultable /\ p \in Port /\ vlanMap[v] # Null
      /\ vlanMap[v] \in Vlan /\ vlans[vlanMap[v]] = v /\ Agrees(v, p)
  BY <1>1, CallFacts DEF AddPC, Mid
<1>4. o = vlanMap[v] /\ b \in Brport /\ th[t].mode \in Mode /\ ~ Found(v, p)
  BY <1>1, <1>3 DEF CallOK, ThreadOK, AddPC
<1>5. brports[b] = p
  BY <1>1, <1>3, <1>4 DEF IInv, BrportInv, VlanAssumption
<1>6. brCache[p] = b
  <2>1. ASSUME NEW u \in Porter, th[u].pc = "new_cache", th[u].brport = b
        PROVE  FALSE
    <3>1. u # t /\ t \in Thread \ {u}
      BY <1>3, Threads
    <3> QED BY <2>1, <3>1 DEF IInv, BrportInv
  <2> QED BY <1>4, <1>5, <2>1 DEF IInv, BrportInv
<1>7. /\ r \in ThreadRec /\ r.pc = "cache_get" /\ r.vid = v /\ r.port = p /\ r.member = m
      /\ r.mode = th[t].mode /\ r.brport = b
  BY <1>1, <1>3 DEF ThreadRec, PCs, AddPC
<1>8. th'[t] = r /\ th' = [th EXCEPT ![t] = r]
  <2> HIDE DEF r
  <2> QED BY <1>2, <1>3, Moves DEF IInv, TypesOK
<1> HIDE DEF r
<1>9. ThreadOK(t)'
  <2>1. v \in Managed
    BY <1>1, <1>3 DEF ThreadOK, AddPC
  <2> QED
    BY <1>3, <1>4, <1>7, <1>8, <2>1, Threads DEF ThreadOK, VlanPC, AddPC, DelPC, DefaultPC, BrportPC
<1>10. /\ members' \in [Member -> {Null} \cup (Vlan \X Brport \X Mode)]
       /\ members'[m] = <<o, b, th[t].mode>> /\ members'[m] # Null /\ members[m] = Null
       /\ \A n \in Member : n # m => members'[n] = members[n]
  BY <1>3, <1>4, NullAssumption DEF IInv, TypesOK, TypeOK, FreshMember
<1>11. /\ \A w, q : MemberOf(w, q, m)' <=> w = v /\ q = p
       /\ \A w, q : ~ MemberOf(w, q, m)
       /\ \A w, q : \A n \in Member : n # m => (MemberOf(w, q, n)' <=> MemberOf(w, q, n))
  <2>1. \A w, q : MemberOf(w, q, m)' <=> w = v /\ q = p
    BY <1>2, <1>3, <1>4, <1>5, <1>10 DEF MemberOf
  <2>2. \A w, q : ~ MemberOf(w, q, m)
    BY <1>10 DEF MemberOf
  <2>3. \A w, q : \A n \in Member : n # m => (MemberOf(w, q, n)' <=> MemberOf(w, q, n))
    BY <1>2, <1>10 DEF MemberOf
  <2> QED BY <2>1, <2>2, <2>3
<1>12. CallOK(t)'
  <2>1. /\ MemberOf(v, p, m)' /\ members'[m][3] = th[t].mode
        /\ \A n \in Member : MemberOf(v, p, n)' => n = m
    BY <1>3, <1>4, <1>10, <1>11 DEF Agrees
  <2>2. ~ Found(v, p)' /\ vlanMap'[v] # Null
    BY <1>2, <1>3, <1>4 DEF Found
  <2>3. /\ th'[t].pc = "cache_get" /\ th'[t].vid = v /\ th'[t].port = p /\ th'[t].member = m
        /\ th'[t].mode = th[t].mode
    BY <1>7, <1>8
  <2> QED BY <2>1, <2>2, <2>3 DEF CallOK, AddPC, DelPC, Found, MemberOf
<1>13. CacheInv'
  <2> SUFFICES ASSUME NEW w \in Vid \ Defaultable, NEW q \in Port
               PROVE  /\ Len(cache'[<<w, q>>]) \in {0, 1}
                      /\ Settled(w, q)' => Agrees(w, q)'
    BY DEF CacheInv
  <2>1. Len(cache'[<<w, q>>]) \in {0, 1}
    BY <1>2 DEF IInv, CacheInv
  <2>2. CASE w = v /\ q = p
    <3>1. ~ Settled(w, q)'
      BY <1>7, <1>8, <2>2 DEF Settled, Mid
    <3> QED BY <2>1, <3>1
  <2>3. CASE ~ (w = v /\ q = p)
    <3>1. Agrees(w, q)
      BY <1>1, <2>3, Elsewhere DEF IInv
    <3>2. \A n \in Member : /\ MemberOf(w, q, n)' <=> MemberOf(w, q, n)
                            /\ MemberOf(w, q, n) => members'[n] = members[n]
      BY <1>10, <1>11, <2>3
    <3>3. cache'[<<w, q>>] = cache[<<w, q>>]
      BY <1>2
    <3> QED BY <2>1, <3>1, <3>2, <3>3, AgreesKept DEF IInv
  <2> QED BY <2>2, <2>3
<1>14. ASSUME NEW n \in Member, members'[n] # Null
       PROVE  \/ /\ members[n] # Null
                 /\ members'[n][1] = members[n][1] /\ members'[n][2] = members[n][2]
              \/ /\ FreshMember(n) /\ vlans[members'[n][1]] # Null
                 /\ brports[members'[n][2]] # Null
                 /\ brCache[brports[members'[n][2]]] = members'[n][2]
  <2>1. CASE n = m
    <3>1. members'[n][1] = o /\ members'[n][2] = b
      BY <1>10, <2>1
    <3>2. vlans[o] # Null
      BY <1>3, <1>4 DEF VlanAssumption
    <3> QED BY <1>5, <1>6, <2>1, <3>1, <3>2
  <2>2. CASE n # m
    BY <1>10, <1>14, <2>2
  <2> QED BY <2>1, <2>2
<1>15. cache' \in [Vid \X Port -> Seq(Member \X Mode)]
  BY <1>2 DEF IInv, TypesOK, TypeOK
<1>16. th[t].pc \in AddPC \cup DelPC /\ r.pc \in (AddPC \ {"add_member"}) \cup DelPC \cup {"idle"}
       /\ r.brport \in {th[t].brport, Null}
  BY <1>7 DEF AddPC
<1> QED BY <1>2, <1>7, <1>8, <1>9, <1>10, <1>12, <1>13, <1>14, <1>15, <1>16, MembersStep

LEMMA AddMemberStep ==
    ASSUME VlanAssumption, NullAssumption, Orderly, IInv, NEW t \in Vlanner, AddMember(t)
    PROVE  IInv'
<1>1. CASE Return(t) /\ UNCHANGED members
  <2>1. /\ t \in Thread /\ th[t].pc = "add_member"
        /\ UNCHANGED <<vlans, members, brports, brCache, vlanMap, vidObj, objVid, cache, defaultVid>>
    BY <1>1, Threads DEF AddMember, ports, tables
  <2>2. th[t].pc \notin Working \cup Mid
    BY <2>1 DEF Working, Mid
  <2> QED BY <1>1, <2>1, <2>2, ReturnStep
<1>2. CASE ~ (Return(t) /\ UNCHANGED members)
  <2>1. PICK m \in Member :
             /\ FreshMember(m) /\ brports[th[t].brport] # Null
             /\ members' = [members EXCEPT ![m] = <<th[t].vlan, th[t].brport, th[t].mode>>]
             /\ Step(t, [th[t] EXCEPT !.pc = "cache_get", !.member = m])
    BY <1>2 DEF AddMember
  <2> QED BY <2>1, MemberMade DEF AddMember
<1> QED BY <1>1, <1>2

\* The cache of the other members is left alone.
LEMMA CacheKept ==
    ASSUME Orderly, IInv, NEW t \in Vlanner, NEW v, NEW p, v = th[t].vid, p = th[t].port,
           \A w \in Vid \ Defaultable, q \in Port : w # v \/ q # p =>
               /\ cache'[<<w, q>>] = cache[<<w, q>>]
               /\ \A n \in Member : /\ MemberOf(w, q, n)' <=> MemberOf(w, q, n)
                                    /\ MemberOf(w, q, n) => members'[n] = members[n],
           Len(cache'[<<v, p>>]) \in {0, 1}, Settled(v, p)' => Agrees(v, p)'
    PROVE  CacheInv'
<1> SUFFICES ASSUME NEW w \in Vid \ Defaultable, NEW q \in Port, w # v \/ q # p
             PROVE  Len(cache'[<<w, q>>]) \in {0, 1} /\ Agrees(w, q)'
  BY DEF CacheInv
<1>1. Agrees(w, q)
  BY Elsewhere DEF IInv
<1>2. Len(cache[<<w, q>>]) \in {0, 1}
  BY DEF IInv, CacheInv
<1> QED BY <1>1, <1>2, AgreesKept DEF IInv

\* The record of a call that goes on with its next step.
LEMMA CallGoes ==
    ASSUME VlanAssumption, Orderly, IInv, NEW t \in Vlanner, NEW pc, Goto(t, pc),
           pc \in {"cache_get", "cache_insert", "added", "del_cache"}, th[t].pc \in AddPC \cup DelPC,
           pc = "del_cache" <=> th[t].pc \in DelPC,
           pc # "added" => th[t].member \in Member, th[t].pc # "add_member"
    PROVE  \E r \in ThreadRec :
              /\ th' = [th EXCEPT ![t] = r] /\ th'[t] = r
              /\ r.pc = pc /\ r.vid = th[t].vid /\ r.port = th[t].port /\ r.member = th[t].member
              /\ r.mode = th[t].mode /\ r.brport = th[t].brport
              /\ ThreadOK(t)'
<1> DEFINE r == [th[t] EXCEPT !.pc = pc]
<1>1. pc \in PCs /\ th[t] \in ThreadRec /\ t \in Thread /\ ThreadOK(t)
  BY CallFacts DEF PCs, AddPC, DelPC
<1>2. /\ r \in ThreadRec /\ r.pc = pc /\ r.vid = th[t].vid /\ r.port = th[t].port
      /\ r.member = th[t].member /\ r.mode = th[t].mode /\ r.brport = th[t].brport
  BY <1>1, GotoFields
<1>3. th' = [th EXCEPT ![t] = r]
  BY <1>1 DEF Goto, IInv, TypesOK
<1> HIDE DEF r
<1>4. th'[t] = r
  BY <1>1, <1>3, Moves DEF IInv, TypesOK
<1>5. th[t].vid \in Managed /\ th[t].port \in Port /\ (pc # "del_cache" => th[t].mode \in Mode)
  BY <1>1 DEF ThreadOK
<1>6. ThreadOK(t)'
  BY <1>1, <1>2, <1>4, <1>5, Threads DEF ThreadOK, VlanPC, AddPC, DelPC, DefaultPC, BrportPC
<1> QED BY <1>2, <1>3, <1>4, <1>6

LEMMA SetModeStep ==
    ASSUME VlanAssumption, NullAssumption, Orderly, IInv, NEW t \in Vlanner, SetMode(t)
    PROVE  IInv'
<1>1. CASE Return(t) /\ UNCHANGED members
  <2>1. /\ t \in Thread /\ th[t].pc = "set_mode"
        /\ UNCHANGED <<vlans, members, brports, brCache, vlanMap, vidObj, objVid, cache, defaultVid>>
    BY <1>1, Threads DEF SetMode, ports, tables
  <2>2. th[t].pc \notin Working \cup Mid
    BY <2>1 DEF Working, Mid
  <2> QED BY <1>1, <2>1, <2>2, ReturnStep
<1>2. CASE ~ (Return(t) /\ UNCHANGED members)
  <2>1. PICK v, p, m : v = th[t].vid /\ p = th[t].port /\ m = th[t].member
    OBVIOUS
  <2>2. /\ th[t].pc = "set_mode" /\ members[m] # Null
        /\ members' = [members EXCEPT ![m] = <<@[1], @[2], th[t].mode>>]
        /\ Goto(t, "cache_get")
        /\ UNCHANGED <<vlans, brports, brCache, vlanMap, vidObj, objVid, cache, defaultVid>>
    BY <1>2, <2>1 DEF SetMode, ports, tables
  <2>3. /\ t \in Thread /\ ThreadOK(t) /\ CallOK(t) /\ th[t] \in ThreadRec
        /\ v \in Vid \ Defaultable /\ p \in Port /\ vlanMap[v] # Null /\ Agrees(v, p)
    BY <2>1, <2>2, CallFacts DEF AddPC, Mid
  <2>4. m \in Member /\ th[t].mode \in Mode /\ Found(v, p) /\ Cached(v, p)[1] = m
    BY <2>1, <2>2, <2>3 DEF CallOK, ThreadOK, AddPC
  <2>5. PICK r \in ThreadRec :
              /\ th' = [th EXCEPT ![t] = r] /\ th'[t] = r
              /\ r.pc = "cache_get" /\ r.vid = v /\ r.port = p /\ r.member = m
              /\ r.mode = th[t].mode /\ r.brport = th[t].brport
              /\ ThreadOK(t)'
    BY <2>1, <2>2, <2>4, CallGoes DEF AddPC, DelPC
  <2>6. members[m] \in Vlan \X Brport \X Mode
    BY <2>2, <2>4 DEF IInv, TypesOK, TypeOK
  <2>7. /\ members' \in [Member -> {Null} \cup (Vlan \X Brport \X Mode)]
        /\ members'[m] # Null /\ members'[m][1] = members[m][1] /\ members'[m][2] = members[m][2]
        /\ members'[m][3] = th[t].mode
        /\ \A n \in Member : n # m => members'[n] = members[n]
    BY <2>2, <2>4, <2>6, NullAssumption DEF IInv, TypesOK, TypeOK
  <2>8. \A w, q : \A n \in Member : MemberOf(w, q, n)' <=> MemberOf(w, q, n)
    BY <2>2, <2>7 DEF MemberOf
  <2>9. MemberOf(v, p, m) /\ \A n \in Member : MemberOf(v, p, n) => n = m
    BY <2>3, <2>4 DEF Agrees
  <2>10. CallOK(t)'
    <3>1. MemberOf(v, p, m)' /\ \A n \in Member : MemberOf(v, p, n)' => n = m
      BY <2>4, <2>8, <2>9
    <3>2. Found(v, p)' /\ Cached(v, p)'[1] = m /\ vlanMap'[v] # Null
      BY <2>2, <2>3, <2>4 DEF Found, Cached
    <3> QED BY <2>5, <2>7, <3>1, <3>2 DEF CallOK, AddPC, DelPC, Found, Cached, MemberOf
  <2>11. CacheInv'
    <3>1. ~ Settled(v, p)'
      BY <2>5 DEF Settled, Mid
    <3>2. Len(cache'[<<v, p>>]) \in {0, 1}
      BY <2>2, <2>3 DEF IInv, CacheInv
    <3>3. ASSUME NEW w \in Vid \ Defaultable, NEW q \in Port, w # v \/ q # p
          PROVE  /\ cache'[<<w, q>>] = cache[<<w, q>>]
                 /\ \A n \in Member : /\ MemberOf(w, q, n)' <=> MemberOf(w, q, n)
                                      /\ MemberOf(w, q, n) => members'[n] = members[n]
      <4>1. ~ MemberOf(w, q, m)
        BY <2>9, <3>3 DEF MemberOf
      <4> QED BY <2>2, <2>7, <2>8, <4>1
    <3> QED BY <2>1, <3>1, <3>2, <3>3, CacheKept
  <2>12. cache' \in [Vid \X Port -> Seq(Member \X Mode)]
    BY <2>2 DEF IInv, TypesOK, TypeOK
  <2>13. \A n \in Member : members'[n] # Null =>
             members[n] # Null /\ members'[n][1] = members[n][1] /\ members'[n][2] = members[n][2]
    BY <2>2, <2>7
  <2>14. th[t].pc \in AddPC \cup DelPC /\ r.pc \in (AddPC \ {"add_member"}) \cup DelPC \cup {"idle"}
         /\ r.brport \in {th[t].brport, Null}
    BY <2>2, <2>5 DEF AddPC
  <2> QED BY <2>2, <2>5, <2>7, <2>10, <2>11, <2>12, <2>13, <2>14, MembersStep
<1> QED BY <1>1, <1>2

LEMMA CacheDeleteStep ==
    ASSUME VlanAssumption, Orderly, IInv, NEW t \in Vlanner, CacheDelete(t)
    PROVE  IInv'
<1>1. PICK v, p, m : v = th[t].vid /\ p = th[t].port /\ m = th[t].member
  OBVIOUS
<1>2. /\ th[t].pc = "cache_delete" /\ Goto(t, "cache_insert")
      /\ cache' = [cache EXCEPT ![<<v, p>>] = <<>>]
      /\ UNCHANGED <<vlans, members, brports, brCache, vlanMap, vidObj, objVid, defaultVid>>
  BY <1>1 DEF CacheDelete, ports, tables
<1>3. /\ t \in Thread /\ ThreadOK(t) /\ CallOK(t) /\ th[t] \in ThreadRec
      /\ v \in Vid \ Defaultable /\ p \in Port /\ vlanMap[v] # Null
  BY <1>1, <1>2, CallFacts DEF AddPC
<1>4. /\ m \in Member /\ MemberOf(v, p, m) /\ members[m][3] = th[t].mode
      /\ \A n \in Member : MemberOf(v, p, n) => n = m
  BY <1>1, <1>2, <1>3 DEF CallOK, ThreadOK, AddPC
<1>5. PICK r \in ThreadRec :
            /\ th' = [th EXCEPT ![t] = r] /\ th'[t] = r
            /\ r.pc = "cache_insert" /\ r.vid = v /\ r.port = p /\ r.member = m
            /\ r.mode = th[t].mode /\ r.brport = th[t].brport
            /\ ThreadOK(t)'
  BY <1>1, <1>2, <1>4, CallGoes DEF AddPC, DelPC
<1>6. cache \in [Vid \X Port -> Seq(Member \X Mode)] /\ <<v, p>> \in Vid \X Port
  BY <1>3 DEF IInv, TypesOK, TypeOK
<1>7. /\ cache' \in [Vid \X Port -> Seq(Member \X Mode)]
      /\ cache'[<<v, p>>] = <<>>
      /\ \A w \in Vid, q \in Port : w # v \/ q # p => cache'[<<w, q>>] = cache[<<w, q>>]
  BY <1>2, <1>6
<1>8. \A w, q : \A n \in Member : MemberOf(w, q, n)' <=> MemberOf(w, q, n)
  BY <1>2 DEF MemberOf
<1>9. CallOK(t)'
  <2>1. ~ Found(v, p)'
    BY <1>7 DEF Found
  <2>2. /\ MemberOf(v, p, m)' /\ members'[m][3] = th[t].mode /\ vlanMap'[v] # Null
        /\ \A n \in Member : MemberOf(v, p, n)' => n = m
    BY <1>2, <1>3, <1>4, <1>8
  <2> QED BY <1>5, <2>1, <2>2 DEF CallOK, AddPC, DelPC, Found, MemberOf
<1>10. CacheInv'
  <2>1. ~ Settled(v, p)'
    BY <1>5 DEF Settled, Mid
  <2>2. Len(cache'[<<v, p>>]) \in {0, 1}
    BY <1>7
  <2>3. \A w \in Vid \ Defaultable, q \in Port : w # v \/ q # p =>
            /\ cache'[<<w, q>>] = cache[<<w, q>>]
            /\ \A n \in Member : /\ MemberOf(w, q, n)' <=> MemberOf(w, q, n)
                                 /\ MemberOf(w, q, n) => members'[n] = members[n]
    BY <1>2, <1>7, <1>8
  <2> QED BY <1>1, <2>1, <2>2, <2>3, CacheKept
<1>11. \A n \in Member : members'[n] # Null =>
           members[n] # Null /\ members'[n][1] = members[n][1] /\ members'[n][2] = members[n][2]
  BY <1>2
<1>12. th[t].pc \in AddPC \cup DelPC /\ r.pc \in (AddPC \ {"add_member"}) \cup DelPC \cup {"idle"}
       /\ r.brport \in {th[t].brport, Null}
  BY <1>2, <1>5 DEF AddPC
<1>13. members' \in [Member -> {Null} \cup (Vlan \X Brport \X Mode)]
  BY <1>2 DEF IInv, TypesOK, TypeOK
<1> QED BY <1>2, <1>5, <1>7, <1>9, <1>10, <1>11, <1>12, <1>13, MembersStep

LEMMA CacheInsertStep ==
    ASSUME VlanAssumption, Orderly, IInv, NEW t \in Vlanner, CacheInsert(t)
    PROVE  IInv'
<1>1. PICK v, p, m : v = th[t].vid /\ p = th[t].port /\ m = th[t].member
  OBVIOUS
<1>2. /\ th[t].pc = "cache_insert" /\ Goto(t, "added")
      /\ cache' = [cache EXCEPT ![<<v, p>>] = Append(@, <<m, th[t].mode>>)]
      /\ UNCHANGED <<vlans, members, brports, brCache, vlanMap, vidObj, objVid, defaultVid>>
  BY <1>1 DEF CacheInsert, ports, tables
<1>3. /\ t \in Thread /\ ThreadOK(t) /\ CallOK(t) /\ th[t] \in ThreadRec
      /\ v \in Vid \ Defaultable /\ p \in Port /\ vlanMap[v] # Null
  BY <1>1, <1>2, CallFacts DEF AddPC
<1>4. /\ m \in Member /\ th[t].mode \in Mode
      /\ MemberOf(v, p, m) /\ members[m][3] = th[t].mode /\ ~ Found(v, p)
      /\ \A n \in Member : MemberOf(v, p, n) => n = m
  BY <1>1, <1>2, <1>3 DEF CallOK, ThreadOK, AddPC
<1>5. PICK r \in ThreadRec :
            /\ th' = [th EXCEPT ![t] = r] /\ th'[t] = r
            /\ r.pc = "added" /\ r.vid = v /\ r.port = p /\ r.member = m
            /\ r.mode = th[t].mode /\ r.brport = th[t].brport
            /\ ThreadOK(t)'
  BY <1>1, <1>2, <1>4, CallGoes DEF AddPC, DelPC
<1>6. cache \in [Vid \X Port -> Seq(Member \X Mode)] /\ <<v, p>> \in Vid \X Port
  BY <1>3 DEF IInv, TypesOK, TypeOK
<1>7. cache[<<v, p>>] = <<>>
  <2>1. cache[<<v, p>>] \in Seq(Member \X Mode) /\ Len(cache[<<v, p>>]) = 0
    BY <1>3, <1>4, <1>6 DEF IInv, CacheInv, Found
  <2> QED BY <2>1
<1>8. /\ cache' \in [Vid \X Port -> Seq(Member \X Mode)]
      /\ cache'[<<v, p>>] = <<<<m, th[t].mode>>>>
      /\ \A w \in Vid, q \in Port : w # v \/ q # p => cache'[<<w, q>>] = cache[<<w, q>>]
  <2>1. Append(cache[<<v, p>>], <<m, th[t].mode>>) = <<<<m, th[t].mode>>>>
    BY <1>7
  <2>2. <<<<m, th[t].mode>>>> \in Seq(Member \X Mode)
    BY <1>4
  <2> QED BY <1>2, <1>6, <2>1, <2>2
<1>9. \A w, q : \A n \in Member : MemberOf(w, q, n)' <=> MemberOf(w, q, n)
  BY <1>2 DEF MemberOf
<1>10. Found(v, p)' /\ Cached(v, p)'[1] = m /\ Cached(v, p)'[2] = th[t].mode
  BY <1>8 DEF Found, Cached
<1>11. Agrees(v, p)'
  BY <1>2, <1>4, <1>9, <1>10 DEF Agrees
<1>12. CallOK(t)'
  <2>1. vlanMap'[v] # Null
    BY <1>2, <1>3
  <2> QED BY <1>5, <1>10, <2>1 DEF CallOK, AddPC, DelPC, Found, Cached
<1>13. CacheInv'
  <2>1. Len(cache'[<<v, p>>]) \in {0, 1}
    BY <1>8
  <2>2. \A w \in Vid \ Defaultable, q \in Port : w # v \/ q # p =>
            /\ cache'[<<w, q>>] = cache[<<w, q>>]
            /\ \A n \in Member : /\ MemberOf(w, q, n)' <=> MemberOf(w, q, n)
                                 /\ MemberOf(w, q, n) => members'[n] = members[n]
    BY <1>2, <1>8, <1>9
  <2> QED BY <1>1, <1>11, <2>1, <2>2, CacheKept
<1>14. \A n \in Member : members'[n] # Null =>
           members[n] # Null /\ members'[n][1] = members[n][1] /\ members'[n][2] = members[n][2]
  BY <1>2
<1>15. th[t].pc \in AddPC \cup DelPC /\ r.pc \in (AddPC \ {"add_member"}) \cup DelPC \cup {"idle"}
       /\ r.brport \in {th[t].brport, Null}
  BY <1>2, <1>5 DEF AddPC
<1>16. members' \in [Member -> {Null} \cup (Vlan \X Brport \X Mode)]
  BY <1>2 DEF IInv, TypesOK, TypeOK
<1> QED BY <1>2, <1>5, <1>8, <1>12, <1>13, <1>14, <1>15, <1>16, MembersStep

LEMMA DelMemberStep ==
    ASSUME VlanAssumption, Orderly, IInv, NEW t \in Vlanner, DelMember(t)
    PROVE  IInv'
<1>1. CASE Return(t) /\ UNCHANGED members
  <2>1. /\ t \in Thread /\ th[t].pc = "del_member"
        /\ UNCHANGED <<vlans, members, brports, brCache, vlanMap, vidObj, objVid, cache, defaultVid>>
    BY <1>1, Threads DEF DelMember, ports, tables
  <2>2. th[t].pc \notin Working \cup Mid
    BY <2>1 DEF Working, Mid
  <2> QED BY <1>1, <2>1, <2>2, ReturnStep
<1>2. CASE ~ (Return(t) /\ UNCHANGED members)
  <2>1. PICK v, p, m : v = th[t].vid /\ p = th[t].port /\ m = th[t].member
    OBVIOUS
  <2>2. /\ th[t].pc = "del_member" /\ Goto(t, "del_cache")
        /\ members' = [members EXCEPT ![m] = Null]
        /\ UNCHANGED <<vlans, brports, brCache, vlanMap, vidObj, objVid, cache, defaultVid>>
    BY <1>2, <2>1 DEF DelMember, ports, tables
  <2>3. /\ t \in Thread /\ ThreadOK(t) /\ CallOK(t) /\ th[t] \in ThreadRec
        /\ v \in Vid \ Defaultable /\ p \in Port /\ vlanMap[v] # Null /\ Agrees(v, p)
    BY <2>1, <2>2, CallFacts DEF DelPC, Mid
  <2>4. m \in Member /\ Found(v, p) /\ Cached(v, p)[1] = m
    BY <2>1, <2>2, <2>3 DEF CallOK, ThreadOK, DelPC
  <2>5. PICK r \in ThreadRec :
              /\ th' = [th EXCEPT ![t] = r] /\ th'[t] = r
              /\ r.pc = "del_cache" /\ r.vid = v /\ r.port = p /\ r.member = m
              /\ r.mode = th[t].mode /\ r.brport = th[t].brport
              /\ ThreadOK(t)'
    BY <2>1, <2>2, <2>4, CallGoes DEF AddPC, DelPC
  <2>6. /\ members' \in [Member -> {Null} \cup (Vlan \X Brport \X Mode)]
        /\ members'[m] = Null
        /\ \A n \in Member : n # m => members'[n] = members[n]
    BY <2>2, <2>4 DEF IInv, TypesOK, TypeOK
  <2>7. MemberOf(v, p, m) /\ \A n \in Member : MemberOf(v, p, n) => n = m
    BY <2>3, <2>4 DEF Agrees
  <2>8. \A n \in Member : ~ MemberOf(v, p, n)'
    BY <2>2, <2>6, <2>7 DEF MemberOf
  <2>9. CallOK(t)'
    <3>1. Found(v, p)' /\ Cached(v, p)'[1] = m /\ vlanMap'[v] # Null
      BY <2>2, <2>3, <2>4 DEF Found, Cached
    <3> QED BY <2>5, <2>8, <3>1 DEF CallOK, AddPC, DelPC, Found, Cached, MemberOf
  <2>10. CacheInv'
    <3>1. ~ Settled(v, p)'
      BY <2>5 DEF Settled, Mid
    <3>2. Len(cache'[<<v, p>>]) \in {0, 1}
      BY <2>2, <2>3 DEF IInv, CacheInv
    <3>3. ASSUME NEW w \in Vid \ Defaultable, NEW q \in Port, w # v \/ q # p
          PROVE  /\ cache'[<<w, q>>] = cache[<<w, q>>]
                 /\ \A n \in Member : /\ MemberOf(w, q, n)' <=> MemberOf(w, q, n)
                                      /\ MemberOf(w, q, n) => members'[n] = members[n]
      <4>1. ~ MemberOf(w, q, m)
        BY <2>7, <3>3 DEF MemberOf
      <4> QED BY <2>2, <2>6, <4>1 DEF MemberOf
    <3> QED BY <2>1, <3>1, <3>2, <3>3, CacheKept
  <2>11. cache' \in [Vid \X Port -> Seq(Member \X Mode)]
    BY <2>2 DEF IInv, TypesOK, TypeOK
  <2>12. \A n \in Member : members'[n] # Null =>
             members[n] # Null /\ members'[n][1] = members[n][1] /\ members'[n][2] = members[n][2]
    BY <2>6
  <2>13. th[t].pc \in AddPC \cup DelPC /\ r.pc \in (AddPC \ {"add_member"}) \cup DelPC \cup {"idle"}
         /\ r.brport \in {th[t].brport, Null}
    BY <2>2, <2>5 DEF DelPC
  <2> QED BY <2>2, <2>5, <2>6, <2>9, <2>10, <2>11, <2>12, <2>13, MembersStep
<1> QED BY <1>1, <1>2

LEMMA DelCacheStep ==
    ASSUME VlanAssumption, Orderly, IInv, NEW t \in Vlanner, DelCache(t)
    PROVE  IInv'
<1>1. PICK v, p : v = th[t].vid /\ p = th[t].port
  OBVIOUS
<1>2. /\ th[t].pc = "del_cache" /\ th' = [th EXCEPT ![t] = Idle]
      /\ cache' = [cache EXCEPT ![<<v, p>>] = <<>>]
      /\ UNCHANGED <<vlans, members, brports, brCache, vlanMap, vidObj, objVid, defaultVid>>
  BY <1>1 DEF DelCache, Return, ports, tables
<1>3. /\ t \in Thread /\ CallOK(t) /\ v \in Vid \ Defaultable /\ p \in Port
  BY <1>1, <1>2, CallFacts DEF DelPC
<1>4. \A n \in Member : ~ MemberOf(v, p, n)
  BY <1>1, <1>2, <1>3 DEF CallOK
<1>5. th'[t] = Idle /\ Idle \in ThreadRec /\ Idle.pc = "idle" /\ Idle.brport = Null
  BY <1>2, <1>3, IdleRec, Moves DEF IInv, TypesOK, Idle
<1>6. ThreadOK(t)' /\ CallOK(t)'
  BY <1>5 DEF ThreadOK, CallOK, VlanPC, AddPC, DelPC, DefaultPC, BrportPC
<1>7. cache \in [Vid \X Port -> Seq(Member \X Mode)] /\ <<v, p>> \in Vid \X Port
  BY <1>3 DEF IInv, TypesOK, TypeOK
<1>8. /\ cache' \in [Vid \X Port -> Seq(Member \X Mode)]
      /\ cache'[<<v, p>>] = <<>>
      /\ \A w \in Vid, q \in Port : w # v \/ q # p => cache'[<<w, q>>] = cache[<<w, q>>]
  BY <1>2, <1>7
<1>9. \A w, q : \A n \in Member : MemberOf(w, q, n)' <=> MemberOf(w, q, n)
  BY <1>2 DEF MemberOf
<1>10. CacheInv'
  <2>1. ~ Found(v, p)'
    BY <1>8 DEF Found
  <2>2. Agrees(v, p)'
    BY <1>4, <1>9, <2>1 DEF Agrees
  <2>3. Len(cache'[<<v, p>>]) \in {0, 1}
    BY <1>8
  <2>4. \A w \in Vid \ Defaultable, q \in Port : w # v \/ q # p =>
            /\ cache'[<<w, q>>] = cache[<<w, q>>]
            /\ \A n \in Member : /\ MemberOf(w, q, n)' <=> MemberOf(w, q, n)
                                 /\ MemberOf(w, q, n) => members'[n] = members[n]
    BY <1>2, <1>8, <1>9
  <2> QED BY <1>1, <2>2, <2>3, <2>4, CacheKept
<1>11. \A n \in Member : members'[n] # Null =>
           members[n] # Null /\ members'[n][1] = members[n][1] /\ members'[n][2] = members[n][2]
  BY <1>2
<1>12. th[t].pc \in AddPC \cup DelPC /\ Idle.pc \in (AddPC \ {"add_member"}) \cup DelPC \cup {"idle"}
       /\ Idle.brport \in {th[t].brport, Null}
  BY <1>2, <1>5 DEF DelPC
<1>13. members' \in [Member -> {Null} \cup (Vlan \X Brport \X Mode)]
  BY <1>2 DEF IInv, TypesOK, TypeOK
<1> QED BY <1>2, <1>5, <1>6, <1>8, <1>10, <1>11, <1>12, <1>13, MembersStep

-----------------------------------------------------------------------------
(* The default VLAN.                                                       *)

\* What holds of any step of a removal from the default VLAN.
LEMMA DefaultFacts ==
    ASSUME VlanAssumption, IInv, NEW t \in Thread, th[t].pc \in DefaultPC
    PROVE  /\ ThreadOK(t) /\ th[t] \in ThreadRec
           /\ th[t].pc \notin Working \cup Mid \cup {"new_cache"}
           /\ th[t].pc # "default_vlan" => DefaultOK(t)
<1>1. ThreadOK(t) /\ th[t] \in ThreadRec
  BY DEF IInv, TypesOK
<1>2. th[t].pc \notin Working \cup Mid \cup {"new_cache"}
  BY DEF DefaultPC, Working, Mid
<1> QED BY <1>1, <1>2 DEF IInv, DefaultsInv

\* It goes on to the removal of the bridge port, if there is one.
LEMMA AfterFields ==
    ASSUME VlanAssumption, IInv, NEW t \in Thread, th[t].pc \in DefaultPC
    PROVE  /\ AfterDefault(t) \in ThreadRec
           /\ AfterDefault(t).pc \in {"idle", "remove_brport"}
           /\ AfterDefault(t).pc = "idle" => AfterDefault(t) = Idle
           /\ AfterDefault(t).pc = "remove_brport" =>
                 t \in Porter /\ AfterDefault(t).port \in Port /\ AfterDefault(t).brport \in Brport
           /\ AfterDefault(t).brport = th[t].brport
           /\ AfterDefault(t).pc = "remove_brport" => AfterDefault(t).port = th[t].port
           /\ AfterDefault(t).vlan = Null
<1>1. ThreadOK(t) /\ th[t] \in ThreadRec
  BY DefaultFacts
<1>2. CASE th[t].brport = Null
  BY <1>2, IdleRec DEF AfterDefault, Idle
<1>3. CASE th[t].brport # Null
  <2>1. t \in Porter /\ th[t].port \in Port /\ th[t].brport \in Brport
    BY <1>1, <1>3 DEF ThreadOK, ThreadRec
  <2>2. AfterDefault(t) = [Idle EXCEPT !.pc = "remove_brport", !.port = th[t].port,
                                       !.brport = th[t].brport]
    BY <1>3 DEF AfterDefault
  <2>3. /\ AfterDefault(t) \in ThreadRec /\ AfterDefault(t).pc = "remove_brport"
        /\ AfterDefault(t).port = th[t].port /\ AfterDefault(t).brport = th[t].brport
        /\ AfterDefault(t).vlan = Null
    <3>1. PICK p, b : p = th[t].port /\ b = th[t].brport
      OBVIOUS
    <3>2. AfterDefault(t) = [Idle EXCEPT !.pc = "remove_brport", !.port = p, !.brport = b]
      BY <2>2, <3>1
    <3>3. p \in Port /\ b \in Brport
      BY <2>1, <3>1
    <3>4. PICK i \in ThreadRec : i = Idle /\ i.vlan = Null
      BY IdleRec DEF Idle
    <3>5. "remove_brport" \in PCs
      BY DEF PCs, BrportPC
    <3>6. /\ [i EXCEPT !.pc = "remove_brport", !.port = p, !.brport = b] \in ThreadRec
          /\ [i EXCEPT !.pc = "remove_brport", !.port = p, !.brport = b].pc = "remove_brport"
          /\ [i EXCEPT !.pc = "remove_brport", !.port = p, !.brport = b].port = p
          /\ [i EXCEPT !.pc = "remove_brport", !.port = p, !.brport = b].brport = b
          /\ [i EXCEPT !.pc = "remove_brport", !.port = p, !.brport = b].vlan = Null
      BY <3>3, <3>4, <3>5 DEF ThreadRec
    <3> QED BY <3>1, <3>2, <3>4, <3>6
  <2> QED BY <2>1, <2>3
<1> QED BY <1>2, <1>3

LEMMA AfterOK ==
    ASSUME VlanAssumption, IInv, NEW t \in Thread, th[t].pc \in DefaultPC,
           th' = [th EXCEPT ![t] = AfterDefault(t)]
    PROVE  th'[t] = AfterDefault(t) /\ ThreadOK(t)' /\ CallOK(t)'
<1>1. th'[t] = AfterDefault(t)
  BY DEF IInv, TypesOK
<1>2. PICK r : r = AfterDefault(t)
  OBVIOUS
<1>3. /\ th'[t] = r /\ r.pc \in {"idle", "remove_brport"} /\ (r.pc = "idle" => r = Idle)
      /\ r.pc = "remove_brport" => t \in Porter /\ r.port \in Port /\ r.brport \in Brport
  BY <1>1, <1>2, AfterFields
<1>4. ThreadOK(t)'
  BY <1>3, Threads DEF ThreadOK, VlanPC, AddPC, DelPC, DefaultPC, BrportPC
<1>5. CallOK(t)'
  BY <1>3 DEF CallOK, AddPC, DelPC
<1> QED BY <1>1, <1>4, <1>5

LEMMA AfterStep ==
    ASSUME VlanAssumption, Orderly, IInv, NEW t \in Thread, th[t].pc \in DefaultPC,
           th' = [th EXCEPT ![t] = AfterDefault(t)],
           UNCHANGED <<vlans, members, brports, brCache, vlanMap, vidObj, objVid, cache, defaultVid>>
    PROVE  IInv'
<1>1. PICK r : r = AfterDefault(t)
  OBVIOUS
<1>2. /\ r \in ThreadRec /\ r.pc \in {"idle", "remove_brport"} /\ r.brport = th[t].brport
      /\ r.pc = "remove_brport" => r.port = th[t].port
  BY <1>1, AfterFields
<1>3. th' = [th EXCEPT ![t] = r] /\ ThreadOK(t)' /\ CallOK(t)'
  BY <1>1, AfterOK
<1>4. /\ th[t].pc \notin Working \cup Mid \cup {"new_cache"}
      /\ r.pc \notin Working \cup DefaultPC \cup {"new_cache", "delete_vlan"}
  BY <1>2, DefaultFacts DEF Working, DefaultPC
<1>5. r.pc \in Knows => th[t].pc \in Knows /\ r.port = th[t].port
  BY <1>2 DEF Knows, DefaultPC
<1> QED BY <1>2, <1>3, <1>4, <1>5, QuietStep

LEMMA DefaultVlanStep ==
    ASSUME VlanAssumption, Orderly, IInv, NEW t \in Thread, DefaultVlan(t)
    PROVE  IInv'
<1>1. PICK o : o = vlanMap[defaultVid]
  OBVIOUS
<1>2. /\ th[t].pc = "default_vlan" /\ th[t].pc \in DefaultPC
      /\ UNCHANGED <<vlans, members, brports, brCache, vlanMap, vidObj, objVid, cache, defaultVid>>
  BY DEF DefaultVlan, ports, tables, DefaultPC
<1>3. /\ ThreadOK(t) /\ th[t] \in ThreadRec /\ th[t].pc \notin Working \cup Mid \cup {"new_cache"}
  BY <1>2, DefaultFacts
<1>4. CASE o = Null
  <2>1. Return(t)
    BY <1>1, <1>4 DEF DefaultVlan
  <2> QED BY <1>2, <1>3, <2>1, ReturnStep
<1>5. CASE o # Null
  <2> DEFINE r == [th[t] EXCEPT !.pc = "default_count", !.vlan = o]
  <2>1. th' = [th EXCEPT ![t] = r]
    BY <1>1, <1>5 DEF DefaultVlan, Step
  <2>2. defaultVid \in Vid /\ defaultVid \in Defaultable
    BY DEF IInv, DefaultsInv, VlanAssumption
  <2>3. o \in Vlan /\ vlans[o] \in Defaultable \cup {Null}
    <3>1. o \in Vlan /\ vlans[o] \in {defaultVid, Null}
      BY <1>1, <1>5, <2>2, MappedVlan DEF IInv
    <3> QED BY <2>2, <3>1
  <2>4. /\ r \in ThreadRec /\ r.pc = "default_count" /\ r.vlan = o /\ r.port = th[t].port
        /\ r.brport = th[t].brport /\ r.todo = {}
    BY <1>2, <1>3, <2>3 DEF ThreadRec, PCs, DefaultPC, ThreadOK
  <2> HIDE DEF r
  <2>5. th'[t] = r
    BY <2>1, Moves DEF IInv, TypesOK
  <2>6. ThreadOK(t)'
    BY <1>2, <1>3, <2>3, <2>4, <2>5 DEF ThreadOK, VlanPC, AddPC, DelPC, DefaultPC, BrportPC
  <2>7. CallOK(t)'
    BY <2>4, <2>5 DEF CallOK, AddPC, DelPC
  <2>8. DefaultOK(t)'
    BY <1>2, <2>3, <2>4, <2>5 DEF DefaultOK
  <2>9. r.pc \notin Working \cup {"new_cache", "delete_vlan"} /\ th[t].pc \in Knows
    BY <1>2, <2>4 DEF Working, Knows
  <2> QED BY <1>2, <1>3, <2>1, <2>4, <2>6, <2>7, <2>8, <2>9, QuietStep
<1> QED BY <1>4, <1>5

\* A removal goes on from the member it is at.
LEMMA GoesOnStep ==
    ASSUME VlanAssumption, Orderly, IInv, NEW t \in Thread, th[t].pc \in DefaultPC, NEW r \in ThreadRec,
           th' = [th EXCEPT ![t] = r],
           UNCHANGED <<vlans, members, brports, brCache, vlanMap, vidObj, objVid, cache, defaultVid>>,
           th[t].pc # "default_vlan", r.pc \in DefaultPC \ {"default_vlan"},
           r.vlan = th[t].vlan, r.port = th[t].port, r.brport = th[t].brport,
           r.pc = "default_remove" => r.member \in th[t].todo,
           r.todo \subseteq th[t].todo \/ (r.pc # "default_remove" /\ r.todo \subseteq InVlan(r.vlan))
    PROVE  IInv'
<1>1. /\ ThreadOK(t) /\ th[t] \in ThreadRec /\ DefaultOK(t)
      /\ th[t].pc \notin Working \cup Mid \cup {"new_cache"}
  BY DefaultFacts
<1>2. th'[t] = r
  BY Moves DEF IInv, TypesOK
<1>3. th[t].todo \subseteq Member
  BY <1>1 DEF ThreadRec
<1>4. ThreadOK(t)'
  BY <1>1, <1>2, <1>3 DEF ThreadOK, VlanPC, AddPC, DelPC, DefaultPC, BrportPC
<1>5. CallOK(t)'
  BY <1>2 DEF CallOK, AddPC, DelPC, DefaultPC
<1>6. GoesOn(t) \/ DefaultOK(t)'
  <2>1. CASE r.todo \subseteq th[t].todo
    BY <1>2, <2>1 DEF GoesOn
  <2>2. CASE r.pc # "default_remove" /\ r.todo \subseteq InVlan(r.vlan)
    BY <1>1, <1>2, <2>2 DEF DefaultOK, InVlan
  <2> QED BY <2>1, <2>2
<1>7. r.pc \notin Working \cup {"new_cache", "delete_vlan"} /\ th[t].pc \in Knows
  BY DEF Working, Knows, DefaultPC
<1> QED BY <1>1, <1>2, <1>4, <1>5, <1>6, <1>7, QuietStep

LEMMA DefaultCountStep ==
    ASSUME VlanAssumption, Orderly, IInv, NEW t \in Thread, DefaultCount(t)
    PROVE  IInv'
<1>1. PICK n : n = Cardinality(InVlan(th[t].vlan))
  OBVIOUS
<1>2. /\ th[t].pc = "default_count" /\ th[t].pc \in DefaultPC
      /\ UNCHANGED <<vlans, members, brports, brCache, vlanMap, vidObj, objVid, cache, defaultVid>>
  BY DEF DefaultCount, ports, tables, DefaultPC
<1>3. n \in Nat
  <2>1. IsFiniteSet(InVlan(th[t].vlan))
    BY FS_Subset DEF Orderly, InVlan
  <2> QED BY <1>1, <2>1, FS_CardinalityType
<1>4. CASE n = 0
  <2>1. th' = [th EXCEPT ![t] = AfterDefault(t)]
    BY <1>1, <1>4 DEF DefaultCount, Step
  <2> QED BY <1>2, <2>1, AfterStep
<1>5. CASE n # 0
  <2> DEFINE r == [th[t] EXCEPT !.pc = "default_list", !.n = n]
  <2>1. th' = [th EXCEPT ![t] = r]
    BY <1>1, <1>5 DEF DefaultCount, Step
  <2>2. th[t] \in ThreadRec
    BY <1>2, DefaultFacts
  <2>3. /\ r \in ThreadRec /\ r.pc = "default_list" /\ r.vlan = th[t].vlan /\ r.port = th[t].port
        /\ r.brport = th[t].brport /\ r.todo = th[t].todo
    BY <1>3, <2>2 DEF ThreadRec, PCs, DefaultPC
  <2> HIDE DEF r
  <2>4. r.pc \in DefaultPC \ {"default_vlan"} /\ r.todo \subseteq th[t].todo
    BY <2>3 DEF DefaultPC
  <2> QED BY <1>2, <2>1, <2>3, <2>4, GoesOnStep
<1> QED BY <1>4, <1>5

LEMMA DefaultListStep ==
    ASSUME VlanAssumption, Orderly, IInv, NEW t \in Thread, DefaultList(t)
    PROVE  IInv'
<1>1. /\ th[t].pc = "default_list" /\ th[t].pc \in DefaultPC
      /\ UNCHANGED <<vlans, members, brports, brCache, vlanMap, vidObj, objVid, cache, defaultVid>>
  BY DEF DefaultList, ports, tables, DefaultPC
<1>2. th[t] \in ThreadRec /\ th[t].pc \notin Working \cup Mid \cup {"new_cache"}
  BY <1>1, DefaultFacts
<1>3. CASE Return(t)
  BY <1>1, <1>2, <1>3, ReturnStep
<1>4. CASE ~ Return(t)
  <2> DEFINE r == [th[t] EXCEPT !.pc = "default_next", !.n = 0, !.todo = InVlan(th[t].vlan)]
  <2>1. th' = [th EXCEPT ![t] = r]
    <3>1. PICK junk \in SUBSET Garbage :
               Step(t, [th[t] EXCEPT !.pc = "default_next", !.n = 0,
                                     !.todo = InVlan(th[t].vlan) \cup junk])
      BY <1>4 DEF DefaultList
    <3>2. InVlan(th[t].vlan) \cup junk = InVlan(th[t].vlan)
      BY DEF Orderly
    <3> QED BY <3>1, <3>2 DEF Step
  <2>2. InVlan(th[t].vlan) \subseteq Member
    BY DEF InVlan
  <2>3. /\ r \in ThreadRec /\ r.pc = "default_next" /\ r.vlan = th[t].vlan /\ r.port = th[t].port
        /\ r.brport = th[t].brport /\ r.todo = InVlan(th[t].vlan)
    BY <1>2, <2>2 DEF ThreadRec, PCs, DefaultPC
  <2> HIDE DEF r
  <2>4. r.pc \in DefaultPC \ {"default_vlan"} /\ r.todo \subseteq InVlan(r.vlan)
    BY <2>3 DEF DefaultPC
  <2> QED BY <1>1, <2>1, <2>3, <2>4, GoesOnStep
<1> QED BY <1>3, <1>4

LEMMA DefaultNextStep ==
    ASSUME VlanAssumption, Orderly, IInv, NEW t \in Thread, DefaultNext(t)
    PROVE  IInv'
<1>1. /\ th[t].pc = "default_next" /\ th[t].pc \in DefaultPC
      /\ UNCHANGED <<vlans, members, brports, brCache, vlanMap, vidObj, objVid, cache, defaultVid>>
  BY DEF DefaultNext, ports, tables, DefaultPC
<1>2. th[t] \in ThreadRec
  BY <1>1, DefaultFacts
<1>3. CASE Step(t, AfterDefault(t))
  BY <1>1, <1>3, AfterStep DEF Step
<1>4. ASSUME NEW m \in th[t].todo, NEW rest, rest = [th[t] EXCEPT !.todo = @ \ {m}],
             \/ Step(t, rest)
             \/ Step(t, [rest EXCEPT !.pc = "default_remove", !.member = m])
      PROVE  IInv'
  <2>1. m \in Member
    BY <1>2 DEF ThreadRec
  <2>2. /\ rest \in ThreadRec /\ rest.pc = "default_next" /\ rest.vlan = th[t].vlan
        /\ rest.port = th[t].port /\ rest.brport = th[t].brport /\ rest.todo \subseteq th[t].todo
    BY <1>1, <1>2, <1>4 DEF ThreadRec
  <2>3. CASE Step(t, rest)
    <3>1. th' = [th EXCEPT ![t] = rest] /\ rest.pc \in DefaultPC \ {"default_vlan"}
      BY <2>2, <2>3 DEF Step, DefaultPC
    <3> QED BY <1>1, <2>2, <3>1, GoesOnStep
  <2>4. CASE Step(t, [rest EXCEPT !.pc = "default_remove", !.member = m])
    <3> DEFINE r == [rest EXCEPT !.pc = "default_remove", !.member = m]
    <3>1. th' = [th EXCEPT ![t] = r]
      BY <2>4 DEF Step
    <3>2. /\ r \in ThreadRec /\ r.pc = "default_remove" /\ r.vlan = th[t].vlan /\ r.port = th[t].port
          /\ r.brport = th[t].brport /\ r.todo \subseteq th[t].todo /\ r.member = m
      BY <2>1, <2>2 DEF ThreadRec, PCs, DefaultPC
    <3> HIDE DEF r
    <3>3. r.pc \in DefaultPC \ {"default_vlan"} /\ r.member \in th[t].todo
      BY <1>4, <3>2 DEF DefaultPC
    <3> QED BY <1>1, <3>1, <3>2, <3>3, GoesOnStep
  <2> QED BY <1>4, <2>3, <2>4
<1> QED BY <1>3, <1>4 DEF DefaultNext

\* A member taken out of the default VLAN is not in the cache.
LEMMA RemovedStep ==
    ASSUME VlanAssumption, Orderly, IInv, NEW t \in Thread, NEW m \in Member, m = th[t].member,
           th[t].pc = "default_remove", members[m] # Null, members' = [members EXCEPT ![m] = Null],
           NEW r \in ThreadRec, th' = [th EXCEPT ![t] = r],
           UNCHANGED <<vlans, brports, brCache, vlanMap, vidObj, objVid, cache, defaultVid>>,
           ThreadOK(t)', CallOK(t)', r.pc \in {"idle", "remove_brport", "default_next"},
           r.brport = th[t].brport, r.pc # "idle" => r.port = th[t].port,
           r.pc = "default_next" => r.vlan = th[t].vlan /\ r.todo = th[t].todo
    PROVE  IInv'
<1>1. OnlyMoves(t) /\ th'[t] = r /\ th' \in [Thread -> ThreadRec]
  BY Moves DEF IInv, TypesOK
<1>2. th[t].pc \in DefaultPC \ {"default_vlan"} /\ th[t].pc \in Knows /\ th[t].pc \notin Working \cup Mid
  BY DEF DefaultPC, Knows, Working, Mid
<1>3. r.pc \notin Working \cup AddPC \cup DelPC \cup {"new_cache", "delete_vlan"}
  BY DEF Working, AddPC, DelPC
<1>4. /\ members' \in [Member -> {Null} \cup (Vlan \X Brport \X Mode)]
      /\ members'[m] = Null /\ \A n \in Member : n # m => members'[n] = members[n]
  BY DEF IInv, TypesOK, TypeOK
<1>5. Fewer
  BY <1>4 DEF Fewer
<1>6. SameMembers
  <2>1. members[m][1] = th[t].vlan /\ vlans[th[t].vlan] \in Defaultable \cup {Null}
    BY <1>2 DEF IInv, DefaultsInv, DefaultOK
  <2>2. ASSUME NEW v \in Vid \ Defaultable, NEW p \in Port
        PROVE  ~ MemberOf(v, p, m) /\ ~ MemberOf(v, p, m)'
    <3>1. v # Null
      BY DEF VlanAssumption
    <3> QED BY <1>4, <2>1, <2>2, <3>1 DEF MemberOf
  <2>3. \A v, p : \A n \in Member : n # m =>
            (MemberOf(v, p, n)' <=> MemberOf(v, p, n)) /\ members'[n] = members[n]
    BY <1>4 DEF MemberOf
  <2> QED BY <2>2, <2>3 DEF SameMembers
<1>7. TypesOK'
  <2>1. \A u \in Thread : ThreadOK(u)' /\ th'[u].todo \subseteq Member
    BY <1>1, QuietThreads DEF IInv
  <2> QED BY <1>1, <1>4, <2>1 DEF IInv, TypesOK, TypeOK
<1>8. TablesInv'
  BY <1>1, <1>2, <1>3, QuietTables DEF IInv
<1>9. BrportInv'
  <2>1. r.pc \in Knows => r.port = th[t].port
    BY DEF Knows, DefaultPC
  <2> QED BY <1>1, <1>2, <1>3, <2>1, QuietBrports DEF IInv, ports
<1>10. MembersInv'
  BY <1>1, <1>3, <1>5, QuietMembers DEF IInv
<1>11. DefaultsInv'
  <2>1. r.pc \in DefaultPC => GoesOn(t)
    BY <1>1, <1>2 DEF GoesOn, DefaultPC
  <2> QED BY <1>1, <1>5, <2>1, QuietDefaults DEF IInv, DefaultsInv
<1>12. CacheInv'
  BY <1>1, <1>2, <1>6, QuietCache DEF IInv
<1>13. CallsInv'
  <2>1. t \notin Vlanner => UNCHANGED vlanMap
    OBVIOUS
  <2> QED BY <1>1, <1>3, <1>6, <2>1, QuietCalls DEF IInv
<1> QED BY <1>7, <1>8, <1>9, <1>10, <1>11, <1>12, <1>13 DEF IInv

LEMMA DefaultRemoveStep ==
    ASSUME VlanAssumption, Orderly, IInv, NEW t \in Thread, DefaultRemove(t)
    PROVE  IInv'
<1>1. PICK m : m = th[t].member
  OBVIOUS
<1>2. /\ th[t].pc = "default_remove" /\ th[t].pc \in DefaultPC
      /\ UNCHANGED <<vlans, brports, brCache, vlanMap, vidObj, objVid, cache, defaultVid>>
  BY DEF DefaultRemove, ports, tables, DefaultPC
<1>3. /\ th[t] \in ThreadRec /\ ThreadOK(t) /\ m \in Member
      /\ th[t].pc \notin Working \cup Mid \cup {"new_cache"}
  BY <1>1, <1>2, DefaultFacts DEF ThreadOK
<1>4. CASE Return(t) /\ UNCHANGED members
  BY <1>2, <1>3, <1>4, ReturnStep
<1>5. CASE ~ (Return(t) /\ UNCHANGED members)
  <2>1. members[m] # Null /\ members' = [members EXCEPT ![m] = Null]
    BY <1>1, <1>5 DEF DefaultRemove
  <2>2. CASE th[t].brport = Null
    <3> DEFINE r == [th[t] EXCEPT !.pc = "default_next", !.member = Null]
    <3>1. th' = [th EXCEPT ![t] = r]
      BY <1>1, <1>5, <2>2 DEF DefaultRemove, Step
    <3>2. /\ r \in ThreadRec /\ r.pc = "default_next" /\ r.vlan = th[t].vlan /\ r.port = th[t].port
          /\ r.brport = th[t].brport /\ r.todo = th[t].todo
      BY <1>3 DEF ThreadRec, PCs, DefaultPC
    <3> HIDE DEF r
    <3>3. th'[t] = r
      BY <3>1, Moves DEF IInv, TypesOK
    <3>4. th[t].vlan \in Vlan
      BY <1>2, <1>3 DEF ThreadOK
    <3>5. ThreadOK(t)'
      BY <1>2, <1>3, <2>2, <3>2, <3>3, <3>4 DEF ThreadOK, VlanPC, AddPC, DelPC, DefaultPC, BrportPC
    <3>6. CallOK(t)'
      BY <3>2, <3>3 DEF CallOK, AddPC, DelPC
    <3> QED BY <1>1, <1>2, <1>3, <2>1, <3>1, <3>2, <3>5, <3>6, RemovedStep
  <2>3. CASE th[t].brport # Null
    <3>1. PICK r : r = AfterDefault(t)
      OBVIOUS
    <3>2. th' = [th EXCEPT ![t] = r]
      BY <1>1, <1>5, <2>3, <3>1 DEF DefaultRemove, Step
    <3>3. /\ r \in ThreadRec /\ r.pc \in {"idle", "remove_brport"} /\ r.brport = th[t].brport
          /\ r.pc # "idle" => r.port = th[t].port
      BY <1>2, <3>1, AfterFields
    <3>4. ThreadOK(t)' /\ CallOK(t)'
      BY <1>2, <3>1, <3>2, AfterOK
    <3> QED BY <1>1, <1>2, <1>3, <2>1, <3>2, <3>3, <3>4, RemovedStep
  <2> QED BY <2>2, <2>3
<1> QED BY <1>4, <1>5

-----------------------------------------------------------------------------
(* The bridge ports.                                                       *)

\* What a bridge port's coming and going leaves alone.
LEMMA PorterStep ==
    ASSUME VlanAssumption, Orderly, IInv, NEW t \in Porter, NEW r \in ThreadRec,
           th' = [th EXCEPT ![t] = r],
           UNCHANGED <<vlans, members, vlanMap, vidObj, objVid, cache, defaultVid>>,
           brports' \in [Brport -> Port \cup {Null}], brCache' \in [Port -> Brport \cup {Null}],
           ThreadOK(t)', r.pc \in {"idle", "new_cache"},
           BrportInv', SameMembers,
           \A m \in Member : members[m] # Null =>
               /\ brports'[members[m][2]] # Null
               /\ brCache'[brports'[members[m][2]]] = members[m][2]
    PROVE  IInv'
<1>1. /\ OnlyMoves(t) /\ th'[t] = r /\ th' \in [Thread -> ThreadRec]
      /\ t \in Thread /\ t \notin Vlanner
  BY Moves, Threads DEF IInv, TypesOK
<1>2. TypesOK'
  <2>1. \A u \in Thread : ThreadOK(u)' /\ th'[u].todo \subseteq Member
    BY <1>1, QuietThreads DEF IInv
  <2> QED BY <1>1, <2>1 DEF IInv, TypesOK, TypeOK
<1>3. TablesInv'
  <2>1. th'[t].pc # "delete_vlan"
    BY <1>1
  <2> QED BY <1>1, <2>1, QuietTables DEF IInv
<1>4. MembersInv'
  <2>1. \A u \in Vlanner : th'[u] = th[u]
    BY <1>1, Threads DEF OnlyMoves
  <2> QED BY <2>1 DEF IInv, MembersInv
<1>5. DefaultsInv'
  <2>1. Fewer
    BY DEF Fewer
  <2>2. r.pc \notin DefaultPC
    BY DEF DefaultPC
  <2> QED BY <1>1, <2>1, <2>2, QuietDefaults DEF IInv, DefaultsInv
<1>6. CacheInv'
  BY <1>1, QuietCache DEF IInv
<1>7. CallsInv'
  BY <1>1, QuietCalls DEF IInv
<1> QED BY <1>2, <1>3, <1>4, <1>5, <1>6, <1>7 DEF IInv

LEMMA DeleteBridgePortStep ==
    ASSUME VlanAssumption, Orderly, IInv, NEW t \in Porter, NEW p \in Port, DeleteBridgePort(t, p)
    PROVE  IInv'
<1> DEFINE r == [Idle EXCEPT !.pc = "default_vlan", !.port = p, !.brport = brCache[p]]
<1>1. /\ t \in Thread /\ t \notin Vlanner /\ th[t].pc = "idle" /\ th' = [th EXCEPT ![t] = r]
      /\ UNCHANGED <<vlans, members, brports, brCache, vlanMap, vidObj, objVid, cache, defaultVid>>
      /\ brCache[p] \in Brport
  BY Threads DEF DeleteBridgePort, Step, tables, ports, IInv, TypesOK, TypeOK
<1>2. /\ r \in ThreadRec /\ r.pc = "default_vlan" /\ r.port = p /\ r.brport = brCache[p] /\ r.todo = {}
  <2>1. PICK b \in Brport : b = brCache[p]
    BY <1>1
  <2>2. PICK i \in ThreadRec : i = Idle /\ i.todo = {}
    BY IdleRec DEF Idle
  <2>3. "default_vlan" \in PCs
    BY DEF PCs, DefaultPC
  <2>4. /\ [i EXCEPT !.pc = "default_vlan", !.port = p, !.brport = b] \in ThreadRec
        /\ [i EXCEPT !.pc = "default_vlan", !.port = p, !.brport = b].pc = "default_vlan"
        /\ [i EXCEPT !.pc = "default_vlan", !.port = p, !.brport = b].port = p
        /\ [i EXCEPT !.pc = "default_vlan", !.port = p, !.brport = b].brport = b
        /\ [i EXCEPT !.pc = "default_vlan", !.port = p, !.brport = b].todo = {}
    BY <2>2, <2>3 DEF ThreadRec
  <2> QED BY <2>1, <2>2, <2>4
<1> HIDE DEF r
<1>3. th'[t] = r
  BY <1>1, Moves DEF IInv, TypesOK
<1>4. ThreadOK(t)'
  BY <1>1, <1>2, <1>3, Threads DEF ThreadOK, VlanPC, AddPC, DelPC, DefaultPC, BrportPC
<1>5. r.pc \notin {"new_cache", "delete_vlan"} /\ r.pc \notin DefaultPC \ {"default_vlan"}
  BY <1>2
<1> QED BY <1>1, <1>2, <1>4, <1>5, QuietStep

LEMMA RemoveBridgePortStep ==
    ASSUME VlanAssumption, Orderly, IInv, NEW t \in Porter, RemoveBridgePort(t)
    PROVE  IInv'
<1>1. PICK b, p : b = th[t].brport /\ p = th[t].port
  OBVIOUS
<1>2. /\ th[t].pc = "remove_brport" /\ Return(t) /\ th' = [th EXCEPT ![t] = Idle]
      /\ UNCHANGED <<vlans, members, vlanMap, vidObj, objVid, cache, defaultVid>>
  BY DEF RemoveBridgePort, Return, tables
<1>3. t \in Thread /\ t \notin Vlanner /\ ThreadOK(t) /\ b \in Brport /\ p \in Port
  BY <1>1, <1>2, Threads DEF IInv, TypesOK, ThreadOK, BrportPC
<1>4. CASE UNCHANGED ports
  BY <1>2, <1>3, <1>4, ReturnStep DEF ports
<1>5. CASE ~ UNCHANGED ports
  <2>1. /\ brports[b] # Null /\ OnBrport(b) = {}
        /\ brports' = [brports EXCEPT ![b] = Null] /\ brCache' = [brCache EXCEPT ![p] = Null]
    BY <1>1, <1>5 DEF RemoveBridgePort
  <2>2. brports[b] = p
    <3>1. b # Null
      BY <1>3 DEF VlanAssumption
    <3> QED BY <1>1, <1>2, <1>3, <2>1, <3>1 DEF IInv, BrportInv
  <2>3. /\ brports \in [Brport -> Port \cup {Null}] /\ brCache \in [Port -> Brport \cup {Null}]
        /\ Null \notin Port \cup Brport
    BY DEF IInv, TypesOK, TypeOK, VlanAssumption
  <2>4. /\ brports' \in [Brport -> Port \cup {Null}] /\ brCache' \in [Port -> Brport \cup {Null}]
        /\ brports'[b] = Null /\ brCache'[p] = Null
        /\ \A c \in Brport : c # b => brports'[c] = brports[c]
        /\ \A q \in Port : q # p => brCache'[q] = brCache[q]
    BY <1>3, <2>1, <2>3
  <2>5. OnlyMoves(t) /\ th'[t] = Idle /\ Idle.pc = "idle" /\ Idle.brport = Null /\ Idle \in ThreadRec
    BY <1>2, <1>3, IdleRec, Moves DEF IInv, TypesOK, Idle
  <2>6. ThreadOK(t)'
    BY <2>5 DEF ThreadOK, VlanPC, AddPC, DelPC, DefaultPC, BrportPC
  <2>7. \A c \in Brport : c # b => brports[c] # p
    BY <1>3, <2>1, <2>2 DEF IInv, BrportInv
  <2>8. BrportInv'
    <3>1. ASSUME NEW q \in Port, brCache'[q] # Null
          PROVE  brports'[brCache'[q]] = q
      <4>1. q # p /\ brports[brCache[q]] = q /\ brCache[q] \in Brport /\ brCache'[q] = brCache[q]
        BY <2>3, <2>4, <3>1 DEF IInv, BrportInv
      <4> QED BY <2>2, <2>4, <4>1
    <3>2. \A c, d \in Brport : brports'[c] = brports'[d] /\ brports'[c] # Null => c = d
      BY <2>4 DEF IInv, BrportInv
    <3>3. ASSUME NEW c \in Brport, brports'[c] # Null
          PROVE  \/ brCache'[brports'[c]] = c
                 \/ \E u \in Porter : th'[u].pc = "new_cache" /\ th'[u].brport = c
      <4>1. c # b /\ brports'[c] = brports[c] /\ brports[c] \in Port /\ brports[c] # p
        BY <2>3, <2>4, <2>7, <3>3
      <4>2. CASE brCache[brports[c]] = c
        BY <2>4, <4>1, <4>2
      <4>3. CASE \E u \in Porter : th[u].pc = "new_cache" /\ th[u].brport = c
        BY <1>2, <4>3, Threads, <2>5 DEF OnlyMoves
      <4> QED BY <3>3, <4>1, <4>2, <4>3 DEF IInv, BrportInv
    <3>4. ASSUME NEW u \in Porter, th'[u].pc = "new_cache"
          PROVE  /\ brports'[th'[u].brport] = th'[u].port
                 /\ \A w \in Thread \ {u} : th'[w].brport # th'[u].brport
                 /\ \A q \in Port : brCache'[q] # th'[u].brport
      <4>1. u # t /\ u \in Thread /\ th'[u] = th[u]
        BY <2>5, <3>4, Threads DEF OnlyMoves
      <4>2. th[u].brport \in Brport /\ th[u].brport # b
        <5>1. ThreadOK(u)
          BY <4>1 DEF IInv, TypesOK
        <5>2. th[u].brport \in Brport
          BY <3>4, <4>1, <5>1 DEF ThreadOK, BrportPC
        <5>3. t \in Thread \ {u}
          BY <1>3, <4>1
        <5> QED BY <1>1, <3>4, <4>1, <5>2, <5>3 DEF IInv, BrportInv
      <4>3. \A w \in Thread \ {u} : th'[w].brport # th[u].brport
        BY <2>3, <2>5, <3>4, <4>1, <4>2 DEF IInv, BrportInv, OnlyMoves
      <4>4. \A q \in Port : brCache'[q] # th[u].brport
        BY <2>3, <2>4, <3>4, <4>1, <4>2 DEF IInv, BrportInv
      <4>5. brports'[th[u].brport] = th[u].port
        BY <2>4, <3>4, <4>1, <4>2 DEF IInv, BrportInv
      <4> QED BY <4>1, <4>3, <4>4, <4>5
    <3>5. ASSUME NEW u \in Thread, th'[u].pc \in {"add_member", "remove_brport"} \cup DefaultPC,
                 th'[u].brport # Null
          PROVE  brports'[th'[u].brport] \in {th'[u].port, Null}
      <4>1. u # t /\ th'[u] = th[u]
        BY <2>5, <3>5 DEF OnlyMoves
      <4>2. th[u].brport \in Brport
        <5>1. th[u] \in ThreadRec
          BY DEF IInv, TypesOK
        <5> QED BY <3>5, <4>1, <5>1 DEF ThreadRec
      <4>3. brports[th[u].brport] \in {th[u].port, Null}
        BY <3>5, <4>1 DEF IInv, BrportInv
      <4> QED BY <2>4, <4>1, <4>2, <4>3
    <3> QED BY <3>1, <3>2, <3>3, <3>4, <3>5 DEF BrportInv
  <2>9. ASSUME NEW m \in Member, members[m] # Null
        PROVE  members[m][2] \in Brport /\ members[m][2] # b /\ brports'[members[m][2]] = brports[members[m][2]]
    <3>1. members[m][2] \in Brport
      BY <2>9 DEF IInv, TypesOK, TypeOK
    <3>2. members[m][2] # b
      BY <2>1, <2>9 DEF OnBrport
    <3> QED BY <2>4, <3>1, <3>2
  <2>10. SameMembers
    BY <1>2, <2>9 DEF SameMembers, MemberOf
  <2>11. ASSUME NEW m \in Member, members[m] # Null
         PROVE  /\ brports'[members[m][2]] # Null
                /\ brCache'[brports'[members[m][2]]] = members[m][2]
    <3>1. /\ brports[members[m][2]] # Null /\ brCache[brports[members[m][2]]] = members[m][2]
          /\ brports[members[m][2]] # p /\ brports[members[m][2]] \in Port
      BY <2>3, <2>7, <2>9, <2>11 DEF IInv, MembersInv
    <3> QED BY <2>4, <2>9, <2>11, <3>1
  <2> QED BY <1>2, <2>4, <2>5, <2>6, <2>8, <2>10, <2>11, PorterStep
<1> QED BY <1>4, <1>5

LEMMA CreateBridgePortStep ==
    ASSUME VlanAssumption, Orderly, IInv, NEW t \in Porter, NEW p \in Port, NEW b \in Brport,
           CreateBridgePort(t, p, b)
    PROVE  IInv'
<1> DEFINE r == [Idle EXCEPT !.pc = "new_cache", !.port = p, !.brport = b]
<1>1. /\ th[t].pc = "idle" /\ FreshBrport(b) /\ \A c \in Brport : brports[c] # p
      /\ brports' = [brports EXCEPT ![b] = p] /\ th' = [th EXCEPT ![t] = r]
      /\ UNCHANGED <<vlans, members, brCache, vlanMap, vidObj, objVid, cache, defaultVid>>
  BY DEF CreateBridgePort, Step, tables
<1>2. /\ r \in ThreadRec /\ r.pc = "new_cache" /\ r.port = p /\ r.brport = b
  <2>1. PICK i \in ThreadRec : i = Idle
    BY IdleRec
  <2>2. "new_cache" \in PCs
    BY DEF PCs, BrportPC
  <2>3. /\ [i EXCEPT !.pc = "new_cache", !.port = p, !.brport = b] \in ThreadRec
        /\ [i EXCEPT !.pc = "new_cache", !.port = p, !.brport = b].pc = "new_cache"
        /\ [i EXCEPT !.pc = "new_cache", !.port = p, !.brport = b].port = p
        /\ [i EXCEPT !.pc = "new_cache", !.port = p, !.brport = b].brport = b
    BY <2>1, <2>2 DEF ThreadRec
  <2> QED BY <2>1, <2>3
<1> HIDE DEF r
<1>3. t \in Thread /\ t \notin Vlanner /\ OnlyMoves(t) /\ th'[t] = r
  BY <1>1, Threads, Moves DEF IInv, TypesOK
<1>4. ThreadOK(t)'
  BY <1>2, <1>3 DEF ThreadOK, VlanPC, AddPC, DelPC, DefaultPC, BrportPC
<1>5. /\ brports \in [Brport -> Port \cup {Null}] /\ brCache \in [Port -> Brport \cup {Null}]
      /\ Null \notin Port \cup Brport
  BY DEF IInv, TypesOK, TypeOK, VlanAssumption
<1>6. /\ brports' \in [Brport -> Port \cup {Null}] /\ brCache' = brCache /\ brports[b] = Null
      /\ brports'[b] = p /\ \A c \in Brport : c # b => brports'[c] = brports[c]
      /\ \A u \in Thread : th[u].brport # b
  BY <1>1, <1>5 DEF FreshBrport
<1>7. \A q \in Port : brCache[q] # b
  BY <1>5, <1>6 DEF IInv, BrportInv
<1>8. BrportInv'
  <2>1. ASSUME NEW q \in Port, brCache'[q] # Null
        PROVE  brports'[brCache'[q]] = q
    <3>1. brCache[q] \in Brport /\ brCache[q] # b /\ brports[brCache[q]] = q
      BY <1>5, <1>6, <1>7, <2>1 DEF IInv, BrportInv
    <3> QED BY <1>6, <3>1
  <2>2. \A c, d \in Brport : brports'[c] = brports'[d] /\ brports'[c] # Null => c = d
    BY <1>1, <1>6 DEF IInv, BrportInv
  <2>3. ASSUME NEW c \in Brport, brports'[c] # Null
        PROVE  \/ brCache'[brports'[c]] = c
               \/ \E u \in Porter : th'[u].pc = "new_cache" /\ th'[u].brport = c
    <3>1. CASE c = b
      BY <1>2, <1>3, <3>1
    <3>2. CASE c # b
      <4>1. brports'[c] = brports[c] /\ brports[c] # Null
        BY <1>6, <2>3, <3>2
      <4>2. ASSUME NEW u \in Porter, th[u].pc = "new_cache", th[u].brport = c
            PROVE  th'[u].pc = "new_cache" /\ th'[u].brport = c
        <5>1. u \in Thread /\ u # t
          BY <1>1, <4>2, Threads
        <5> QED BY <1>3, <4>2, <5>1 DEF OnlyMoves
      <4> QED BY <1>6, <4>1, <4>2 DEF IInv, BrportInv
    <3> QED BY <3>1, <3>2
  <2>4. ASSUME NEW u \in Porter, th'[u].pc = "new_cache"
        PROVE  /\ brports'[th'[u].brport] = th'[u].port
               /\ \A w \in Thread \ {u} : th'[w].brport # th'[u].brport
               /\ \A q \in Port : brCache'[q] # th'[u].brport
    <3>1. CASE u = t
      <4>1. \A w \in Thread \ {t} : th'[w].brport # b
        BY <1>3, <1>6 DEF OnlyMoves
      <4> QED BY <1>2, <1>3, <1>6, <1>7, <3>1, <4>1
    <3>2. CASE u # t
      <4>1. u \in Thread /\ th'[u] = th[u] /\ ThreadOK(u)
        BY <1>3, <3>2, Threads DEF OnlyMoves, IInv, TypesOK
      <4>2. th[u].brport \in Brport /\ th[u].brport # b
        BY <1>6, <2>4, <4>1 DEF ThreadOK, BrportPC
      <4>3. /\ brports[th[u].brport] = th[u].port
            /\ \A w \in Thread \ {u} : th[w].brport # th[u].brport
            /\ \A q \in Port : brCache[q] # th[u].brport
        BY <2>4, <4>1 DEF IInv, BrportInv
      <4>4. \A w \in Thread \ {u} : th'[w].brport # th[u].brport
        BY <1>2, <1>3, <4>2, <4>3 DEF OnlyMoves
      <4> QED BY <1>6, <4>1, <4>2, <4>3, <4>4
    <3> QED BY <3>1, <3>2
  <2>5. ASSUME NEW u \in Thread, th'[u].pc \in {"add_member", "remove_brport"} \cup DefaultPC,
               th'[u].brport # Null
        PROVE  brports'[th'[u].brport] \in {th'[u].port, Null}
    <3>1. u # t
      BY <1>2, <1>3, <2>5 DEF DefaultPC
    <3>2. th'[u] = th[u] /\ th[u] \in ThreadRec
      BY <1>3, <3>1 DEF OnlyMoves, IInv, TypesOK
    <3>3. th[u].brport \in Brport /\ th[u].brport # b
      BY <1>6, <2>5, <3>2 DEF ThreadRec
    <3>4. brports[th[u].brport] \in {th[u].port, Null}
      BY <2>5, <3>2 DEF IInv, BrportInv
    <3> QED BY <1>6, <3>2, <3>3, <3>4
  <2> QED BY <2>1, <2>2, <2>3, <2>4, <2>5 DEF BrportInv
<1>9. ASSUME NEW m \in Member, members[m] # Null
      PROVE  /\ brports[members[m][2]] # Null /\ brports'[members[m][2]] = brports[members[m][2]]
             /\ brCache[brports[members[m][2]]] = members[m][2]
  <2>1. members[m][2] \in Brport
    BY <1>9 DEF IInv, TypesOK, TypeOK
  <2>2. brports[members[m][2]] # Null /\ brCache[brports[members[m][2]]] = members[m][2]
    BY <1>9 DEF IInv, MembersInv
  <2> QED BY <1>6, <2>1, <2>2
<1>10. SameMembers
  BY <1>1, <1>9 DEF SameMembers, MemberOf
<1>11. \A m \in Member : members[m] # Null =>
           /\ brports'[members[m][2]] # Null
           /\ brCache'[brports'[members[m][2]]] = members[m][2]
  BY <1>6, <1>9
<1>12. /\ th' = [th EXCEPT ![t] = r] /\ r.pc \in {"idle", "new_cache"}
       /\ UNCHANGED <<vlans, members, vlanMap, vidObj, objVid, cache, defaultVid>>
       /\ brports' \in [Brport -> Port \cup {Null}] /\ brCache' \in [Port -> Brport \cup {Null}]
  BY <1>1, <1>2, <1>5, <1>6
<1> QED BY <1>2, <1>4, <1>8, <1>10, <1>11, <1>12, PorterStep

LEMMA CacheBridgePortStep ==
    ASSUME VlanAssumption, Orderly, IInv, NEW t \in Porter, CacheBridgePort(t)
    PROVE  IInv'
<1>1. PICK b, p : b = th[t].brport /\ p = th[t].port
  OBVIOUS
<1>2. /\ th[t].pc = "new_cache" /\ th' = [th EXCEPT ![t] = Idle]
      /\ brCache' = [brCache EXCEPT ![p] = b]
      /\ UNCHANGED <<vlans, members, brports, vlanMap, vidObj, objVid, cache, defaultVid>>
  BY <1>1 DEF CacheBridgePort, Return, tables
<1>3. t \in Thread /\ t \notin Vlanner /\ ThreadOK(t) /\ b \in Brport /\ p \in Port
  BY <1>1, <1>2, Threads DEF IInv, TypesOK, ThreadOK, BrportPC
<1>4. OnlyMoves(t) /\ th'[t] = Idle /\ Idle.pc = "idle" /\ Idle.brport = Null /\ Idle \in ThreadRec
  BY <1>2, <1>3, IdleRec, Moves DEF IInv, TypesOK, Idle
<1>5. ThreadOK(t)'
  BY <1>4 DEF ThreadOK, VlanPC, AddPC, DelPC, DefaultPC, BrportPC
<1>6. /\ brports \in [Brport -> Port \cup {Null}] /\ brCache \in [Port -> Brport \cup {Null}]
      /\ Null \notin Port \cup Brport
  BY DEF IInv, TypesOK, TypeOK, VlanAssumption
<1>7. /\ brCache' \in [Port -> Brport \cup {Null}] /\ brports' = brports /\ brCache'[p] = b
      /\ \A q \in Port : q # p => brCache'[q] = brCache[q]
  BY <1>2, <1>3, <1>6
<1>8. brports[b] = p /\ \A u \in Thread \ {t} : th[u].brport # b
  BY <1>1, <1>2 DEF IInv, BrportInv
<1>9. \A c \in Brport : brports[c] = p => c = b
  BY <1>3, <1>6, <1>8 DEF IInv, BrportInv
<1>10. BrportInv'
  <2>1. \A q \in Port : brCache'[q] # Null => brports'[brCache'[q]] = q
    BY <1>7, <1>8 DEF IInv, BrportInv
  <2>2. \A c, d \in Brport : brports'[c] = brports'[d] /\ brports'[c] # Null => c = d
    BY <1>7 DEF IInv, BrportInv
  <2>3. ASSUME NEW c \in Brport, brports'[c] # Null
        PROVE  \/ brCache'[brports'[c]] = c
               \/ \E u \in Porter : th'[u].pc = "new_cache" /\ th'[u].brport = c
    <3>1. CASE c = b
      BY <1>7, <1>8, <3>1
    <3>2. CASE c # b
      <4>1. brports[c] # Null /\ brports[c] \in Port /\ brports[c] # p
        BY <1>6, <1>7, <1>9, <2>3, <3>2
      <4>2. ASSUME NEW u \in Porter, th[u].pc = "new_cache", th[u].brport = c
            PROVE  th'[u].pc = "new_cache" /\ th'[u].brport = c
        <5>1. u \in Thread /\ u # t
          BY <1>1, <3>2, <4>2, Threads
        <5> QED BY <1>4, <4>2, <5>1 DEF OnlyMoves
      <4> QED BY <1>7, <4>1, <4>2 DEF IInv, BrportInv
    <3> QED BY <3>1, <3>2
  <2>4. ASSUME NEW u \in Porter, th'[u].pc = "new_cache"
        PROVE  /\ brports'[th'[u].brport] = th'[u].port
               /\ \A w \in Thread \ {u} : th'[w].brport # th'[u].brport
               /\ \A q \in Port : brCache'[q] # th'[u].brport
    <3>1. u \in Thread /\ u # t /\ th'[u] = th[u] /\ ThreadOK(u)
      BY <1>4, <2>4, Threads DEF OnlyMoves, IInv, TypesOK
    <3>2. th[u].brport \in Brport /\ th[u].brport # b
      BY <1>8, <2>4, <3>1 DEF ThreadOK, BrportPC
    <3>3. /\ brports[th[u].brport] = th[u].port
          /\ \A w \in Thread \ {u} : th[w].brport # th[u].brport
          /\ \A q \in Port : brCache[q] # th[u].brport
      BY <2>4, <3>1 DEF IInv, BrportInv
    <3>4. \A w \in Thread \ {u} : th'[w].brport # th[u].brport
      BY <1>4, <1>6, <3>2, <3>3 DEF OnlyMoves
    <3> QED BY <1>7, <3>1, <3>2, <3>3, <3>4
  <2>5. ASSUME NEW u \in Thread, th'[u].pc \in {"add_member", "remove_brport"} \cup DefaultPC,
               th'[u].brport # Null
        PROVE  brports'[th'[u].brport] \in {th'[u].port, Null}
    <3>1. u # t /\ th'[u] = th[u]
      BY <1>4, <2>5 DEF OnlyMoves
    <3> QED BY <1>7, <2>5, <3>1 DEF IInv, BrportInv
  <2> QED BY <2>1, <2>2, <2>3, <2>4, <2>5 DEF BrportInv
<1>11. SameMembers
  BY <1>2, QuietSai
<1>12. ASSUME NEW m \in Member, members[m] # Null
       PROVE  /\ brports'[members[m][2]] # Null
              /\ brCache'[brports'[members[m][2]]] = members[m][2]
  <2>1. members[m][2] \in Brport
    BY <1>12 DEF IInv, TypesOK, TypeOK
  <2>2. brports[members[m][2]] # Null /\ brCache[brports[members[m][2]]] = members[m][2]
    BY <1>12 DEF IInv, MembersInv
  <2> QED BY <1>6, <1>7, <1>9, <2>1, <2>2
<1>13. brports' \in [Brport -> Port \cup {Null}]
  BY <1>6, <1>7
<1> QED BY <1>2, <1>4, <1>5, <1>7, <1>10, <1>11, <1>12, <1>13, PorterStep

-----------------------------------------------------------------------------
(* The invariant.                                                          *)

\* The bridge ports there are at the start, and whose they are.
LEMMA BootPorts ==
    ASSUME VlanAssumption, Init
    PROVE  /\ brports \in [Brport -> Port \cup {Null}]
           /\ \A p \in Port : brCache[p] = BootBrport[p]
           /\ \A p \in Port : BootBrport[p] # Null => brports[BootBrport[p]] = p
           /\ \A b \in Brport : brports[b] # Null => BootBrport[brports[b]] = b
<1> DEFINE boot == {p \in Port : BootBrport[p] # Null}
<1>1. brports = [b \in Brport |-> IF \E p \in boot : BootBrport[p] = b
                                  THEN CHOOSE p \in boot : BootBrport[p] = b
                                  ELSE Null]
  BY DEF Init
<1>2. ASSUME NEW b \in Brport, NEW p \in boot, BootBrport[p] = b
      PROVE  brports[b] = p
  <2>1. brports[b] = CHOOSE q \in boot : BootBrport[q] = b
    BY <1>1, <1>2
  <2>2. brports[b] \in boot /\ BootBrport[brports[b]] = b
    BY <1>2, <2>1
  <2> QED BY <1>2, <2>2 DEF VlanAssumption
<1>3. ASSUME NEW b \in Brport
      PROVE  \/ brports[b] = Null
             \/ brports[b] \in Port /\ BootBrport[brports[b]] = b
  <2>1. CASE \E p \in boot : BootBrport[p] = b
    BY <1>2, <2>1
  <2>2. CASE ~ \E p \in boot : BootBrport[p] = b
    BY <1>1, <2>2
  <2> QED BY <2>1, <2>2
<1>4. brports \in [Brport -> Port \cup {Null}]
  <2>1. \A b \in Brport : brports[b] \in Port \cup {Null}
    BY <1>3
  <2> QED BY <1>1, <2>1
<1>5. \A p \in Port : BootBrport[p] # Null => brports[BootBrport[p]] = p
  BY <1>2 DEF VlanAssumption
<1> QED BY <1>3, <1>4, <1>5 DEF Init

LEMMA InitVlan ==
    ASSUME VlanAssumption, Orderly, Init
    PROVE  IInv
<1>1. /\ vlans = [o \in Vlan |-> IF o = BootVlan THEN BootVid ELSE Null]
      /\ brCache = BootBrport
      /\ members \in [Member -> {Null} \cup ({BootVlan} \X Brport \X {BootMode})]
      /\ \A b \in Brport : Cardinality(OnBrport(b)) = IF brports[b] = Null THEN 0 ELSE 1
      /\ vlanMap = [v \in Vid |-> IF v = BootVid THEN BootVlan ELSE Null]
      /\ vidObj = vlanMap /\ objVid = vlans
      /\ cache = [k \in Vid \X Port |-> <<>>]
      /\ defaultVid = BootVid
      /\ th = [t \in Thread |-> Idle]
  BY DEF Init
<1>2. \A t \in Thread : th[t] = Idle /\ th[t].pc = "idle" /\ th[t].brport = Null /\ th[t].todo = {}
  BY <1>1 DEF Idle
<1>3. /\ brports \in [Brport -> Port \cup {Null}]
      /\ \A p \in Port : brCache[p] = BootBrport[p]
      /\ \A p \in Port : BootBrport[p] # Null => brports[BootBrport[p]] = p
      /\ \A b \in Brport : brports[b] # Null => BootBrport[brports[b]] = b
  BY BootPorts
<1>4. /\ vlans \in [Vlan -> Vid \cup {Null}] /\ vlanMap \in [Vid -> Vlan \cup {Null}]
      /\ vidObj \in [Vid -> Vlan \cup {Null}] /\ objVid \in [Vlan -> Vid \cup {Null}]
      /\ defaultVid \in Vid /\ brCache \in [Port -> Brport \cup {Null}]
  BY <1>1 DEF VlanAssumption
<1>5. members \in [Member -> {Null} \cup (Vlan \X Brport \X Mode)]
  BY <1>1 DEF VlanAssumption
<1>6. ASSUME NEW m \in Member, members[m] # Null
      PROVE  /\ members[m][1] = BootVlan /\ members[m][2] \in Brport
             /\ brports[members[m][2]] # Null
  <2>1. members[m] \in {BootVlan} \X Brport \X {BootMode}
    BY <1>1, <1>6
  <2>2. members[m][1] = BootVlan /\ members[m][2] \in Brport
    BY <2>1
  <2>3. PICK b \in Brport : b = members[m][2]
    BY <2>2
  <2>4. m \in OnBrport(b)
    BY <1>6, <2>3 DEF OnBrport
  <2>5. IsFiniteSet(OnBrport(b))
    BY FS_Subset DEF Orderly, OnBrport
  <2>6. Cardinality(OnBrport(b)) # 0
    BY <2>4, <2>5, FS_EmptySet
  <2>7. brports[b] # Null
    BY <1>1, <2>6
  <2> QED BY <2>2, <2>3, <2>7
<1>7. TypesOK
  <2>1. cache \in [Vid \X Port -> Seq(Member \X Mode)]
    <3>1. <<>> \in Seq(Member \X Mode)
      OBVIOUS
    <3> QED BY <1>1, <3>1
  <2>2. TypeOK
    BY <1>2, <1>3, <1>4, <1>5, <2>1 DEF TypeOK
  <2>3. th \in [Thread -> ThreadRec]
    BY <1>1, IdleRec
  <2>4. \A t \in Thread : ThreadOK(t)
    BY <1>2 DEF ThreadOK, VlanPC, AddPC, DelPC, DefaultPC, BrportPC
  <2> QED BY <2>2, <2>3, <2>4 DEF TypesOK
<1>8. TablesInv
  <2>1. \A v \in Vid : AgreeOn(v)
    BY <1>1 DEF AgreeOn, VlanAssumption
  <2> QED BY <1>2, <2>1, Threads DEF TablesInv, Working
<1>9. BrportInv
  <2>1. \A p \in Port : brCache[p] # Null => brports[brCache[p]] = p
    BY <1>3
  <2>2. \A b, c \in Brport : brports[b] = brports[c] /\ brports[b] # Null => b = c
    BY <1>3
  <2>3. \A b \in Brport : brports[b] # Null => brCache[brports[b]] = b
    BY <1>3
  <2>4. \A t \in Porter : th[t].pc # "new_cache"
    BY <1>2, Threads
  <2>5. \A t \in Thread : th[t].brport = Null
    BY <1>2
  <2> QED BY <2>1, <2>2, <2>3, <2>4, <2>5 DEF BrportInv
<1>10. MembersInv
  <2>1. vlans[BootVlan] # Null
    BY <1>1 DEF VlanAssumption
  <2>2. \A t \in Vlanner : th[t].pc \notin Working
    BY <1>2, Threads DEF Working
  <2>3. \A m \in Member : members[m] # Null => brCache[brports[members[m][2]]] = members[m][2]
    BY <1>3, <1>6
  <2> QED BY <1>6, <2>1, <2>2, <2>3 DEF MembersInv
<1>11. DefaultsInv
  BY <1>1, <1>2 DEF DefaultsInv, DefaultPC, Orderly
<1>12. CacheInv
  <2> SUFFICES ASSUME NEW v \in Vid \ Defaultable, NEW p \in Port
               PROVE  Len(cache[<<v, p>>]) \in {0, 1} /\ Agrees(v, p)
    BY DEF CacheInv
  <2>1. cache[<<v, p>>] = <<>>
    BY <1>1
  <2>2. Len(cache[<<v, p>>]) = 0 /\ ~ Found(v, p)
    BY <2>1 DEF Found
  <2>3. vlans[BootVlan] # v
    BY <1>1 DEF Orderly, VlanAssumption
  <2>4. \A m \in Member : ~ MemberOf(v, p, m)
    BY <1>6, <2>3 DEF MemberOf
  <2> QED BY <2>2, <2>4 DEF Agrees
<1>13. CallsInv
  BY <1>2, Threads DEF CallsInv, CallOK, AddPC, DelPC
<1> QED BY <1>7, <1>8, <1>9, <1>10, <1>11, <1>12, <1>13 DEF IInv

LEMMA NextVlan ==
    ASSUME VlanAssumption, NullAssumption, Orderly, IInv, [Next]_vars
    PROVE  IInv'
<1>1. ASSUME NEW t \in Vlanner, VlanStep(t)
      PROVE  IInv'
  BY <1>1, CreateVlanStep, SetDefaultVlanStep, CreateVlanSaiStep, CreateVlanMapStep,
     CreateVlanVirtualStep, DeleteVlanStep, DeleteVlanSaiStep, DeleteVlanMapStep,
     DeleteVlanVirtualStep DEF VlanStep
<1>2. ASSUME NEW t \in Vlanner, MemberStep(t)
      PROVE  IInv'
  <2>1. CASE AddGet(t)
    BY <2>1, AddGetNewStep, AddGetFoundStep
  <2> QED BY <1>2, <2>1, AddPortStep, AddVlanStep, AddBrportStep, AddMemberStep, SetModeStep,
             CacheGetStep, CacheDeleteStep, CacheInsertStep, AddReturnsStep, DelPortStep,
             DelMemberStep, DelCacheStep, DelAllFromDefaultStep DEF MemberStep
<1>3. ASSUME NEW t \in Porter, BrportStep(t)
      PROVE  IInv'
  BY <1>3, DeleteBridgePortStep, RemoveBridgePortStep, CreateBridgePortStep, CacheBridgePortStep
     DEF BrportStep
<1>4. ASSUME NEW t \in Thread, DefaultStep(t)
      PROVE  IInv'
  BY <1>4, DefaultVlanStep, DefaultCountStep, DefaultListStep, DefaultNextStep, DefaultRemoveStep
     DEF DefaultStep
<1>5. CASE UNCHANGED vars
  <2>1. TypesOK'
    BY <1>5 DEF vars, IInv, TypesOK, TypeOK, ThreadOK
  <2>2. TablesInv'
    BY <1>5 DEF vars, IInv, TablesInv, AtWork, AgreeOn, InWork
  <2>3. BrportInv' /\ MembersInv'
    BY <1>5 DEF vars, IInv, BrportInv, MembersInv
  <2>4. DefaultsInv'
    BY <1>5 DEF vars, IInv, DefaultsInv, DefaultOK
  <2>5. vlans' = vlans /\ members' = members /\ brports' = brports /\ cache' = cache /\ th' = th
    BY <1>5 DEF vars
  <2>6. ASSUME NEW v \in Vid \ Defaultable, NEW p \in Port
        PROVE  Len(cache'[<<v, p>>]) \in {0, 1} /\ (Settled(v, p)' => Agrees(v, p)')
    <3>1. Len(cache[<<v, p>>]) \in {0, 1} /\ (Settled(v, p) => Agrees(v, p))
      BY DEF IInv, CacheInv
    <3>2. Settled(v, p)' <=> Settled(v, p)
      BY <2>5 DEF Settled
    <3>3. Agrees(v, p) => Agrees(v, p)'
      BY <2>5 DEF Agrees, Found, Cached, MemberOf
    <3> QED BY <2>5, <3>1, <3>2, <3>3
  <2>7. CacheInv'
    BY <2>6 DEF CacheInv
  <2>8. ASSUME NEW t \in Vlanner
        PROVE  CallOK(t)'
    <3>1. CallOK(t)
      BY DEF IInv, CallsInv
    <3> QED BY <1>5, <3>1 DEF vars, CallOK, Found, Cached, MemberOf
  <2>9. CallsInv'
    BY <2>8 DEF CallsInv
  <2> QED BY <2>1, <2>2, <2>3, <2>4, <2>7, <2>9 DEF IInv
<1> QED BY <1>1, <1>2, <1>3, <1>4, <1>5 DEF Next

\* The state is consistent throughout: what each thread holds, the tables, the
\* bridge ports, the members and their cache.
THEOREM VlanInvariance ==
    ASSUME Orderly
    PROVE  Spec => []IInv
<1>1. Init => IInv
  BY InitVlan, VlanAssumption
<1>2. IInv /\ [Next]_vars => IInv'
  BY NextVlan, VlanAssumption, NullAssumption
<1> QED BY <1>1, <1>2, PTL DEF Spec

-----------------------------------------------------------------------------
(* The properties.                                                         *)

\* A member of a VLAN no call is at the tables of, by its VLAN's number and
\* its port.
LEMMA MemberIs ==
    ASSUME VlanAssumption, IInv, NEW v \in Vid, NEW p \in Port, NEW m \in Member, MemberOf(v, p, m)
    PROVE  /\ vlanMap[v] # Null /\ brCache[p] # Null
           /\ members[m] = <<vlanMap[v], brCache[p], members[m][3]>>
<1>1. members[m] \in Vlan \X Brport \X Mode
  BY DEF IInv, TypesOK, TypeOK, MemberOf
<1>2. vlans[members[m][1]] = v /\ brports[members[m][2]] = p
  BY DEF MemberOf
<1>3. ~ AtWork(v)
  <2> SUFFICES ASSUME NEW t \in Vlanner, th[t].pc \in Working, th[t].vid = v
               PROVE  FALSE
    BY DEF AtWork
  <2>1. InWork(t) /\ members[m][1] # th[t].vlan
    BY DEF IInv, TablesInv, MembersInv, MemberOf
  <2> QED BY <1>1, <1>2, <2>1 DEF InWork
<1>4. vlanMap[v] = members[m][1]
  BY <1>1, <1>2, <1>3 DEF IInv, TablesInv, AgreeOn
<1>5. brCache[p] = members[m][2]
  BY <1>2 DEF IInv, MembersInv, MemberOf
<1>6. vlanMap[v] # Null /\ brCache[p] # Null
  BY <1>1, <1>4, <1>5 DEF VlanAssumption
<1>7. members[m] = <<members[m][1], members[m][2], members[m][3]>>
  BY <1>1
<1> QED BY <1>4, <1>5, <1>6, <1>7

LEMMA TablesAgree ==
    IInv => VlanTablesAgree
<1> SUFFICES ASSUME IInv, NEW v \in Vid, ~ Busy(v)
             PROVE  AgreeOn(v)
  BY DEF VlanTablesAgree, AgreeOn
<1>1. ~ AtWork(v)
  BY DEF AtWork, Busy
<1> QED BY <1>1 DEF IInv, TablesInv

LEMMA CacheAgrees ==
    ASSUME VlanAssumption, Orderly, IInv
    PROVE  MembersAgree
<1> SUFFICES ASSUME NEW v \in Managed \ Defaultable, NEW p \in Port, ~ BusyPort(v, p)
             PROVE  /\ Len(cache[<<v, p>>]) <= 1
                    /\ Found(v, p) =>
                          /\ vlanMap[v] # Null /\ brCache[p] # Null
                          /\ members[Cached(v, p)[1]] = <<vlanMap[v], brCache[p], Cached(v, p)[2]>>
                    /\ \A m \in Member :
                          members[m] # Null /\ members[m][1] = vlanMap[v]
                          /\ brports[members[m][2]] = p
                          => Found(v, p) /\ Cached(v, p)[1] = m
  BY DEF MembersAgree
<1>1. v \in Vid \ Defaultable
  BY DEF VlanAssumption
<1>2. Agrees(v, p) /\ Len(cache[<<v, p>>]) \in {0, 1}
  <2>1. Settled(v, p)
    BY DEF Settled, BusyPort
  <2> QED BY <1>1, <2>1 DEF IInv, CacheInv
<1>3. Len(cache[<<v, p>>]) <= 1
  <2>1. \A n \in {0, 1} : n <= 1
    OBVIOUS
  <2> QED BY <1>2, <2>1
<1>4. ASSUME Found(v, p)
      PROVE  /\ vlanMap[v] # Null /\ brCache[p] # Null
             /\ members[Cached(v, p)[1]] = <<vlanMap[v], brCache[p], Cached(v, p)[2]>>
  <2>1. PICK m : m = Cached(v, p)[1]
    OBVIOUS
  <2>2. m \in Member
    <3>1. cache[<<v, p>>] \in Seq(Member \X Mode)
      BY <1>1 DEF IInv, TypesOK, TypeOK
    <3> QED BY <1>4, <2>1, <3>1 DEF Found, Cached
  <2>3. MemberOf(v, p, m) /\ members[m][3] = Cached(v, p)[2]
    BY <1>2, <1>4, <2>1 DEF Agrees
  <2>4. vlanMap[v] # Null /\ brCache[p] # Null /\ members[m] = <<vlanMap[v], brCache[p], members[m][3]>>
    BY <1>1, <2>2, <2>3, MemberIs
  <2> QED BY <2>1, <2>3, <2>4
<1>5. ASSUME NEW m \in Member, members[m] # Null, members[m][1] = vlanMap[v],
             brports[members[m][2]] = p
      PROVE  Found(v, p) /\ Cached(v, p)[1] = m
  <2>1. vlanMap[v] # Null
    BY <1>5 DEF IInv, TypesOK, TypeOK, VlanAssumption
  <2>2. vlans[vlanMap[v]] = v
    BY <1>1, <1>5, <2>1, MappedVlan DEF IInv, MembersInv
  <2>3. MemberOf(v, p, m)
    BY <1>5, <2>2 DEF MemberOf
  <2> QED BY <1>2, <2>3 DEF Agrees
<1> QED BY <1>3, <1>4, <1>5

LEMMA AddedIs ==
    ASSUME VlanAssumption, Orderly, IInv
    PROVE  AddedIsMember
<1> SUFFICES ASSUME NEW t \in Vlanner, th[t].pc = "added"
             PROVE  \E m \in Member :
                       members[m] = <<vlanMap[th[t].vid], brCache[th[t].port], th[t].mode>>
  BY DEF AddedIsMember
<1>1. PICK v, p : v = th[t].vid /\ p = th[t].port
  OBVIOUS
<1>2. CallOK(t) /\ v \in Vid \ Defaultable /\ p \in Port /\ Agrees(v, p)
  BY <1>1, CallFacts DEF AddPC, Mid
<1>3. Found(v, p) /\ Cached(v, p)[2] = th[t].mode
  BY <1>1, <1>2 DEF CallOK
<1>4. PICK m : m = Cached(v, p)[1]
  OBVIOUS
<1>5. m \in Member
  <2>1. cache[<<v, p>>] \in Seq(Member \X Mode)
    BY <1>2 DEF IInv, TypesOK, TypeOK
  <2> QED BY <1>3, <1>4, <2>1 DEF Found, Cached
<1>6. MemberOf(v, p, m) /\ members[m][3] = th[t].mode
  BY <1>2, <1>3, <1>4 DEF Agrees
<1>7. members[m] = <<vlanMap[v], brCache[p], members[m][3]>>
  BY <1>2, <1>5, <1>6, MemberIs
<1> QED BY <1>1, <1>5, <1>6, <1>7

\* Every table holds objects of its kind, and the cache of members a member
\* and its mode.
THEOREM VlanTypesHold ==
    ASSUME Orderly
    PROVE  Spec => []TypeOK
<1>1. IInv => TypeOK
  BY DEF IInv, TypesOK
<1> QED BY <1>1, VlanInvariance, PTL

\* The VLAN table, the virtual object cache and SAI agree on every VLAN no call
\* is working on, whatever calls of SAI fail.
THEOREM VlanTablesAlwaysAgree ==
    ASSUME Orderly
    PROVE  Spec => []VlanTablesAgree
  BY TablesAgree, VlanInvariance, PTL

\* The cache of the members of a VLAN that is not the default is what SAI has,
\* whatever bridge ports any number of threads delete and create meanwhile.
THEOREM MembersAlwaysAgree ==
    ASSUME Orderly
    PROVE  Spec => []MembersAgree
<1>1. IInv => MembersAgree
  BY CacheAgrees, VlanAssumption
<1> QED BY <1>1, VlanInvariance, PTL

\* Adding a port to a VLAN returns OK only if SAI has the member, in the mode
\* asked for.
THEOREM AddedAlwaysMember ==
    ASSUME Orderly
    PROVE  Spec => []AddedIsMember
<1>1. IInv => AddedIsMember
  BY AddedIs, VlanAssumption
<1> QED BY <1>1, VlanInvariance, PTL

=============================================================================
