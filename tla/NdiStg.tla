------------------------------- MODULE NdiStg -------------------------------
(***************************************************************************)
(* Spanning tree: the STP ports of SAI, the two lists of them in           *)
(* nas_ndi_map that nas_ndi_stg.cpp keeps, and the life of the 1Q bridge   *)
(* ports they sit on (nas_ndi_bridge.cpp).                                 *)
(*                                                                         *)
(* Setter threads set port states and add and delete STP instances; Porter *)
(* threads create and delete bridge ports, as ports come and go and as     *)
(* they join and leave a LAG.  They meet in the lists, in SAI and in       *)
(* _stp_member_mutex, which the creation of an STP port and the deletion   *)
(* of a bridge port hold, and the deletion of an instance and the fill of  *)
(* the lists at the start do not.  A step is one SAI call or one operation *)
(* of a cache; taking the mutex is part of the step that follows it.       *)
(* The state an STP port is set to is left out.                            *)
(***************************************************************************)
EXTENDS Integers, Sequences, FiniteSets

CONSTANTS
    Stg,        \* object ids of STP instances
    DefaultStg, \* the instance SAI starts with
    Port,       \* ports and LAGs that may have a 1Q bridge port
    Brport,     \* object ids of bridge ports
    StpOid,     \* object ids of STP ports
    Null,       \* SAI_NULL_OBJECT_ID
    Setter, Porter,
    BootBrport, \* the bridge port each port has at the start, or Null
    BootRace,   \* may Porter run before ndi_stg_get_default_id has returned?
    Garbage,    \* ids an entry of a list SAI has not filled may show
    MayFail     \* the SAI calls that may fail in this instance

Thread == Setter \cup Porter

ASSUME StgAssumption ==
    /\ DefaultStg \in Stg
    /\ Null \notin Stg \cup Port \cup Brport \cup StpOid
    /\ Setter \cap Porter = {} /\ Null \notin Thread
    /\ BootBrport \in [Port -> Brport \cup {Null}]
    /\ \A p, q \in Port : BootBrport[p] = BootBrport[q] => p = q \/ BootBrport[p] = Null
    /\ BootRace \in BOOLEAN
    /\ Garbage \subseteq StpOid \cup {Null}
    /\ MayFail \subseteq {"create_stp", "remove_stp", "set_brport", "remove_brport"}

ASSUME NullAssumption == Null \notin Stg \X Brport

VARIABLES
    stgs,       \* the STP instances in SAI
    stp,        \* the STP ports in SAI: object -> <<instance, bridge port>>
    brports,    \* the 1Q bridge ports in SAI: object -> port
    brCache,    \* _port_to_brport_blk: port -> bridge port
    defaultStg, \* default_stg_id
    idList,     \* NAS_NDI_MAP_TYPE_STP_PORT_ID: instance, bridge port -> objects
    portList,   \* NAS_NDI_MAP_TYPE_PORT_STP_PORTS: bridge port -> <<object, instance>>
    mutex,      \* _stp_member_mutex: its holder
    th,         \* the threads
    hurt        \* history: bridge ports whose deletion a SAI failure has stopped

vars == <<stgs, stp, brports, brCache, defaultStg, idList, portList, mutex, th, hurt>>
sai == <<stgs, stp, brports>>
lists == <<idList, portList>>

-----------------------------------------------------------------------------
(* State formulae.                                                         *)

Idle == [pc |-> "idle", inst |-> Null, stg |-> Null, port |-> Null,
         brport |-> Null, oid |-> Null, n |-> 0, todo |-> {}]

OnBrport(b) == {s \in StpOid : stp[s] # Null /\ stp[s][2] = b}
InStg(g)    == {s \in StpOid : stp[s] # Null /\ stp[s][1] = g}

\* ndi_stg_get_stp_port_id_from_cache: nas_ndi_map_get has room for one value,
\* so two values are an error, which reads as no value.
Lookup(g, b) == IF Len(idList[<<g, b>>]) = 1 THEN idList[<<g, b>>][1] ELSE Null

\* nas_ndi_map_delete_elements, filtered on the first value: what it leaves.
Without(list, s) ==
    LET kept[i \in 0 .. Len(list)] ==
            IF i = 0 THEN <<>>
            ELSE IF list[i][1] = s THEN kept[i-1] ELSE Append(kept[i-1], list[i])
    IN  kept[Len(list)]

\* An object SAI may hand out: not in use, and not in the hands of a call.
FreshStp(s) == stp[s] = Null /\ \A t \in Thread : /\ th[t].oid # s
                                                  /\ \A e \in th[t].todo : e[1] # s
FreshBrport(b) == brports[b] = Null /\ \A t \in Thread : th[t].brport # b
BootPC == {"boot_list", "boot_attr", "boot_cache_id", "boot_cache_port"}
FreshStg(g) == g \notin stgs /\ \A t \in Thread : th[t].stg # g /\ th[t].inst # g

\* Thread t goes on with the fields of r changed.
Step(t, r) == th' = [th EXCEPT ![t] = r]
Goto(t, pc) == th' = [th EXCEPT ![t].pc = pc]
Return(t) == th' = [th EXCEPT ![t] = Idle]

Init ==
    LET boot == {p \in Port : BootBrport[p] # Null}
    IN  /\ stgs = {DefaultStg}
        /\ brports = [b \in Brport |-> IF \E p \in boot : BootBrport[p] = b
                                       THEN CHOOSE p \in boot : BootBrport[p] = b
                                       ELSE Null]
        /\ brCache = BootBrport
        \* SAI has put each of these bridge ports in its default instance.
        /\ stp \in [StpOid -> {Null} \cup ({DefaultStg} \X Brport)]
        /\ \A b \in Brport : Cardinality(OnBrport(b)) = IF brports[b] = Null THEN 0 ELSE 1
        /\ defaultStg = Null
        /\ idList = [k \in Stg \X Brport |-> <<>>]
        /\ portList = [b \in Brport |-> <<>>]
        /\ mutex = Null
        /\ th = [t \in Thread |-> Idle]
        /\ hurt = {}

-----------------------------------------------------------------------------
(* ndi_stg_create_stp_port, for a set ("set_create") or for a new bridge   *)
(* port ("new_stp").                                                       *)

\* Mutant: the mutex is not taken.
CreateStpUnlocked(t) ==
    /\ th[t].pc \in {"set_create", "new_stp"}
    /\ \E s \in StpOid :
          /\ FreshStp(s) /\ th[t].stg \in stgs /\ brports[th[t].brport] # Null
          /\ stp' = [stp EXCEPT ![s] = <<th[t].stg, th[t].brport>>]
          /\ Step(t, [th[t] EXCEPT !.pc = "cache_id", !.oid = s])
    /\ UNCHANGED <<stgs, brports, brCache, defaultStg, lists, mutex, hurt>>

\* SAI needs the instance and the bridge port; it may hold more than one STP
\* port for the two of them.
CreateStp(t) ==
    /\ th[t].pc \in {"set_create", "new_stp"}
    /\ mutex = Null
    /\ \E s \in StpOid :
          /\ FreshStp(s) /\ th[t].stg \in stgs /\ brports[th[t].brport] # Null
          /\ stp' = [stp EXCEPT ![s] = <<th[t].stg, th[t].brport>>]
          /\ Step(t, [th[t] EXCEPT !.pc = "cache_id", !.oid = s])
    /\ mutex' = t
    /\ UNCHANGED <<stgs, brports, brCache, defaultStg, lists, hurt>>

\* A new bridge port without its STP port stays in SAI and out of the cache.
CreateStpFails(t) ==
    /\ th[t].pc \in {"set_create", "new_stp"}
    /\ mutex = Null
    /\ \/ "create_stp" \in MayFail
       \/ th[t].stg \notin stgs
       \/ brports[th[t].brport] = Null
    /\ Return(t)
    /\ UNCHANGED <<sai, brCache, defaultStg, lists, mutex, hurt>>

\* ndi_stg_add_port_to_cache, its first insert ...
CacheId(t) ==
    /\ th[t].pc \in {"cache_id", "boot_cache_id"}
    /\ idList' = [idList EXCEPT ![<<th[t].stg, th[t].brport>>] = Append(@, th[t].oid)]
    /\ Goto(t, IF th[t].pc = "cache_id" THEN "cache_port" ELSE "boot_cache_port")
    /\ UNCHANGED <<sai, brCache, defaultStg, portList, mutex, hurt>>

\* ... and its second, after which the mutex is released.
CachePort(t) ==
    /\ th[t].pc = "cache_port"
    /\ portList' = [portList EXCEPT ![th[t].brport] = Append(@, <<th[t].oid, th[t].stg>>)]
    /\ mutex' = Null
    /\ Step(t, IF th[t].port = Null
               THEN Idle
               ELSE [th[t] EXCEPT !.pc = "new_cache", !.oid = Null, !.stg = Null])
    /\ UNCHANGED <<sai, brCache, defaultStg, idList, hurt>>

-----------------------------------------------------------------------------
(* ndi_stg_set_stp_port_state and its LAG twin.                            *)

\* ndi_stg_get_brport.  A port with no bridge port ends the call, with OK.
\* Callers learn DefaultStg from ndi_stg_get_default_id.
SetState(t, g, p) ==
    /\ th[t].pc = "idle"
    /\ g \in stgs
    /\ g = DefaultStg => defaultStg # Null
    /\ brCache[p] # Null
    /\ Step(t, [Idle EXCEPT !.pc = "set_lookup", !.stg = g, !.brport = brCache[p]])
    /\ UNCHANGED <<sai, brCache, defaultStg, lists, mutex, hurt>>

\* An STP port that is found is set; one that is not found is created.
SetLookup(t) ==
    /\ th[t].pc = "set_lookup"
    /\ IF Lookup(th[t].stg, th[t].brport) = Null THEN Goto(t, "set_create") ELSE Return(t)
    /\ UNCHANGED <<sai, brCache, defaultStg, lists, mutex, hurt>>

-----------------------------------------------------------------------------
(* ndi_create_bridge_port and ndi_delete_bridge_port for a 1Q port.        *)

\* Interfaces are configured once L2 has the lists, except in a BootRace.
L2Ready == BootRace \/ (defaultStg # Null /\ \A t \in Setter : th[t].pc \notin BootPC)

\* SAI gives one bridge port to a port.  When it cannot be set up it is left
\* in SAI (a failure of the first attribute removes it: no step).
CreateBridgePort(t, p, b) ==
    /\ th[t].pc = "idle"
    /\ L2Ready
    /\ \A c \in Brport : brports[c] # p
    /\ FreshBrport(b)
    /\ brports' = [brports EXCEPT ![b] = p]
    /\ \/ Step(t, [Idle EXCEPT !.pc = "new_stp", !.port = p, !.brport = b, !.stg = defaultStg])
       \/ "set_brport" \in MayFail /\ UNCHANGED th
    /\ hurt' = hurt \ {b}
    /\ UNCHANGED <<stgs, stp, brCache, defaultStg, lists, mutex>>

\* nas_ndi_add_bridge_port_obj.
CacheBridgePort(t) ==
    /\ th[t].pc = "new_cache"
    /\ brCache' = [brCache EXCEPT ![th[t].port] = th[t].brport]
    /\ Return(t)
    /\ UNCHANGED <<sai, defaultStg, lists, mutex, hurt>>

\* nas_ndi_delete_bridge_port_1Q looks the bridge port up; it is set down and
\* its MAC addresses are flushed.
DeleteBridgePort(t, p) ==
    /\ th[t].pc = "idle"
    /\ L2Ready
    /\ brCache[p] # Null
    /\ Step(t, [Idle EXCEPT !.pc = "del_lock", !.port = p, !.brport = brCache[p]])
    /\ UNCHANGED <<sai, brCache, defaultStg, lists, mutex, hurt>>

\* ndi_stg_delete_port_stp_ports counts the STP ports in the list ...
DeleteLock(t) ==
    LET n == Len(portList[th[t].brport])
    IN  /\ th[t].pc = "del_lock"
        /\ mutex = Null
        /\ mutex' = t
        /\ Step(t, [th[t] EXCEPT !.n = n, !.pc = IF n = 0 THEN "del_brport" ELSE "del_list"])
        /\ UNCHANGED <<sai, brCache, defaultStg, lists, hurt>>

\* ... and reads them.  It gives up if the list has grown.
DeleteList(t) ==
    LET list == portList[th[t].brport]
    IN  /\ th[t].pc = "del_list"
        /\ IF Len(list) > th[t].n
           THEN Return(t) /\ mutex' = Null
           ELSE /\ Step(t, [th[t] EXCEPT !.pc = "del_stp", !.n = 0,
                                          !.todo = {list[i] : i \in DOMAIN list}])
                /\ UNCHANGED mutex
        /\ UNCHANGED <<sai, brCache, defaultStg, lists, hurt>>

\* Each is removed from SAI and then from the lists; a refusal is logged.
DeleteStp(t) ==
    /\ th[t].pc = "del_stp"
    /\ \/ /\ th[t].todo = {}
          /\ Goto(t, "del_brport")
          /\ UNCHANGED <<stp, hurt>>
       \/ \E e \in th[t].todo :
            LET rest == [th[t] EXCEPT !.todo = @ \ {e}]
            IN  \/ /\ stp[e[1]] # Null
                   /\ stp' = [stp EXCEPT ![e[1]] = Null]
                   /\ Step(t, [rest EXCEPT !.pc = "uncache_get", !.stg = e[2]])
                   /\ UNCHANGED hurt
                \/ /\ stp[e[1]] = Null \/ "remove_stp" \in MayFail
                   /\ hurt' = IF stp[e[1]] = Null THEN hurt ELSE hurt \cup {th[t].brport}
                   /\ Step(t, rest)
                   /\ UNCHANGED stp
    /\ UNCHANGED <<stgs, brports, brCache, defaultStg, lists, mutex>>

\* Mutant: the bridge port stays in the cache.
RemoveBridgePortCached(t) ==
    LET b == th[t].brport
    IN  /\ th[t].pc = "del_brport"
        /\ \/ /\ brports[b] # Null /\ OnBrport(b) = {}
              /\ brports' = [brports EXCEPT ![b] = Null]
              /\ hurt' = hurt \ {b}
           \/ /\ brports[b] = Null \/ OnBrport(b) # {} \/ "remove_brport" \in MayFail
              /\ hurt' = hurt \cup {b}
              /\ UNCHANGED brports
        /\ mutex' = Null
        /\ Return(t)
        /\ UNCHANGED <<stgs, stp, brCache, defaultStg, lists>>

\* remove_bridge_port, refused while an STP port is on it, then the cache.
\* What was removed before a refusal is not put back.
RemoveBridgePort(t) ==
    LET b == th[t].brport
    IN  /\ th[t].pc = "del_brport"
        /\ \/ /\ brports[b] # Null /\ OnBrport(b) = {}
              /\ brports' = [brports EXCEPT ![b] = Null]
              /\ brCache' = [brCache EXCEPT ![th[t].port] = Null]
              /\ hurt' = hurt \ {b}
           \/ /\ brports[b] = Null \/ OnBrport(b) # {} \/ "remove_brport" \in MayFail
              /\ hurt' = hurt \cup {b}
              /\ UNCHANGED <<brports, brCache>>
        /\ mutex' = Null
        /\ Return(t)
        /\ UNCHANGED <<stgs, stp, defaultStg, lists>>

-----------------------------------------------------------------------------
(* ndi_stg_del_port_from_cache: three operations of the map.               *)

UncacheGet(t) ==
    /\ th[t].pc = "uncache_get"
    /\ Step(t, [th[t] EXCEPT !.pc = "uncache_id", !.oid = Lookup(th[t].stg, th[t].brport)])
    /\ UNCHANGED <<sai, brCache, defaultStg, lists, mutex, hurt>>

UncacheId(t) ==
    /\ th[t].pc = "uncache_id"
    /\ idList' = [idList EXCEPT ![<<th[t].stg, th[t].brport>>] = <<>>]
    /\ Goto(t, "uncache_port")
    /\ UNCHANGED <<sai, brCache, defaultStg, portList, mutex, hurt>>

\* The loop that removed the STP port goes on.
NextStp(t) ==
    Step(t, IF t \in Porter
            THEN [th[t] EXCEPT !.pc = "del_stp", !.oid = Null, !.stg = Null]
            ELSE [th[t] EXCEPT !.pc = "stg_attr", !.oid = Null, !.stg = Null, !.brport = Null])

UncachePort(t) ==
    /\ th[t].pc = "uncache_port"
    /\ portList' = [portList EXCEPT ![th[t].brport] = Without(@, th[t].oid)]
    /\ NextStp(t)
    /\ UNCHANGED <<sai, brCache, defaultStg, idList, mutex, hurt>>

-----------------------------------------------------------------------------
(* ndi_stg_add, ndi_stg_delete and ndi_stg_get_default_id.                 *)

StgAdd(t, g) ==
    /\ th[t].pc = "idle"
    /\ FreshStg(g)
    /\ stgs' = stgs \cup {g}
    /\ UNCHANGED <<stp, brports, brCache, defaultStg, lists, mutex, th, hurt>>

\* The two calls count the STP ports of an instance, then list them.
Count(t, g, pc, none) ==
    LET n == Cardinality(InStg(g))
    IN  Step(t, [Idle EXCEPT !.inst = g, !.n = n, !.pc = IF n = 0 THEN none ELSE pc])

StgDelete(t, g) ==
    /\ th[t].pc = "idle"
    /\ g \in stgs \ {DefaultStg}
    /\ Count(t, g, "stg_list", "stg_remove")
    /\ UNCHANGED <<sai, brCache, defaultStg, lists, mutex, hurt>>

GetDefaultId(t) ==
    /\ th[t].pc = "idle"
    /\ defaultStg = Null
    /\ defaultStg' = DefaultStg
    /\ Count(t, DefaultStg, "boot_list", "idle")
    /\ UNCHANGED <<sai, brCache, lists, mutex, hurt>>

\* A list that has grown does not fit.  One that has shrunk leaves the rest
\* of the array unset, and the loop still runs to the earlier count.
List(t) ==
    LET now == InStg(th[t].inst)
        ids == Garbage \cup now
    IN  /\ th[t].pc \in {"stg_list", "boot_list"}
        /\ \/ /\ Cardinality(now) > th[t].n
              /\ Return(t)
           \/ /\ Cardinality(now) <= th[t].n
              /\ \E all \in SUBSET ids :
                    /\ now \subseteq all
                    /\ Cardinality(all) <= th[t].n
                    /\ Cardinality(now) < th[t].n => all # now \/ now \cap Garbage # {}
                    /\ Step(t, [th[t] EXCEPT !.n = 0,
                          !.todo = {<<s, th[t].inst>> : s \in all},
                          !.pc = IF th[t].pc = "stg_list" THEN "stg_attr" ELSE "boot_attr"])
        /\ UNCHANGED <<sai, brCache, defaultStg, lists, mutex, hurt>>

\* The next STP port's attributes; an id that is none ends the call.
Attr(t) ==
    /\ th[t].pc \in {"stg_attr", "boot_attr"}
    /\ \/ /\ th[t].todo = {}
          /\ IF th[t].pc = "stg_attr" THEN Goto(t, "stg_remove") ELSE Return(t)
       \/ \E e \in th[t].todo :
             IF e[1] = Null \/ stp[e[1]] = Null
             THEN Return(t)
             ELSE Step(t, [th[t] EXCEPT
                      !.pc = IF th[t].pc = "stg_attr" THEN "stg_stp" ELSE "boot_cache_id",
                      !.oid = e[1], !.brport = stp[e[1]][2], !.todo = @ \ {e},
                      !.stg = IF th[t].pc = "stg_attr" THEN stp[e[1]][1] ELSE th[t].inst])
    /\ UNCHANGED <<sai, brCache, defaultStg, lists, mutex, hurt>>

\* Mutant: the STP port stays in the lists.
StgStpCached(t) ==
    /\ th[t].pc = "stg_stp"
    /\ stp[th[t].oid] # Null
    /\ stp' = [stp EXCEPT ![th[t].oid] = Null]
    /\ Step(t, [th[t] EXCEPT !.pc = "stg_attr", !.oid = Null, !.stg = Null, !.brport = Null])
    /\ UNCHANGED <<stgs, brports, brCache, defaultStg, lists, mutex, hurt>>

\* remove_stp_port; a refusal ends the call.
StgStp(t) ==
    LET s == th[t].oid
    IN  /\ th[t].pc = "stg_stp"
        /\ \/ /\ stp[s] # Null
              /\ stp' = [stp EXCEPT ![s] = Null]
              /\ Goto(t, "uncache_get")
           \/ /\ stp[s] = Null \/ "remove_stp" \in MayFail
              /\ Return(t)
              /\ UNCHANGED stp
        /\ UNCHANGED <<stgs, brports, brCache, defaultStg, lists, mutex, hurt>>

\* remove_stp, refused while the instance has STP ports.
StgRemove(t) ==
    LET g == th[t].inst
    IN  /\ th[t].pc = "stg_remove"
        /\ stgs' = IF InStg(g) = {} THEN stgs \ {g} ELSE stgs
        /\ Return(t)
        /\ UNCHANGED <<stp, brports, brCache, defaultStg, lists, mutex, hurt>>

\* The second insert at the start, then the next STP port.
BootCachePort(t) ==
    /\ th[t].pc = "boot_cache_port"
    /\ portList' = [portList EXCEPT ![th[t].brport] = Append(@, <<th[t].oid, th[t].stg>>)]
    /\ Step(t, [th[t] EXCEPT !.pc = "boot_attr", !.oid = Null, !.stg = Null, !.brport = Null])
    /\ UNCHANGED <<sai, brCache, defaultStg, idList, mutex, hurt>>

-----------------------------------------------------------------------------
SetterStep(t) ==
    \/ \E g \in Stg, p \in Port : SetState(t, g, p)
    \/ SetLookup(t)
    \/ \E g \in Stg : StgAdd(t, g)
    \/ \E g \in Stg : StgDelete(t, g)
    \/ GetDefaultId(t)
    \/ List(t)
    \/ Attr(t)
    \/ StgStp(t)
    \/ StgRemove(t)
    \/ BootCachePort(t)

PorterStep(t) ==
    \/ \E p \in Port, b \in Brport : CreateBridgePort(t, p, b)
    \/ CacheBridgePort(t)
    \/ \E p \in Port : DeleteBridgePort(t, p)
    \/ DeleteLock(t)
    \/ DeleteList(t)
    \/ DeleteStp(t)
    \/ RemoveBridgePort(t)

\* What both kinds of thread run: the creation of an STP port and the two
\* caches of it.
SharedStep(t) ==
    \/ CreateStp(t)
    \/ CreateStpFails(t)
    \/ CacheId(t)
    \/ CachePort(t)
    \/ UncacheGet(t)
    \/ UncacheId(t)
    \/ UncachePort(t)

Next == \/ \E t \in Setter : SetterStep(t)
        \/ \E t \in Porter : PorterStep(t)
        \/ \E t \in Thread : SharedStep(t)

Spec == Init /\ [][Next]_vars

-----------------------------------------------------------------------------
(* Properties.                                                             *)

SetterPC == {"set_lookup", "set_create", "stg_list", "stg_attr", "stg_stp",
             "stg_remove"} \cup BootPC
PorterPC == {"new_stp", "new_cache", "del_lock", "del_list", "del_stp", "del_brport"}
SharedPC == {"idle", "cache_id", "cache_port", "uncache_get", "uncache_id", "uncache_port"}

\* The values SAI, the lists and the threads range over, and the holder of
\* the mutex being a thread inside its critical section.
TypeOK ==
    /\ DefaultStg \in stgs /\ stgs \subseteq Stg
    /\ stp \in [StpOid -> {Null} \cup (Stg \X Brport)]
    /\ brports \in [Brport -> Port \cup {Null}]
    /\ brCache \in [Port -> Brport \cup {Null}]
    /\ defaultStg \in {Null, DefaultStg}
    /\ idList \in [Stg \X Brport -> Seq(StpOid)]
    /\ portList \in [Brport -> Seq(StpOid \X Stg)]
    /\ \A t \in Thread :
          th[t].pc \in SharedPC \cup (IF t \in Setter THEN SetterPC ELSE PorterPC)
    /\ mutex # Null =>
          th[mutex].pc \in {"cache_id", "cache_port", "uncache_get", "uncache_id",
                            "uncache_port", "del_list", "del_stp", "del_brport"}
    /\ hurt \subseteq Brport

\* What _stp_member_mutex is for: when a bridge port comes to be removed no
\* STP port is on it, although states were set and instances deleted all the
\* while, unless SAI refused the removal of one.
RemovalNotRefused ==
    \A t \in Porter : th[t].pc = "del_brport" /\ th[t].brport \notin hurt
                      => OnBrport(th[t].brport) = {}

\* Between calls both lists are exactly the STP ports of SAI, whatever failed
\* and whatever ran without the mutex.
ListsExact ==
    (\A t \in Thread : th[t].pc = "idle") /\ defaultStg # Null =>
        /\ \A g \in Stg, b \in Brport :
              /\ Len(idList[<<g, b>>]) = Cardinality(InStg(g) \cap OnBrport(b))
              /\ \A i \in DOMAIN idList[<<g, b>>] : idList[<<g, b>>][i] \in InStg(g) \cap OnBrport(b)
        /\ \A b \in Brport :
              /\ Len(portList[b]) = Cardinality(OnBrport(b))
              /\ \A s \in OnBrport(b) : \E i \in DOMAIN portList[b] :
                    portList[b][i] = <<s, stp[s][1]>>

\* A bridge port callers can find is in the default instance, where it
\* forwards, until its deletion has begun, unless SAI refused a part of an
\* earlier one.
InDefaultStg ==
    \A p \in Port :
        LET b == brCache[p]
        IN  b # Null /\ b \notin hurt /\ (\A t \in Porter : th[t].brport # b)
            => InStg(DefaultStg) \cap OnBrport(b) # {}

\* The comment of ndi_stg_get_brport_state: if the STP port object is not
\* found then its state has not been set yet, and it reads as blocking.  The
\* code breaks this when BootRace is TRUE.
NotFoundMeansNotSet ==
    (\A t \in Thread : th[t].pc = "idle") /\ defaultStg # Null =>
        \A s \in StpOid : stp[s] # Null => Lookup(stp[s][1], stp[s][2]) # Null
=============================================================================
