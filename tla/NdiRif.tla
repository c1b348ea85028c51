------------------------------- MODULE NdiRif -------------------------------
(***************************************************************************)
(* Router interfaces: ndi_rif_create and ndi_rif_delete                    *)
(* (nas_ndi_router_interface.c) over the two maps of                       *)
(* nas_ndi_router_interface_utl.cpp, and the router bridge port a router   *)
(* interface on a 1D bridge has (nas_ndi_bridge.cpp, nas_ndi_obj_cache.cpp)*)
(*                                                                         *)
(* A caller that creates an interface which exists already is given the    *)
(* one that exists: a count says how many creates a deletion must match.   *)
(* Each call holds _ndi_rif_map_lock from its first step to its last and   *)
(* is one step here; what makes it hard is the calls to SAI in it, any of  *)
(* which may fail with the earlier ones done.                              *)
(***************************************************************************)
EXTENDS Integers, NdiCommon

CONSTANTS
    Key,        \* what ndi_rif_entry_key_equal tells apart
    BridgeKey,  \* keys on a 1D bridge that are not virtual
    VirtualKey, \* keys with NDI_RIF_ATTR_VIRTUAL
    RifOid,     \* object ids of router interfaces
    BrpOid,     \* object ids of router bridge ports
    MaxRef,     \* bound on ref_cnt, for model checking only
    MayFail     \* the SAI calls that may fail in this instance

ASSUME RifAssumption ==
    /\ BridgeKey \subseteq Key
    /\ VirtualKey \subseteq Key \ BridgeKey
    /\ None \notin Key \cup RifOid \cup BrpOid
    /\ MaxRef \in Nat
    /\ MayFail \subseteq {"remove_rif", "create_brport", "set_brport", "remove_brport"}

VARIABLES
    entryDb,    \* ndi_rif_entry_db: key -> interface
    keyOf,      \* ndi_rif_id_db: interface -> key, None when absent ...
    refs,       \*   ... and its ref_cnt
    rifs,       \* the router interfaces that exist in SAI
    brports,    \* the router bridge ports in SAI: bridge port -> interface
    brpCache,   \* _rif_to_brport_blk: interface -> bridge port
    held,       \* history: references the callers hold, by the results they saw
    lost        \* history: interfaces remove_router_interface failed on

rifVars == <<entryDb, keyOf, refs, rifs, brports, brpCache, held, lost>>

-----------------------------------------------------------------------------
RifInit ==
    /\ entryDb = [k \in Key |-> None]
    /\ keyOf = [r \in RifOid |-> None]
    /\ refs = [r \in RifOid |-> 0]
    /\ rifs = {}
    /\ brports = [b \in BrpOid |-> None]
    /\ brpCache = [r \in RifOid |-> None]
    /\ held = [r \in RifOid |-> 0]
    /\ lost = {}

\* Mutant: the entry found by id names the interface, not the key.
RecordSelf(k, r) ==
    /\ entryDb' = [entryDb EXCEPT ![k] = r]
    /\ keyOf' = [keyOf EXCEPT ![r] = r]
    /\ refs' = [refs EXCEPT ![r] = 1]

\* ndi_rif_utl_create_rif for a key that is not in the database.
Record(k, r) ==
    /\ entryDb' = [entryDb EXCEPT ![k] = r]
    /\ keyOf' = [keyOf EXCEPT ![r] = k]
    /\ refs' = [refs EXCEPT ![r] = 1]

\* Mutant: the entry found by key is left behind.
ForgetIdOnly(r) ==
    /\ keyOf' = [keyOf EXCEPT ![r] = None]
    /\ refs' = [refs EXCEPT ![r] = 0]
    /\ UNCHANGED entryDb

\* ndi_rif_utl_delete_rif when the count drops to zero.
Forget(r) ==
    /\ entryDb' = [entryDb EXCEPT ![keyOf[r]] = None]
    /\ keyOf' = [keyOf EXCEPT ![r] = None]
    /\ refs' = [refs EXCEPT ![r] = 0]

\* Mutant: the count is not looked at.
LastRefAlways(r) == refs[r] > 0

LastRef(r) == refs[r] = 1

-----------------------------------------------------------------------------
(* ndi_rif_create.                                                         *)

\* Mutant: the reference given out is not counted.
CreateKnownUncounted(k) ==
    /\ entryDb[k] # None
    /\ k \notin VirtualKey
    /\ held[entryDb[k]] < MaxRef
    /\ held' = [held EXCEPT ![entryDb[k]] = @ + 1]
    /\ UNCHANGED <<entryDb, keyOf, refs, rifs, brports, brpCache, lost>>

\* The key is known: a virtual interface is refused; any other has its
\* attributes set (a failure there changes nothing here) and is counted.
CreateKnown(k) ==
    /\ entryDb[k] # None
    /\ k \notin VirtualKey
    /\ refs[entryDb[k]] < MaxRef
    /\ refs' = [refs EXCEPT ![entryDb[k]] = @ + 1]
    /\ held' = [held EXCEPT ![entryDb[k]] = @ + 1]
    /\ UNCHANGED <<entryDb, keyOf, rifs, brports, brpCache, lost>>

\* create_router_interface gave the new object r.
CreateNew(k, r) ==
    /\ entryDb[k] = None
    /\ r \notin rifs
    /\ rifs' = rifs \cup {r}
    /\ held' = [held EXCEPT ![r] = @ + 1]
    /\ Record(k, r)
    /\ UNCHANGED lost

CreatePlain(k, r) ==
    /\ k \notin BridgeKey
    /\ CreateNew(k, r)
    /\ UNCHANGED <<brports, brpCache>>

\* ndi_1d_router_bridge_port_add: SAI gave the new bridge port b, which the
\* cache then holds under the interface.
CreateBridged(k, r, b) ==
    /\ k \in BridgeKey
    /\ brports[b] = None
    /\ CreateNew(k, r)
    /\ brports' = [brports EXCEPT ![b] = r]
    /\ brpCache' = [brpCache EXCEPT ![r] = b]

\* The bridge port failed: it was not created, or it could not be set up and
\* was removed again, or not even that.  Then the interface is removed.
CreateRollback(k, r) ==
    /\ k \in BridgeKey
    /\ entryDb[k] = None
    /\ r \notin rifs
    /\ \/ /\ {"create_brport", "set_brport"} \cap MayFail # {}
          /\ UNCHANGED brports
       \/ /\ {"set_brport", "remove_brport"} \subseteq MayFail
          /\ \E b \in BrpOid : brports[b] = None /\ brports' = [brports EXCEPT ![b] = r]
    /\ \/ UNCHANGED <<rifs, lost>>
       \/ /\ "remove_rif" \in MayFail
          /\ rifs' = rifs \cup {r}
          /\ lost' = lost \cup {r}
    /\ UNCHANGED <<entryDb, keyOf, refs, brpCache, held>>

-----------------------------------------------------------------------------
(* ndi_rif_delete, called for an interface the caller has a reference to.  *)

DeleteShared(r) ==
    /\ held[r] > 0
    /\ ~LastRef(r)
    /\ refs' = [refs EXCEPT ![r] = @ - 1]
    /\ held' = [held EXCEPT ![r] = @ - 1]
    /\ UNCHANGED <<entryDb, keyOf, rifs, brports, brpCache, lost>>

\* ndi_1d_router_bridge_port_delete.  An interface the cache does not know has
\* no bridge port.  The cached bridge port must exist to be set down and
\* removed.  The cache is then asked to drop the entry of an interface id
\* that ndi_delete_bridge_port never sets: whichever one, or none.
RouterPortGone(r) ==
    \/ /\ brpCache[r] = None
       /\ UNCHANGED <<brports, brpCache>>
    \/ /\ brpCache[r] # None
       /\ brports[brpCache[r]] # None
       /\ brports' = [brports EXCEPT ![brpCache[r]] = None]
       /\ brpCache' \in {brpCache} \cup {[brpCache EXCEPT ![g] = None] : g \in RifOid}

\* The last reference.  If the bridge port cannot be removed the caller is
\* told so and nothing has changed: no step.
DeleteLast(r) ==
    /\ held[r] > 0
    /\ LastRef(r)
    /\ RouterPortGone(r)
    /\ rifs' = rifs \ {r}
    /\ lost' = lost \ {r}
    /\ held' = [held EXCEPT ![r] = @ - 1]
    /\ Forget(r)

\* The last reference, and remove_router_interface fails: the interface stays
\* in the database with its count, and the caller is told it is gone.
DeleteLastFails(r) ==
    /\ "remove_rif" \in MayFail
    /\ held[r] > 0
    /\ LastRef(r)
    /\ RouterPortGone(r)
    /\ lost' = lost \cup {r}
    /\ held' = [held EXCEPT ![r] = @ - 1]
    /\ UNCHANGED <<entryDb, keyOf, refs, rifs>>

-----------------------------------------------------------------------------
RifNext ==
    \/ \E k \in Key : CreateKnown(k)
    \/ \E k \in Key, r \in RifOid : CreatePlain(k, r)
    \/ \E k \in Key, r \in RifOid, b \in BrpOid : CreateBridged(k, r, b)
    \/ \E k \in Key, r \in RifOid : CreateRollback(k, r)
    \/ \E r \in RifOid : DeleteShared(r)
    \/ \E r \in RifOid : DeleteLast(r)
    \/ \E r \in RifOid : DeleteLastFails(r)

RifSpec == RifInit /\ [][RifNext]_rifVars

-----------------------------------------------------------------------------
(* Properties.                                                             *)

\* The maps hold interfaces under keys, the cache bridge ports under
\* interfaces, and no count is taken below zero.
RifTypeOK ==
    /\ entryDb \in [Key -> RifOid \cup {None}]
    /\ keyOf \in [RifOid -> Key \cup {None}]
    /\ refs \in [RifOid -> Nat]
    /\ rifs \subseteq RifOid
    /\ brports \in [BrpOid -> RifOid \cup {None}]
    /\ brpCache \in [RifOid -> BrpOid \cup {None}]
    /\ held \in [RifOid -> Nat]
    /\ lost \subseteq RifOid

\* The two maps of the database hold the same interfaces, each with a count,
\* through every order of creates, deletes and reuses of an object id: the
\* unchecked find in ndi_rif_utl_create_rif and the stale entry it erases
\* from ndi_rif_id_db do not occur.
RifDbsAgree ==
    /\ \A k \in Key, r \in RifOid : entryDb[k] = r <=> keyOf[r] = k
    /\ \A r \in RifOid : keyOf[r] # None <=> refs[r] > 0

\* No deletion by one caller takes an interface from another that was given
\* it: every reference held is counted, and what is counted is in SAI.
HeldRifsExist ==
    \A r \in RifOid : /\ held[r] <= refs[r]
                      /\ refs[r] > 0 => r \in rifs

\* Nothing leaks: unless SAI refused to remove the interface, its count is
\* the references held, and it is in SAI only while there are some.
RefsAreHeld ==
    \A r \in RifOid \ lost : /\ refs[r] = held[r]
                             /\ r \in rifs => refs[r] > 0

\* The doc of remove_bridge_port: the bridge port leaves all the mappings, its
\* object id is all that is needed.  So a mapped router bridge port exists.
RouterPortsUnmapped ==
    \A r \in RifOid : brpCache[r] # None => brports[brpCache[r]] # None
=============================================================================
