----------------------------- MODULE NdiPortMap -----------------------------
(***************************************************************************)
(* The port map of the NDI (nas_ndi_port_map.cpp) and the two operations   *)
(* of nas_ndi_port.c that change it while the switch runs:                 *)
(* ndi_phy_port_create and ndi_phy_port_delete.                            *)
(*                                                                         *)
(* Two tables name the same ports.  The forward one is indexed by the      *)
(* first hardware port and is guarded by ndi_port_map_rwlock; the reverse  *)
(* one is indexed by the SAI object and is guarded by sai_port_map_rwlock. *)
(* A step of this module is one critical section of those locks, or one    *)
(* SAI call made between two of them.  Any number of threads create and    *)
(* delete ports (Writer) and look them up (Reader).                        *)
(*                                                                         *)
(* The number of the NPU is left out: NDI_MAX_NPU is 1.  A slot beyond the *)
(* end of the vector reads as the value-initialised slot that a resize     *)
(* would put there, so the length of the vector is left out as well.       *)
(***************************************************************************)
EXTENDS Integers, FiniteSets

CONSTANTS
    HwPort,     \* indices of the forward table
    CpuPort,    \* the index nas_switch_get_cpu_port_id names
    SaiPort,    \* object ids SAI may give to front-panel ports
    CpuOid,     \* the object id of the CPU port
    NullOid,    \* SAI_NULL_OBJECT_ID, what a fresh slot holds
    NoPort,     \* "no index": an absent entry of the reverse table
    Writer,     \* threads in ndi_phy_port_create / ndi_phy_port_delete
    Reader,     \* threads in ndi_sai_port_id_get or in a walk of the ports
    MayFail     \* the SAI calls that may fail in this instance

Oid == SaiPort \cup {CpuOid}
SaiCalls == {"boot", "remove_port", "create_brport", "remove_brport"}

ASSUME PortMapAssumption ==
    /\ IsFiniteSet(HwPort)
    /\ CpuPort \in HwPort
    /\ NoPort \notin HwPort
    /\ CpuOid \notin SaiPort
    /\ NullOid \notin Oid
    /\ MayFail \subseteq SaiCalls

VARIABLES
    tbl,        \* g_ndi_port_map_tbl[0]: index -> slot
    rev,        \* g_saiport_map: object -> index, NoPort when absent
    sai,        \* the ports that exist in SAI: object -> its first hw port
    brport,     \* the objects that have a 1Q bridge port
    known,      \* the ports port_event_update_cb has announced
    boot,       \* how far ndi_sai_port_map_create has come
    stuck,      \* history: ports of calls that failed half way
    wr,         \* the writers
    rd          \* the readers

vars == <<tbl, rev, sai, brport, known, boot, stuck, wr, rd>>

-----------------------------------------------------------------------------
(* State formulae.                                                         *)

EmptySlot == [oid |-> NullOid, active |-> FALSE]
IdleWriter == [pc |-> "idle", port |-> NoPort, oid |-> NullOid]
IdleReader == [pc |-> "idle", port |-> NoPort, oid |-> NullOid, seen |-> {}, len |-> 0]

\* NDI_PORT_MAP_ACTIVE_MASK of an index; ndi_port_is_valid.
Active(p) == tbl[p].active

ExistsInSai(s) == sai[s] # NoPort

\* SAI owns the lanes of a port: a second port on them is refused.  The CPU
\* port has no lanes, only an index that could be the number of a lane.
LanesFree(p) == \A s \in SaiPort : sai[s] # p

\* create_port returns an object that does not exist and that no call still
\* in progress is holding.
Fresh(s) == /\ ~ExistsInSai(s)
            /\ \A w \in Writer : wr[w].oid # s

Filled == {p \in HwPort : tbl[p].oid # NullOid}

\* What ndi_port_get_sai_ports_len counts, the CPU port left out.
PortsLen == Cardinality(Filled) - 1

\* What ndi_port_get_all_sai_ports copies: every filled slot but slot 0, and
\* nothing when there is just one port.
Copied == IF PortsLen > 1 THEN Filled \ {0} ELSE {}

\* The readers between their check of index p and their read of it are shown
\* that p now maps s.  History only: no step reads "seen".
Witness(p, s) ==
    [r \in Reader |->
        IF rd[r].pc = "read" /\ rd[r].port = p
        THEN [rd[r] EXCEPT !.seen = @ \cup {s}]
        ELSE rd[r]]

\* Put s in slot p and p in the entry of s, under both locks.
Fill(p, s) ==
    /\ tbl' = [tbl EXCEPT ![p] = [oid |-> s, active |-> TRUE]]
    /\ rev' = [rev EXCEPT ![s] = p]
    /\ rd' = Witness(p, s)

\* Mutants of Unfill: the reverse entry is left; the slot is wiped clean.
UnfillKeepsReverse(p, s) ==
    tbl' = [tbl EXCEPT ![p].active = FALSE] /\ UNCHANGED rev
UnfillWipesSlot(p, s) ==
    tbl' = [tbl EXCEPT ![p] = EmptySlot] /\ rev' = [rev EXCEPT ![s] = NoPort]

\* Take s out of slot p and out of the reverse table, under both locks.  The
\* slot is marked inactive; it keeps the object id.
Unfill(p, s) ==
    /\ tbl' = [tbl EXCEPT ![p].active = FALSE]
    /\ rev' = [rev EXCEPT ![s] = NoPort]

-----------------------------------------------------------------------------
(* The start: ndi_sai_port_map_create, then ndi_init_brport_for_1Q.        *)

Init ==
    /\ tbl = [p \in HwPort |-> EmptySlot]
    /\ rev = [s \in Oid |-> NoPort]
    /\ sai \in [Oid -> HwPort \cup {NoPort}]
    /\ sai[CpuOid] = CpuPort
    /\ \A s, t \in SaiPort : ExistsInSai(s) /\ sai[s] = sai[t] => s = t
    /\ brport = {}
    /\ known = {}
    /\ stuck = {}
    /\ boot = "cpu"
    /\ wr = [w \in Writer |-> IdleWriter]
    /\ rd = [r \in Reader |-> IdleReader]

\* ndi_sai_cpu_port_add does not look at the slot it fills.
BootCpu ==
    /\ boot = "cpu"
    /\ boot' = "ports"
    /\ Fill(CpuPort, CpuOid)
    /\ UNCHANGED <<sai, brport, known, wr, stuck>>

\* One turn of the loop of ndi_per_npu_sai_port_map_update.  The upper layer
\* reads the ports of the start from the map: "known" has them at once.
BootPort(s) ==
    /\ boot = "ports"
    /\ ExistsInSai(s) /\ rev[s] = NoPort
    /\ IF Active(sai[s])
       THEN /\ boot' = "down"
            /\ UNCHANGED <<tbl, rev, rd, known>>
       ELSE /\ Fill(sai[s], s)
            /\ known' = known \cup {sai[s]}
            /\ UNCHANGED boot
    /\ UNCHANGED <<sai, brport, wr, stuck>>

\* The default bridge has one bridge port for each front-panel port.
BootBridgePorts ==
    /\ boot = "ports"
    /\ \A s \in SaiPort : ExistsInSai(s) => rev[s] # NoPort
    /\ boot' = "up"
    /\ brport' = {s \in SaiPort : ExistsInSai(s)}
    /\ UNCHANGED <<tbl, rev, sai, known, wr, rd, stuck>>

\* nas_ndi_init gives up at the first call that fails.
BootFails ==
    /\ "boot" \in MayFail
    /\ boot \in {"cpu", "ports"}
    /\ boot' = "down"
    /\ UNCHANGED <<tbl, rev, sai, brport, known, wr, rd, stuck>>

Down == boot = "down" /\ UNCHANGED vars

-----------------------------------------------------------------------------
(* ndi_phy_port_create.                                                    *)

Goto(w, pc) == wr' = [wr EXCEPT ![w].pc = pc]
Return(w)   == wr' = [wr EXCEPT ![w] = IdleWriter]

CreateSaiPort(w, p, s) ==
    /\ boot = "up"
    /\ wr[w].pc = "idle"
    /\ LanesFree(p) /\ Fresh(s)
    /\ sai' = [sai EXCEPT ![s] = p]
    /\ wr' = [wr EXCEPT ![w] = [pc |-> "map_add", port |-> p, oid |-> s]]
    /\ UNCHANGED <<tbl, rev, brport, known, boot, rd, stuck>>

\* Mutant: the slot is filled whether it is in use or not.
MapAddOverSlot(w) ==
    /\ wr[w].pc = "map_add"
    /\ tbl' = [tbl EXCEPT ![wr[w].port] = [oid |-> wr[w].oid, active |-> TRUE]]
    /\ rev' = [rev EXCEPT ![wr[w].oid] = wr[w].port]
    /\ Goto(w, "create_brport")
    /\ UNCHANGED <<sai, brport, known, boot, stuck, rd>>

\* ndi_port_map_sai_port_add: a slot in use is an error, and the SAI port
\* just created stays behind.
MapAdd(w) ==
    /\ wr[w].pc = "map_add"
    /\ IF Active(wr[w].port)
       THEN Return(w) /\ UNCHANGED <<tbl, rev, rd>>
       ELSE Fill(wr[w].port, wr[w].oid) /\ Goto(w, "create_brport")
    /\ UNCHANGED <<sai, brport, known, boot, stuck>>

\* Mutant: the result of the bridge port's creation is not looked at.
CreateBridgePortUnchecked(w) ==
    /\ wr[w].pc = "create_brport"
    /\ \/ brport' = brport \cup {wr[w].oid}
       \/ UNCHANGED brport
    /\ Goto(w, "announce")
    /\ UNCHANGED <<tbl, rev, sai, known, boot, stuck, rd>>

\* nas_ndi_create_bridge_port_1Q; a failure undoes nothing.
CreateBridgePort(w) ==
    /\ wr[w].pc = "create_brport"
    /\ \/ /\ brport' = brport \cup {wr[w].oid}
          /\ Goto(w, "announce")
          /\ UNCHANGED stuck
       \/ /\ "create_brport" \in MayFail
          /\ stuck' = stuck \cup {wr[w].port}
          /\ Return(w)
          /\ UNCHANGED brport
    /\ UNCHANGED <<tbl, rev, sai, known, boot, rd>>

\* The ndi_port_ADD callback.  Setting the port down follows; whether it
\* succeeds changes no state here.
AnnounceAdd(w) ==
    /\ wr[w].pc = "announce"
    /\ known' = known \cup {wr[w].port}
    /\ Return(w)
    /\ UNCHANGED <<tbl, rev, sai, brport, boot, rd, stuck>>

-----------------------------------------------------------------------------
(* ndi_phy_port_delete.                                                    *)

\* ndi_sai_port_id_get: ndi_port_is_valid takes and drops the lock ...
DeleteCheck(w, p) ==
    /\ boot = "up"
    /\ wr[w].pc = "idle"
    /\ Active(p)
    /\ wr' = [wr EXCEPT ![w] = [pc |-> "del_read", port |-> p, oid |-> NullOid]]
    /\ UNCHANGED <<tbl, rev, sai, brport, known, boot, rd, stuck>>

\* ... and the slot is read under the lock taken again.
DeleteRead(w) ==
    /\ wr[w].pc = "del_read"
    /\ wr' = [wr EXCEPT ![w].pc = "del_brport", ![w].oid = tbl[wr[w].port].oid]
    /\ UNCHANGED <<tbl, rev, sai, brport, known, boot, rd, stuck>>

\* nas_ndi_delete_bridge_port_1Q: no bridge port is an error.
DeleteBridgePort(w) ==
    /\ wr[w].pc = "del_brport"
    /\ \/ /\ wr[w].oid \in brport
          /\ brport' = brport \ {wr[w].oid}
          /\ Goto(w, "del_port")
       \/ /\ wr[w].oid \notin brport \/ "remove_brport" \in MayFail
          /\ Return(w)
          /\ UNCHANGED brport
    /\ UNCHANGED <<tbl, rev, sai, known, boot, rd, stuck>>

\* Mutant: the call ends once SAI has removed the port.
DeleteSaiPortOnly(w) ==
    /\ wr[w].pc = "del_port"
    /\ ExistsInSai(wr[w].oid)
    /\ sai' = [sai EXCEPT ![wr[w].oid] = NoPort]
    /\ Return(w)
    /\ UNCHANGED <<tbl, rev, brport, known, boot, stuck, rd>>

\* Mutant: the map entry goes although SAI has kept the port.
DeleteSaiPortUnchecked(w) ==
    /\ wr[w].pc = "del_port"
    /\ sai' \in {sai, [sai EXCEPT ![wr[w].oid] = NoPort]}
    /\ Goto(w, "map_del")
    /\ UNCHANGED <<tbl, rev, brport, known, boot, stuck, rd>>

\* remove_port: nothing of what was done is undone when it fails.
DeleteSaiPort(w) ==
    /\ wr[w].pc = "del_port"
    /\ \/ /\ ExistsInSai(wr[w].oid)
          /\ sai' = [sai EXCEPT ![wr[w].oid] = NoPort]
          /\ Goto(w, "map_del")
          /\ UNCHANGED stuck
       \/ /\ ~ExistsInSai(wr[w].oid) \/ "remove_port" \in MayFail
          /\ stuck' = stuck \cup {wr[w].port}
          /\ Return(w)
          /\ UNCHANGED sai
    /\ UNCHANGED <<tbl, rev, brport, known, boot, rd>>

\* ndi_port_map_sai_port_delete.  An object with no entry is no error, and
\* leaves the port that the callback then names unset: any port.
MapDelete(w) ==
    LET s == wr[w].oid
        p == rev[s]
        Announce(q) == wr' = [wr EXCEPT ![w].pc = "announce_del", ![w].port = q]
    IN  /\ wr[w].pc = "map_del"
        /\ \/ /\ p = NoPort
              /\ \E q \in HwPort : Announce(q)
              /\ UNCHANGED <<tbl, rev>>
           \/ /\ p # NoPort
              /\ tbl[p].oid # s \/ ~Active(p)
              /\ Return(w)
              /\ UNCHANGED <<tbl, rev>>
           \/ /\ p # NoPort
              /\ tbl[p].oid = s /\ Active(p)
              /\ Unfill(p, s)
              /\ Announce(p)
        /\ UNCHANGED <<sai, brport, known, boot, rd, stuck>>

AnnounceDelete(w) ==
    /\ wr[w].pc = "announce_del"
    /\ known' = known \ {wr[w].port}
    /\ Return(w)
    /\ UNCHANGED <<tbl, rev, sai, brport, boot, rd, stuck>>

-----------------------------------------------------------------------------
(* ndi_sai_port_id_get, called by every other part of the NDI.             *)

LookupCheck(r, p) ==
    /\ boot = "up"
    /\ rd[r].pc = "idle"
    /\ Active(p)
    /\ rd' = [rd EXCEPT ![r] = [pc |-> "read", port |-> p, oid |-> NullOid,
                                  seen |-> {tbl[p].oid}, len |-> 0]]
    /\ UNCHANGED <<tbl, rev, sai, brport, known, boot, wr, stuck>>

LookupRead(r) ==
    /\ rd[r].pc = "read"
    /\ rd' = [rd EXCEPT ![r].pc = "answered", ![r].oid = tbl[rd[r].port].oid]
    /\ UNCHANGED <<tbl, rev, sai, brport, known, boot, wr, stuck>>

(* A walk over all ports (ndi_stg_set_all_stp_port_state): the length is   *)
(* taken and the list is copied under separate acquisitions of the lock.   *)

WalkLen(r) ==
    /\ boot = "up"
    /\ rd[r].pc = "idle"
    /\ rd' = [rd EXCEPT ![r] = [IdleReader EXCEPT !.pc = "walk", !.len = PortsLen]]
    /\ UNCHANGED <<tbl, rev, sai, brport, known, boot, wr, stuck>>

\* Mutant: one entry more than the list holds is let through.
WalkFitsOneMore(n) == PortsLen <= n + 1

\* Does the copy go ahead into a list of n entries?
WalkFits(n) == PortsLen <= n

WalkCopy(r) ==
    /\ rd[r].pc = "walk"
    /\ rd' = [rd EXCEPT ![r] = IF WalkFits(@.len) THEN [@ EXCEPT !.pc = "copied"]
                                                 ELSE IdleReader]
    /\ UNCHANGED <<tbl, rev, sai, brport, known, boot, wr, stuck>>

ReaderDone(r) ==
    /\ rd[r].pc \in {"answered", "copied"}
    /\ rd' = [rd EXCEPT ![r] = IdleReader]
    /\ UNCHANGED <<tbl, rev, sai, brport, known, boot, wr, stuck>>

-----------------------------------------------------------------------------
Boot == \/ BootCpu
        \/ \E s \in SaiPort : BootPort(s)
        \/ BootBridgePorts
        \/ BootFails
        \/ Down

WriterStep(w) ==
    \/ \E p \in HwPort, s \in SaiPort : CreateSaiPort(w, p, s)
    \/ MapAdd(w)
    \/ CreateBridgePort(w)
    \/ AnnounceAdd(w)
    \/ \E p \in HwPort : DeleteCheck(w, p)
    \/ DeleteRead(w)
    \/ DeleteBridgePort(w)
    \/ DeleteSaiPort(w)
    \/ MapDelete(w)
    \/ AnnounceDelete(w)

ReaderStep(r) ==
    \/ \E p \in HwPort : LookupCheck(r, p)
    \/ LookupRead(r)
    \/ WalkLen(r)
    \/ WalkCopy(r)
    \/ ReaderDone(r)

Next == \/ Boot
        \/ \E w \in Writer : WriterStep(w)
        \/ \E r \in Reader : ReaderStep(r)

Spec == Init /\ [][Next]_vars

-----------------------------------------------------------------------------
(* Properties.                                                             *)

WriterPC == {"idle", "map_add", "create_brport", "announce", "del_read",
             "del_brport", "del_port", "map_del", "announce_del"}
ReaderPC == {"idle", "read", "answered", "walk", "copied"}

WriterRec == [pc : WriterPC, port : HwPort \cup {NoPort}, oid : Oid \cup {NullOid}]
ReaderRec == [pc : ReaderPC, port : HwPort \cup {NoPort}, oid : Oid \cup {NullOid},
              seen : SUBSET Oid, len : Int]

\* The values the tables, SAI and the threads range over.
TypeOK ==
    /\ tbl \in [HwPort -> [oid : Oid \cup {NullOid}, active : BOOLEAN]]
    /\ rev \in [Oid -> HwPort \cup {NoPort}]
    /\ sai \in [Oid -> HwPort \cup {NoPort}]
    /\ brport \subseteq SaiPort
    /\ known \subseteq HwPort
    /\ boot \in {"cpu", "ports", "up", "down"}
    /\ stuck \subseteq HwPort
    /\ wr \in [Writer -> WriterRec]
    /\ rd \in [Reader -> ReaderRec]

\* The two tables, guarded by two locks and written in turn, are inverses:
\* an object is translated to an index exactly when that index is active and
\* holds the object.
TablesAgree ==
    \A p \in HwPort, s \in Oid : rev[s] = p <=> Active(p) /\ tbl[p].oid = s

\* A port a caller can look up exists in SAI, except between the remove_port
\* and the ndi_port_map_sai_port_delete of one ndi_phy_port_delete.
MappedPortsExist ==
    \A p \in HwPort : Active(p) =>
        \/ ExistsInSai(tbl[p].oid)
        \/ \E w \in Writer : wr[w].pc = "map_del" /\ wr[w].oid = tbl[p].oid

\* However creates and deletes interleave, a delete that has removed the SAI
\* port finds the map entry of it, so that neither early return of
\* ndi_port_map_sai_port_delete is taken and the port announced is a set one.
MapDeleteFindsEntry ==
    \A w \in Writer : wr[w].pc = "map_del" =>
        /\ rev[wr[w].oid] # NoPort
        /\ Active(rev[wr[w].oid])
        /\ tbl[rev[wr[w].oid]].oid = wr[w].oid

\* A lookup answers with an object the index was mapped to at some moment of
\* the call, although ndi_port_is_valid and the read of the slot are two
\* critical sections: a delete between them leaves the object in the slot.
LookupLinearizable ==
    \A r \in Reader : rd[r].pc = "answered" => rd[r].oid \in rd[r].seen

\* No port created or deleted later takes the slot of the CPU port, which
\* ndi_sai_cpu_port_add fills without a check.
CpuPortStays ==
    boot \in {"ports", "up"} =>
        Active(CpuPort) /\ tbl[CpuPort].oid = CpuOid /\ rev[CpuOid] = CpuPort

\* The ports copied into the list of a walk fit the length taken earlier
\* under another acquisition of the lock.
WalkInBounds ==
    \A r \in Reader : rd[r].pc = "walk" /\ WalkFits(rd[r].len)
                      => Cardinality(Copied) <= rd[r].len

Quiet == boot = "up" /\ \A w \in Writer : wr[w].pc = "idle"

\* One caller at a time, whatever SAI call fails: no front-panel port is left
\* in SAI that the map does not know, unless it was asked for on the index of
\* the CPU port.
NoOrphanPort ==
    Quiet => \A s \in SaiPort :
                ExistsInSai(s) => rev[s] # NoPort \/ sai[s] = CpuPort

\* One caller at a time: what the upper layer was told is in the map, and a
\* mapped port has its bridge port and was announced, so that it can be used
\* and deleted, unless a call on it failed after its first change.
CallerViewAgrees ==
    Quiet => /\ \A p \in known : Active(p)
             /\ \A p \in HwPort \ (stuck \cup {CpuPort}) :
                    Active(p) => tbl[p].oid \in brport /\ p \in known

\* The forward table implements the registry of NdiPortRegistry.
Registry == INSTANCE NdiPortRegistry WITH
                Index  <- HwPort,
                Object <- Oid,
                None   <- NullOid,
                map    <- [p \in HwPort |-> IF Active(p) THEN tbl[p].oid ELSE NullOid]

\* ndi_port_map_sai_port_add and _delete change one port at a time, never
\* give one object to two ports and never replace the object of a port.
ImplementsRegistry == Registry!Spec
=============================================================================
