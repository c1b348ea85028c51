-------------------------- MODULE NdiPortMapProofs --------------------------
(***************************************************************************)
(* The safety of NdiPortMap for every number of ports, writers and readers *)
(* and every set of failing SAI calls, and of NdiEvents, which composes    *)
(* the port map with the event thread, for every length of the socket.     *)
(***************************************************************************)
EXTENDS NdiEvents, FiniteSetTheorems, TLAPS

-----------------------------------------------------------------------------
(* The inductive invariant.                                                *)

\* Between these points of a create or a delete the call alone works on its
\* object: it is the one that adds it to the tables or takes it out of them.
Owning == {"map_add", "create_brport", "del_port", "map_del"}
Owns(w) == wr[w].pc \in Owning

\* Two calls never own the same object.
OwnersApart ==
    \A v, w \in Writer : Owns(v) /\ Owns(w) /\ wr[v].oid = wr[w].oid => v = w

\* What an owner may count on about its object.
OwnerState ==
    \A w \in Writer : Owns(w) =>
        /\ wr[w].oid \in SaiPort \ brport
        /\ wr[w].pc = "map_add" <=> rev[wr[w].oid] = NoPort
        /\ wr[w].pc # "map_del" <=> ExistsInSai(wr[w].oid)

WriterPort == \A w \in Writer : wr[w].pc # "idle" => wr[w].port \in HwPort

\* A 1Q bridge port belongs to a port that is mapped and exists, whatever SAI
\* call fails: the map is filled before it and emptied after it.
BridgePortsMapped ==
    \A s \in brport : rev[s] # NoPort /\ ExistsInSai(s)

\* An object still mapped that SAI has removed is owned by the call that did.
GoneObjects ==
    \A s \in Oid : rev[s] # NoPort /\ ~ExistsInSai(s) =>
        \E w \in Writer : wr[w].pc = "map_del" /\ wr[w].oid = s

BootState ==
    /\ ExistsInSai(CpuOid)
    /\ boot # "up" => /\ brport = {}
                      /\ \A w \in Writer : wr[w].pc = "idle"
                      /\ \A r \in Reader : rd[r].pc = "idle"
    /\ boot = "cpu" => \A p \in HwPort : ~Active(p)

ActiveSlots == \A p \in HwPort : Active(p) => tbl[p].oid \in Oid

\* A reader past its check has been shown every object its index held since.
ReaderState ==
    \A r \in Reader :
        /\ rd[r].pc = "read" => /\ rd[r].port \in HwPort
                                /\ tbl[rd[r].port].oid \in rd[r].seen
        /\ rd[r].pc = "answered" => rd[r].oid \in rd[r].seen

IInv ==
    /\ TypeOK
    /\ TablesAgree
    /\ OwnersApart
    /\ OwnerState
    /\ WriterPort
    /\ BridgePortsMapped
    /\ GoneObjects
    /\ BootState
    /\ CpuPortStays
    /\ ActiveSlots
    /\ ReaderState

-----------------------------------------------------------------------------
\* The port map before ndi_init: nothing is mapped, nobody is running.
LEMMA InitIInv == Init => IInv
<1> SUFFICES ASSUME Init PROVE IInv
    OBVIOUS
<1> USE PortMapAssumption
    DEF Init, Oid, EmptySlot, IdleWriter, IdleReader, Active, ExistsInSai
<1>1. TypeOK
    BY DEF TypeOK, WriterPC, ReaderPC, WriterRec, ReaderRec
<1>2. TablesAgree
    BY DEF TablesAgree
<1>3. OwnersApart /\ OwnerState /\ WriterPort
    BY DEF OwnersApart, OwnerState, WriterPort, Owns, Owning
<1>4. BridgePortsMapped /\ GoneObjects /\ BootState
    BY DEF BridgePortsMapped, GoneObjects, BootState
<1>5. CpuPortStays /\ ActiveSlots /\ ReaderState
    BY DEF CpuPortStays, ActiveSlots, ReaderState
<1> QED BY <1>1, <1>2, <1>3, <1>4, <1>5 DEF IInv

-----------------------------------------------------------------------------
(* What the pieces of the actions do to the variables.                     *)

\* A call that goes on changes nothing but its place in the code.
LEMMA GotoFacts ==
    ASSUME TypeOK, NEW w \in Writer, NEW pc \in WriterPC, Goto(w, pc)
    PROVE  /\ wr' \in [Writer -> WriterRec]
           /\ wr'[w].pc = pc /\ wr'[w].port = wr[w].port /\ wr'[w].oid = wr[w].oid
           /\ \A v \in Writer \ {w} : wr'[v] = wr[v]
<1>1. wr[w] \in WriterRec
    BY DEF TypeOK
<1>2. [wr[w] EXCEPT !.pc = pc] \in WriterRec
    BY <1>1 DEF WriterRec
<1>3. wr' = [wr EXCEPT ![w] = [wr[w] EXCEPT !.pc = pc]]
    BY DEF Goto
<1> QED BY <1>2, <1>3 DEF TypeOK

\* A call that returns leaves the others where they are.
LEMMA ReturnFacts ==
    ASSUME TypeOK, NEW w \in Writer, Return(w)
    PROVE  /\ wr' \in [Writer -> WriterRec]
           /\ wr'[w] = IdleWriter /\ wr'[w].pc = "idle"
           /\ \A v \in Writer \ {w} : wr'[v] = wr[v]
<1>1. IdleWriter \in WriterRec
    BY DEF IdleWriter, WriterRec, WriterPC
<1> QED BY <1>1 DEF Return, TypeOK, IdleWriter

\* Showing an object to the readers of an index adds to what they have seen.
LEMMA WitnessFacts ==
    ASSUME TypeOK, NEW p \in HwPort, NEW s \in Oid, rd' = Witness(p, s)
    PROVE  /\ rd' \in [Reader -> ReaderRec]
           /\ \A r \in Reader : /\ rd'[r].pc = rd[r].pc
                                /\ rd'[r].port = rd[r].port
                                /\ rd'[r].oid = rd[r].oid
                                /\ rd[r].seen \subseteq rd'[r].seen
                                /\ rd[r].pc = "read" /\ rd[r].port = p => s \in rd'[r].seen
<1> SUFFICES ASSUME NEW r \in Reader
             PROVE  /\ rd'[r] \in ReaderRec
                    /\ rd'[r].pc = rd[r].pc
                    /\ rd'[r].port = rd[r].port
                    /\ rd'[r].oid = rd[r].oid
                    /\ rd[r].seen \subseteq rd'[r].seen
                    /\ rd[r].pc = "read" /\ rd[r].port = p => s \in rd'[r].seen
    BY DEF Witness
<1>1. rd[r] \in ReaderRec
    BY DEF TypeOK
<1>2. rd'[r] = IF rd[r].pc = "read" /\ rd[r].port = p
               THEN [rd[r] EXCEPT !.seen = rd[r].seen \cup {s}] ELSE rd[r]
    BY DEF Witness
<1> QED BY <1>1, <1>2 DEF ReaderRec

\* What Fill(p, s) leaves when slot p was free and s was not mapped.
FillResult(p, s) ==
    /\ tbl' \in [HwPort -> [oid : Oid \cup {NullOid}, active : BOOLEAN]]
    /\ tbl'[p].oid = s /\ tbl'[p].active
    /\ \A q \in HwPort \ {p} : tbl'[q] = tbl[q]
    /\ rev' \in [Oid -> HwPort \cup {NoPort}]
    /\ rev'[s] = p
    /\ \A t \in Oid \ {s} : rev'[t] = rev[t]
    /\ rd' \in [Reader -> ReaderRec]
    /\ \A r \in Reader : rd'[r].pc = rd[r].pc
    /\ TablesAgree'
    /\ ActiveSlots'
    /\ ReaderState'

\* nas_port_map_add on a free slot with an object that is not mapped.
LEMMA FillFacts ==
    ASSUME IInv, NEW p \in HwPort, NEW s \in Oid,
           ~Active(p), rev[s] = NoPort, Fill(p, s)
    PROVE  FillResult(p, s)
<1> USE PortMapAssumption DEF IInv
<1>1. /\ tbl' \in [HwPort -> [oid : Oid \cup {NullOid}, active : BOOLEAN]]
      /\ tbl'[p].oid = s /\ tbl'[p].active
      /\ \A q \in HwPort \ {p} : tbl'[q] = tbl[q]
    BY DEF Fill, TypeOK
<1>2. /\ rev' \in [Oid -> HwPort \cup {NoPort}]
      /\ rev'[s] = p
      /\ \A t \in Oid \ {s} : rev'[t] = rev[t]
    BY DEF Fill, TypeOK
<1>3. /\ rd' \in [Reader -> ReaderRec]
      /\ \A r \in Reader : /\ rd'[r].pc = rd[r].pc
                           /\ rd'[r].port = rd[r].port
                           /\ rd'[r].oid = rd[r].oid
                           /\ rd[r].seen \subseteq rd'[r].seen
                           /\ rd[r].pc = "read" /\ rd[r].port = p => s \in rd'[r].seen
    BY WitnessFacts DEF Fill
<1>4. TablesAgree'
    BY <1>1, <1>2 DEF TablesAgree, Active
<1>5. ActiveSlots'
    BY <1>1 DEF ActiveSlots, Active
<1>6. ReaderState'
    BY <1>1, <1>3 DEF ReaderState
<1> QED BY <1>1, <1>2, <1>3, <1>4, <1>5, <1>6 DEF FillResult

-----------------------------------------------------------------------------
(* Each action preserves the invariant.                                    *)

\* The CPU port is mapped first.
LEMMA BootCpuStep ==
    ASSUME IInv, BootCpu
    PROVE  IInv'
<1> USE PortMapAssumption DEF IInv, Oid
<1>1. FillResult(CpuPort, CpuOid)
    BY FillFacts DEF BootCpu, BootState, TablesAgree, TypeOK
<1>2. TypeOK'
    BY <1>1 DEF TypeOK, BootCpu, FillResult
<1>3. OwnersApart' /\ WriterPort'
    BY DEF OwnersApart, Owns, WriterPort, BootCpu
<1>4. OwnerState'
    BY <1>1 DEF OwnerState, Owns, TablesAgree, BootCpu, FillResult, BootState
<1>5. BridgePortsMapped'
    BY DEF BridgePortsMapped, BootCpu, BootState
<1>6. GoneObjects'
    BY <1>1 DEF GoneObjects, ExistsInSai, BootCpu, FillResult, BootState
<1>7. BootState'
    BY <1>1 DEF BootState, ExistsInSai, BootCpu, FillResult
<1>8. CpuPortStays'
    BY <1>1 DEF CpuPortStays, TablesAgree, FillResult
<1> QED BY <1>2, <1>3, <1>4, <1>5, <1>6, <1>7, <1>8, <1>1 DEF FillResult

\* A boot port goes into the slot SAI names, or finds it taken and ends the boot.
LEMMA BootPortStep ==
    ASSUME IInv, NEW s \in SaiPort, BootPort(s)
    PROVE  IInv'
<1>1. CASE Active(sai[s])
  <2> USE PortMapAssumption DEF IInv, Oid
  <2>1. TypeOK'
      BY <1>1 DEF TypeOK, BootPort
  <2>2. /\ TablesAgree' /\ OwnersApart' /\ OwnerState' /\ WriterPort'
        /\ BridgePortsMapped' /\ GoneObjects' /\ ActiveSlots' /\ ReaderState'
      BY <1>1 DEF TablesAgree, Active, OwnersApart, Owns, OwnerState, ExistsInSai,
         WriterPort, BridgePortsMapped, GoneObjects, ActiveSlots, ReaderState, BootPort
  <2>3. BootState'
      BY <1>1 DEF BootState, ExistsInSai, BootPort
  <2>4. CpuPortStays'
      BY <1>1 DEF CpuPortStays, BootPort
  <2> QED BY <2>1, <2>2, <2>3, <2>4
<1>2. CASE ~Active(sai[s])
  <2> USE PortMapAssumption DEF IInv, Oid
  <2>1. sai[s] \in HwPort
    BY DEF BootPort, ExistsInSai, TypeOK
  <2>2. FillResult(sai[s], s)
    BY <1>2, <2>1, FillFacts DEF BootPort
  <2>3. TypeOK'
      BY <2>1, <2>2 DEF TypeOK, BootPort, FillResult
  <2>4. OwnersApart' /\ WriterPort'
      BY DEF OwnersApart, Owns, WriterPort, BootPort
  <2>5. OwnerState'
      BY <2>2 DEF OwnerState, Owns, ExistsInSai, BootPort, FillResult, BootState
  <2>6. BridgePortsMapped'
      BY DEF BridgePortsMapped, BootPort, BootState
  <2>7. GoneObjects'
      BY <2>2 DEF GoneObjects, ExistsInSai, BootPort, FillResult
  <2>8. BootState'
      BY <2>2 DEF BootState, ExistsInSai, BootPort, FillResult
  <2>9. CpuPortStays'
      BY <2>2 DEF CpuPortStays, TablesAgree, BootPort, FillResult
  <2> QED BY <2>2, <2>3, <2>4, <2>5, <2>6, <2>7, <2>8, <2>9 DEF FillResult
<1> QED BY <1>1, <1>2

\* The bridge ports of the boot ports, and the map is up.
LEMMA BootBridgePortsStep ==
    ASSUME IInv, BootBridgePorts
    PROVE  IInv'
<1> USE PortMapAssumption DEF IInv, Oid
<1>1. TypeOK'
    BY DEF TypeOK, BootBridgePorts
<1>2. /\ TablesAgree' /\ OwnersApart' /\ WriterPort'
      /\ GoneObjects' /\ ActiveSlots' /\ ReaderState'
    BY DEF TablesAgree, Active, OwnersApart, Owns, WriterPort, GoneObjects, ExistsInSai,
       ActiveSlots, ReaderState, BootBridgePorts
<1>3. OwnerState'
    BY DEF OwnerState, Owns, Owning, BootBridgePorts, BootState
<1>4. BridgePortsMapped'
    BY DEF BridgePortsMapped, ExistsInSai, BootBridgePorts
<1>5. BootState'
    BY DEF BootState, ExistsInSai, BootBridgePorts
<1>6. CpuPortStays'
    BY DEF CpuPortStays, Active, BootBridgePorts
<1> QED BY <1>1, <1>2, <1>3, <1>4, <1>5, <1>6

\* A boot that gives up keeps what it has mapped.
LEMMA BootFailsStep ==
    ASSUME IInv, BootFails
    PROVE  IInv'
<1> USE PortMapAssumption DEF IInv, Oid
<1>1. TypeOK'
    BY DEF TypeOK, BootFails
<1>2. /\ TablesAgree' /\ OwnersApart' /\ OwnerState' /\ WriterPort'
      /\ BridgePortsMapped' /\ GoneObjects' /\ ActiveSlots' /\ ReaderState'
    BY DEF TablesAgree, Active, OwnersApart, Owns, OwnerState, ExistsInSai, WriterPort,
       BridgePortsMapped, GoneObjects, ActiveSlots, ReaderState, BootFails
<1>3. BootState'
    BY DEF BootState, ExistsInSai, BootFails
<1>4. CpuPortStays'
    BY DEF CpuPortStays, BootFails
<1> QED BY <1>1, <1>2, <1>3, <1>4

\* create_port hands out an object nobody maps or holds.
LEMMA CreateSaiPortStep ==
    ASSUME IInv, NEW w \in Writer, NEW p \in HwPort, NEW s \in SaiPort,
           CreateSaiPort(w, p, s)
    PROVE  IInv'
<1> USE PortMapAssumption DEF IInv, Oid
<1>1. [pc |-> "map_add", port |-> p, oid |-> s] \in WriterRec
    BY DEF WriterRec, WriterPC
<1>2. /\ wr' \in [Writer -> WriterRec]
      /\ wr'[w] = [pc |-> "map_add", port |-> p, oid |-> s]
      /\ \A v \in Writer \ {w} : wr'[v] = wr[v]
    BY <1>1 DEF CreateSaiPort, TypeOK
<1>3. ~ExistsInSai(s) /\ \A v \in Writer : wr[v].oid # s
    BY DEF CreateSaiPort, Fresh
<1>4. rev[s] = NoPort
    BY <1>3 DEF GoneObjects
<1>5. /\ sai' \in [Oid -> HwPort \cup {NoPort}]
      /\ sai'[s] = p
      /\ \A t \in Oid \ {s} : sai'[t] = sai[t]
    BY DEF CreateSaiPort, TypeOK
<1>6. TypeOK'
    BY <1>2 DEF TypeOK, CreateSaiPort
<1>7. TablesAgree' /\ CpuPortStays' /\ ActiveSlots' /\ ReaderState'
    BY DEF TablesAgree, Active, CpuPortStays, ActiveSlots, ReaderState, CreateSaiPort
<1>8. OwnersApart'
    BY <1>2, <1>3 DEF OwnersApart, Owns
<1>9. OwnerState'
    BY <1>4, <1>5 DEF OwnerState, Owns, ExistsInSai, BridgePortsMapped, CreateSaiPort
<1>10. WriterPort'
    BY <1>2 DEF WriterPort
<1>11. BridgePortsMapped'
    BY DEF BridgePortsMapped, ExistsInSai, CreateSaiPort
<1>12. GoneObjects'
    BY DEF GoneObjects, ExistsInSai, CreateSaiPort
<1>13. BootState'
    BY DEF BootState, ExistsInSai, CreateSaiPort
<1> QED BY <1>6, <1>7, <1>8, <1>9, <1>10, <1>11, <1>12, <1>13

\* The new object goes into both tables.
LEMMA MapAddStep ==
    ASSUME IInv, NEW w \in Writer, MapAdd(w)
    PROVE  IInv'
<1>1. CASE Active(wr[w].port)
  <2> USE PortMapAssumption DEF IInv, Oid
  <2>1. /\ wr' \in [Writer -> WriterRec]
        /\ wr'[w].pc = "idle"
        /\ \A v \in Writer \ {w} : wr'[v] = wr[v]
      BY <1>1, ReturnFacts DEF MapAdd
  <2>2. TypeOK'
      BY <1>1, <2>1 DEF TypeOK, MapAdd
  <2>3. /\ TablesAgree' /\ BridgePortsMapped' /\ CpuPortStays'
        /\ ActiveSlots' /\ ReaderState'
      BY <1>1 DEF TablesAgree, Active, BridgePortsMapped, ExistsInSai, CpuPortStays,
         ActiveSlots, ReaderState, MapAdd
  <2>4. OwnersApart'
      BY <2>1 DEF OwnersApart, Owns, Owning
  <2>5. OwnerState'
      BY <1>1, <2>1 DEF OwnerState, Owns, Owning, ExistsInSai, MapAdd
  <2>6. WriterPort'
      BY <2>1 DEF WriterPort
  <2>7. GoneObjects'
    <3> SUFFICES ASSUME NEW s \in Oid, rev'[s] # NoPort, sai'[s] = NoPort
                 PROVE  \E v \in Writer : wr'[v].pc = "map_del" /\ wr'[v].oid = s
        BY DEF GoneObjects, ExistsInSai
    <3>1. PICK v \in Writer : wr[v].pc = "map_del" /\ wr[v].oid = s
        BY <1>1 DEF GoneObjects, ExistsInSai, MapAdd
    <3> QED BY <2>1, <3>1 DEF MapAdd
  <2>8. BootState'
      BY DEF BootState, ExistsInSai, MapAdd
  <2> QED BY <2>2, <2>3, <2>4, <2>5, <2>6, <2>7, <2>8
<1>2. CASE ~Active(wr[w].port)
  <2> USE PortMapAssumption DEF IInv, Oid
  <2>1. /\ wr' \in [Writer -> WriterRec]
        /\ wr'[w].pc = "create_brport" /\ wr'[w].port = wr[w].port
        /\ wr'[w].oid = wr[w].oid
        /\ \A v \in Writer \ {w} : wr'[v] = wr[v]
      BY <1>2, GotoFacts DEF MapAdd, WriterPC
  <2>2. wr[w].port \in HwPort /\ wr[w].oid \in SaiPort /\ rev[wr[w].oid] = NoPort
      BY DEF MapAdd, WriterPort, OwnerState, Owns, Owning
  <2>3. FillResult(wr[w].port, wr[w].oid)
      BY <1>2, <2>2, FillFacts DEF MapAdd
  <2>4. TypeOK'
      BY <2>1, <2>3 DEF TypeOK, MapAdd, FillResult
  <2>5. OwnersApart'
      BY <2>1, <2>2 DEF OwnersApart, Owns, OwnerState, MapAdd
  <2>6. OwnerState'
      BY <2>1, <2>2, <2>3 DEF OwnerState, Owns, Owning, ExistsInSai, OwnersApart,
         TablesAgree, MapAdd, FillResult
  <2>7. WriterPort'
      BY <2>1, <2>2 DEF WriterPort
  <2>8. BridgePortsMapped'
      BY <2>2, <2>3 DEF BridgePortsMapped, ExistsInSai, TypeOK, MapAdd, FillResult
  <2>9. GoneObjects'
    <3> SUFFICES ASSUME NEW s \in Oid, rev'[s] # NoPort, sai'[s] = NoPort
                 PROVE  \E v \in Writer : wr'[v].pc = "map_del" /\ wr'[v].oid = s
        BY DEF GoneObjects, ExistsInSai
    <3>1. PICK v \in Writer : wr[v].pc = "map_del" /\ wr[v].oid = s
        BY <2>3 DEF GoneObjects, ExistsInSai, OwnerState, Owns, Owning, MapAdd,
           FillResult
    <3> QED BY <2>1, <3>1 DEF MapAdd
  <2>10. BootState'
      BY DEF BootState, ExistsInSai, MapAdd
  <2>11. CpuPortStays'
      BY <2>2, <2>3 DEF CpuPortStays, TablesAgree, MapAdd, FillResult
  <2> QED BY <2>4, <2>5, <2>6, <2>7, <2>8, <2>9, <2>10, <2>11, <2>3 DEF FillResult
<1> QED BY <1>1, <1>2

\* The bridge port comes after the map, or the create fails after it.
LEMMA CreateBridgePortStep ==
    ASSUME IInv, NEW w \in Writer, CreateBridgePort(w)
    PROVE  IInv'
<1>1. CASE /\ Goto(w, "announce")
           /\ brport' = brport \cup {wr[w].oid}
           /\ UNCHANGED stuck
  <2> USE PortMapAssumption DEF IInv, Oid
  <2>1. /\ wr' \in [Writer -> WriterRec]
        /\ wr'[w].pc = "announce" /\ wr'[w].port = wr[w].port /\ wr'[w].oid = wr[w].oid
        /\ \A v \in Writer \ {w} : wr'[v] = wr[v]
      BY <1>1, GotoFacts DEF WriterPC
  <2>2. TypeOK'
      BY <1>1, <2>1 DEF TypeOK, CreateBridgePort, OwnerState, Owns, Owning
  <2>3. TablesAgree' /\ CpuPortStays' /\ ActiveSlots' /\ ReaderState'
      BY DEF TablesAgree, Active, CpuPortStays, ActiveSlots, ReaderState,
         CreateBridgePort
  <2>4. OwnersApart'
      BY <2>1 DEF OwnersApart, Owns, Owning
  <2>5. OwnerState'
      BY <2>1 DEF OwnerState, Owns, Owning, ExistsInSai, OwnersApart, CreateBridgePort
  <2>6. WriterPort'
      BY <2>1 DEF WriterPort, CreateBridgePort
  <2>7. BridgePortsMapped'
      BY DEF BridgePortsMapped, ExistsInSai, OwnerState, Owns, Owning, CreateBridgePort
  <2>8. GoneObjects'
    <3> SUFFICES ASSUME NEW s \in Oid, rev'[s] # NoPort, sai'[s] = NoPort
                 PROVE  \E v \in Writer : wr'[v].pc = "map_del" /\ wr'[v].oid = s
        BY DEF GoneObjects, ExistsInSai
    <3>1. PICK v \in Writer : wr[v].pc = "map_del" /\ wr[v].oid = s
        BY DEF GoneObjects, ExistsInSai, CreateBridgePort
    <3> QED BY <2>1, <3>1 DEF CreateBridgePort
  <2>9. BootState'
      BY DEF BootState, ExistsInSai, CreateBridgePort
  <2> QED BY <2>2, <2>3, <2>4, <2>5, <2>6, <2>7, <2>8, <2>9
<1>2. CASE /\ Return(w)
           /\ UNCHANGED brport
           /\ stuck' = stuck \cup {wr[w].port}
  <2> USE PortMapAssumption DEF IInv, Oid
  <2>1. /\ wr' \in [Writer -> WriterRec]
        /\ wr'[w].pc = "idle"
        /\ \A v \in Writer \ {w} : wr'[v] = wr[v]
      BY <1>2, ReturnFacts
  <2>2. TypeOK'
      BY <1>2, <2>1 DEF TypeOK, CreateBridgePort, WriterPort
  <2>3. /\ TablesAgree' /\ BridgePortsMapped' /\ CpuPortStays'
        /\ ActiveSlots' /\ ReaderState'
      BY <1>2 DEF TablesAgree, Active, BridgePortsMapped, ExistsInSai, CpuPortStays,
         ActiveSlots, ReaderState, CreateBridgePort
  <2>4. OwnersApart'
      BY <2>1 DEF OwnersApart, Owns, Owning
  <2>5. OwnerState'
      BY <1>2, <2>1 DEF OwnerState, Owns, Owning, ExistsInSai, CreateBridgePort
  <2>6. WriterPort'
      BY <2>1 DEF WriterPort
  <2>7. GoneObjects'
    <3> SUFFICES ASSUME NEW s \in Oid, rev'[s] # NoPort, sai'[s] = NoPort
                 PROVE  \E v \in Writer : wr'[v].pc = "map_del" /\ wr'[v].oid = s
        BY DEF GoneObjects, ExistsInSai
    <3>1. PICK v \in Writer : wr[v].pc = "map_del" /\ wr[v].oid = s
        BY DEF GoneObjects, ExistsInSai, CreateBridgePort
    <3> QED BY <2>1, <3>1 DEF CreateBridgePort
  <2>8. BootState'
      BY DEF BootState, ExistsInSai, CreateBridgePort
  <2> QED BY <2>2, <2>3, <2>4, <2>5, <2>6, <2>7, <2>8
<1> QED BY <1>1, <1>2 DEF CreateBridgePort

\* The callback of a create.
LEMMA AnnounceAddStep ==
    ASSUME IInv, NEW w \in Writer, AnnounceAdd(w)
    PROVE  IInv'
<1> USE PortMapAssumption DEF IInv, Oid
<1>1. /\ wr' \in [Writer -> WriterRec]
      /\ wr'[w].pc = "idle"
      /\ \A v \in Writer \ {w} : wr'[v] = wr[v]
    BY ReturnFacts DEF AnnounceAdd
<1>2. TypeOK'
    BY <1>1 DEF TypeOK, AnnounceAdd, WriterPort
<1>3. /\ TablesAgree' /\ BridgePortsMapped' /\ CpuPortStays'
      /\ ActiveSlots' /\ ReaderState'
    BY DEF TablesAgree, Active, BridgePortsMapped, ExistsInSai, CpuPortStays,
       ActiveSlots, ReaderState, AnnounceAdd
<1>4. OwnersApart'
    BY <1>1 DEF OwnersApart, Owns, Owning
<1>5. OwnerState'
    BY <1>1 DEF OwnerState, Owns, Owning, ExistsInSai, AnnounceAdd
<1>6. WriterPort'
    BY <1>1 DEF WriterPort
<1>7. GoneObjects'
  <2> SUFFICES ASSUME NEW s \in Oid, rev'[s] # NoPort, sai'[s] = NoPort
               PROVE  \E v \in Writer : wr'[v].pc = "map_del" /\ wr'[v].oid = s
      BY DEF GoneObjects, ExistsInSai
  <2>1. PICK v \in Writer : wr[v].pc = "map_del" /\ wr[v].oid = s
      BY DEF GoneObjects, ExistsInSai, AnnounceAdd
  <2> QED BY <1>1, <2>1 DEF AnnounceAdd
<1>8. BootState'
    BY DEF BootState, ExistsInSai, AnnounceAdd
<1> QED BY <1>2, <1>3, <1>4, <1>5, <1>6, <1>7, <1>8

\* A delete checks that the port is there.
LEMMA DeleteCheckStep ==
    ASSUME IInv, NEW w \in Writer, NEW p \in HwPort, DeleteCheck(w, p)
    PROVE  IInv'
<1> USE PortMapAssumption DEF IInv, Oid
<1>1. [pc |-> "del_read", port |-> p, oid |-> NullOid] \in WriterRec
    BY DEF WriterRec, WriterPC
<1>2. /\ wr' \in [Writer -> WriterRec]
      /\ wr'[w] = [pc |-> "del_read", port |-> p, oid |-> NullOid]
      /\ \A v \in Writer \ {w} : wr'[v] = wr[v]
    BY <1>1 DEF DeleteCheck, TypeOK
<1>3. TypeOK'
    BY <1>2 DEF TypeOK, DeleteCheck
<1>4. /\ TablesAgree' /\ BridgePortsMapped' /\ CpuPortStays'
      /\ ActiveSlots' /\ ReaderState'
    BY DEF TablesAgree, Active, BridgePortsMapped, ExistsInSai, CpuPortStays,
       ActiveSlots, ReaderState, DeleteCheck
<1>5. OwnersApart'
    BY <1>2 DEF OwnersApart, Owns, OwnerState
<1>6. OwnerState'
    BY DEF OwnerState, Owns, Owning, ExistsInSai, DeleteCheck
<1>7. WriterPort'
    BY <1>2 DEF WriterPort
<1>8. GoneObjects'
    BY DEF GoneObjects, ExistsInSai, DeleteCheck
<1>9. BootState'
    BY DEF BootState, ExistsInSai, DeleteCheck
<1> QED BY <1>3, <1>4, <1>5, <1>6, <1>7, <1>8, <1>9

\* A delete reads the object it will work on.
LEMMA DeleteReadStep ==
    ASSUME IInv, NEW w \in Writer, DeleteRead(w)
    PROVE  IInv'
<1> USE PortMapAssumption DEF IInv, Oid
<1>1. wr[w] \in WriterRec /\ wr[w].port \in HwPort
    BY DEF DeleteRead, TypeOK, WriterPort
<1>2. [wr[w] EXCEPT !.pc = "del_brport", !.oid = tbl[wr[w].port].oid] \in WriterRec
    BY <1>1 DEF WriterRec, WriterPC, TypeOK
<1>3. /\ wr' \in [Writer -> WriterRec]
      /\ wr'[w].pc = "del_brport" /\ wr'[w].port = wr[w].port
      /\ \A v \in Writer \ {w} : wr'[v] = wr[v]
    BY <1>2 DEF DeleteRead, TypeOK
<1>4. TypeOK'
    BY <1>3 DEF TypeOK, DeleteRead
<1>5. /\ TablesAgree' /\ BridgePortsMapped' /\ CpuPortStays'
      /\ ActiveSlots' /\ ReaderState'
    BY DEF TablesAgree, Active, BridgePortsMapped, ExistsInSai, CpuPortStays,
       ActiveSlots, ReaderState, DeleteRead
<1>6. OwnersApart'
    BY <1>3 DEF OwnersApart, Owns, Owning
<1>7. OwnerState'
    BY <1>3 DEF OwnerState, Owns, Owning, ExistsInSai, DeleteRead
<1>8. WriterPort'
    BY <1>1, <1>3 DEF WriterPort
<1>9. GoneObjects'
    BY <1>3 DEF GoneObjects, ExistsInSai, DeleteRead
<1>10. BootState'
    BY DEF BootState, ExistsInSai, DeleteRead
<1> QED BY <1>4, <1>5, <1>6, <1>7, <1>8, <1>9, <1>10

\* The bridge port goes first, or the delete fails.
LEMMA DeleteBridgePortStep ==
    ASSUME IInv, NEW w \in Writer, DeleteBridgePort(w)
    PROVE  IInv'
<1>1. CASE /\ wr[w].oid \in brport
           /\ brport' = brport \ {wr[w].oid}
           /\ Goto(w, "del_port")
  <2> USE PortMapAssumption DEF IInv, Oid
  <2>1. /\ wr' \in [Writer -> WriterRec]
        /\ wr'[w].pc = "del_port" /\ wr'[w].port = wr[w].port /\ wr'[w].oid = wr[w].oid
        /\ \A v \in Writer \ {w} : wr'[v] = wr[v]
      BY <1>1, GotoFacts DEF WriterPC
  <2>2. TypeOK'
      BY <2>1 DEF TypeOK, DeleteBridgePort
  <2>3. TablesAgree' /\ CpuPortStays' /\ ActiveSlots' /\ ReaderState'
      BY DEF TablesAgree, Active, CpuPortStays, ActiveSlots, ReaderState,
         DeleteBridgePort
  <2>4. OwnersApart'
      BY <1>1, <2>1 DEF OwnersApart, Owns, OwnerState
  <2>5. OwnerState'
      BY <1>1, <2>1 DEF OwnerState, Owns, ExistsInSai, BridgePortsMapped, TypeOK,
         DeleteBridgePort
  <2>6. WriterPort'
      BY <2>1 DEF WriterPort, DeleteBridgePort
  <2>7. BridgePortsMapped'
      BY DEF BridgePortsMapped, ExistsInSai, DeleteBridgePort
  <2>8. GoneObjects'
    <3> SUFFICES ASSUME NEW s \in Oid, rev'[s] # NoPort, sai'[s] = NoPort
                 PROVE  \E v \in Writer : wr'[v].pc = "map_del" /\ wr'[v].oid = s
        BY DEF GoneObjects, ExistsInSai
    <3>1. PICK v \in Writer : wr[v].pc = "map_del" /\ wr[v].oid = s
        BY DEF GoneObjects, ExistsInSai, DeleteBridgePort
    <3> QED BY <2>1, <3>1 DEF DeleteBridgePort
  <2>9. BootState'
      BY DEF BootState, ExistsInSai, DeleteBridgePort
  <2> QED BY <2>2, <2>3, <2>4, <2>5, <2>6, <2>7, <2>8, <2>9
<1>2. CASE Return(w) /\ UNCHANGED brport
  <2> USE PortMapAssumption DEF IInv, Oid
  <2>1. /\ wr' \in [Writer -> WriterRec]
        /\ wr'[w].pc = "idle"
        /\ \A v \in Writer \ {w} : wr'[v] = wr[v]
      BY <1>2, ReturnFacts
  <2>2. TypeOK'
      BY <2>1 DEF TypeOK, DeleteBridgePort
  <2>3. /\ TablesAgree' /\ BridgePortsMapped' /\ CpuPortStays'
        /\ ActiveSlots' /\ ReaderState'
      BY DEF TablesAgree, Active, BridgePortsMapped, ExistsInSai, CpuPortStays,
         ActiveSlots, ReaderState, DeleteBridgePort
  <2>4. OwnersApart'
      BY <2>1 DEF OwnersApart, Owns, Owning
  <2>5. OwnerState'
      BY <2>1 DEF OwnerState, Owns, Owning, ExistsInSai, DeleteBridgePort
  <2>6. WriterPort'
      BY <2>1 DEF WriterPort
  <2>7. GoneObjects'
    <3> SUFFICES ASSUME NEW s \in Oid, rev'[s] # NoPort, sai'[s] = NoPort
                 PROVE  \E v \in Writer : wr'[v].pc = "map_del" /\ wr'[v].oid = s
        BY DEF GoneObjects, ExistsInSai
    <3>1. PICK v \in Writer : wr[v].pc = "map_del" /\ wr[v].oid = s
        BY DEF GoneObjects, ExistsInSai, DeleteBridgePort
    <3> QED BY <2>1, <3>1 DEF DeleteBridgePort
  <2>8. BootState'
      BY DEF BootState, ExistsInSai, DeleteBridgePort
  <2> QED BY <2>2, <2>3, <2>4, <2>5, <2>6, <2>7, <2>8
<1> QED BY <1>1, <1>2 DEF DeleteBridgePort

\* remove_port succeeds for one call alone.
LEMMA DeleteSaiPortStep ==
    ASSUME IInv, NEW w \in Writer, DeleteSaiPort(w)
    PROVE  IInv'
<1>1. CASE /\ ExistsInSai(wr[w].oid)
           /\ sai' = [sai EXCEPT ![wr[w].oid] = NoPort]
           /\ Goto(w, "map_del")
           /\ UNCHANGED stuck
  <2> USE PortMapAssumption DEF IInv, Oid
  <2>1. /\ wr' \in [Writer -> WriterRec]
        /\ wr'[w].pc = "map_del" /\ wr'[w].port = wr[w].port /\ wr'[w].oid = wr[w].oid
        /\ \A v \in Writer \ {w} : wr'[v] = wr[v]
      BY <1>1, GotoFacts DEF WriterPC
  <2>2. TypeOK'
      BY <1>1, <2>1 DEF TypeOK, DeleteSaiPort
  <2>3. TablesAgree' /\ CpuPortStays' /\ ActiveSlots' /\ ReaderState'
      BY DEF TablesAgree, Active, CpuPortStays, ActiveSlots, ReaderState, DeleteSaiPort
  <2>4. OwnersApart'
      BY <2>1 DEF OwnersApart, Owns, Owning, DeleteSaiPort
  <2>5. OwnerState'
      BY <1>1, <2>1 DEF OwnerState, Owns, Owning, ExistsInSai, OwnersApart, TypeOK,
         DeleteSaiPort
  <2>6. WriterPort'
      BY <2>1 DEF WriterPort, DeleteSaiPort
  <2>7. BridgePortsMapped'
      BY <1>1 DEF BridgePortsMapped, ExistsInSai, OwnerState, Owns, Owning,
         DeleteSaiPort
  <2>8. GoneObjects'
    <3> SUFFICES ASSUME NEW s \in Oid, rev'[s] # NoPort, sai'[s] = NoPort
                 PROVE  \E v \in Writer : wr'[v].pc = "map_del" /\ wr'[v].oid = s
        BY DEF GoneObjects, ExistsInSai
    <3>1. CASE s = wr[w].oid
        BY <2>1, <3>1
    <3>2. CASE s # wr[w].oid
      <4>1. PICK v \in Writer : wr[v].pc = "map_del" /\ wr[v].oid = s
        BY <1>1, <3>2 DEF GoneObjects, ExistsInSai, DeleteSaiPort
      <4> QED BY <2>1, <4>1
    <3> QED BY <3>1, <3>2
  <2>9. BootState'
      BY <1>1 DEF BootState, ExistsInSai, OwnerState, Owns, Owning, DeleteSaiPort
  <2> QED BY <2>2, <2>3, <2>4, <2>5, <2>6, <2>7, <2>8, <2>9
<1>2. CASE /\ Return(w)
           /\ UNCHANGED sai
           /\ stuck' = stuck \cup {wr[w].port}
  <2> USE PortMapAssumption DEF IInv, Oid
  <2>1. /\ wr' \in [Writer -> WriterRec]
        /\ wr'[w].pc = "idle"
        /\ \A v \in Writer \ {w} : wr'[v] = wr[v]
      BY <1>2, ReturnFacts
  <2>2. TypeOK'
      BY <2>1 DEF TypeOK, DeleteSaiPort, WriterPort
  <2>3. /\ TablesAgree' /\ BridgePortsMapped' /\ CpuPortStays'
        /\ ActiveSlots' /\ ReaderState'
      BY <1>2 DEF TablesAgree, Active, BridgePortsMapped, ExistsInSai, CpuPortStays,
         ActiveSlots, ReaderState, DeleteSaiPort
  <2>4. OwnersApart'
      BY <2>1 DEF OwnersApart, Owns, Owning
  <2>5. OwnerState'
      BY <1>2, <2>1 DEF OwnerState, Owns, Owning, ExistsInSai, DeleteSaiPort
  <2>6. WriterPort'
      BY <2>1 DEF WriterPort
  <2>7. GoneObjects'
    <3> SUFFICES ASSUME NEW s \in Oid, rev'[s] # NoPort, sai'[s] = NoPort
                 PROVE  \E v \in Writer : wr'[v].pc = "map_del" /\ wr'[v].oid = s
        BY DEF GoneObjects, ExistsInSai
    <3>1. PICK v \in Writer : wr[v].pc = "map_del" /\ wr[v].oid = s
        BY <1>2 DEF GoneObjects, ExistsInSai, DeleteSaiPort
    <3> QED BY <2>1, <3>1 DEF DeleteSaiPort
  <2>8. BootState'
      BY <1>2 DEF BootState, ExistsInSai, DeleteSaiPort
  <2> QED BY <2>2, <2>3, <2>4, <2>5, <2>6, <2>7, <2>8
<1> QED BY <1>1, <1>2 DEF DeleteSaiPort

\* The call that removed the object takes it out of both tables.
LEMMA MapDeleteStep ==
    ASSUME IInv, NEW w \in Writer, MapDelete(w)
    PROVE  IInv'
<1> USE PortMapAssumption DEF IInv, Oid
<1> DEFINE s == wr[w].oid
           p == rev[s]
<1>1. s \in SaiPort /\ p \in HwPort /\ Active(p) /\ tbl[p].oid = s
    BY DEF MapDelete, OwnerState, Owns, Owning, TablesAgree, TypeOK
<1>2. /\ Unfill(p, s)
      /\ wr' = [wr EXCEPT ![w].pc = "announce_del", ![w].port = p]
    BY <1>1 DEF MapDelete
<1>3. wr[w] \in WriterRec
    BY DEF TypeOK
<1>4. [wr[w] EXCEPT !.pc = "announce_del", !.port = p] \in WriterRec
    BY <1>1, <1>3 DEF WriterRec, WriterPC
<1>5. /\ wr' \in [Writer -> WriterRec]
      /\ wr'[w].pc = "announce_del" /\ wr'[w].port = p /\ wr'[w].oid = s
      /\ \A v \in Writer \ {w} : wr'[v] = wr[v]
    BY <1>2, <1>4 DEF TypeOK
<1>6. /\ tbl' \in [HwPort -> [oid : Oid \cup {NullOid}, active : BOOLEAN]]
      /\ ~tbl'[p].active
      /\ \A q \in HwPort : tbl'[q].oid = tbl[q].oid
      /\ \A q \in HwPort \ {p} : tbl'[q] = tbl[q]
    BY <1>1, <1>2 DEF Unfill, TypeOK
<1>7. /\ rev' \in [Oid -> HwPort \cup {NoPort}]
      /\ rev'[s] = NoPort
      /\ \A t \in Oid \ {s} : rev'[t] = rev[t]
    BY <1>1, <1>2 DEF Unfill, TypeOK
<1> HIDE DEF s, p
<1>8. TypeOK'
    BY <1>5, <1>6, <1>7 DEF TypeOK, MapDelete
<1>9. TablesAgree'
    BY <1>1, <1>6, <1>7 DEF TablesAgree, Active
<1>10. OwnersApart'
    BY <1>5 DEF OwnersApart, Owns, Owning
<1>11. OwnerState'
    BY <1>5, <1>7 DEF OwnerState, Owns, Owning, ExistsInSai, OwnersApart, MapDelete, s
<1>12. WriterPort'
    BY <1>1, <1>5 DEF WriterPort
<1>13. BridgePortsMapped'
    BY <1>7 DEF BridgePortsMapped, ExistsInSai, OwnerState, Owns, Owning, TypeOK,
       MapDelete, s
<1>14. GoneObjects'
  <2> SUFFICES ASSUME NEW t \in Oid, rev'[t] # NoPort, sai[t] = NoPort
               PROVE  \E v \in Writer : wr'[v].pc = "map_del" /\ wr'[v].oid = t
      BY DEF GoneObjects, ExistsInSai, MapDelete
  <2>1. t # s /\ rev[t] # NoPort
      BY <1>7
  <2>2. PICK v \in Writer : wr[v].pc = "map_del" /\ wr[v].oid = t
      BY <2>1 DEF GoneObjects, ExistsInSai
  <2>3. v # w
      BY <2>1, <2>2 DEF s
  <2> QED BY <1>5, <2>2, <2>3
<1>15. BootState'
    BY DEF BootState, ExistsInSai, MapDelete
<1>16. CpuPortStays'
    BY <1>1, <1>6, <1>7 DEF CpuPortStays, Active, MapDelete
<1>17. ActiveSlots'
    BY <1>6 DEF ActiveSlots, Active
<1>18. ReaderState'
    BY <1>6 DEF ReaderState, MapDelete
<1> QED BY <1>8, <1>9, <1>10, <1>11, <1>12, <1>13, <1>14, <1>15, <1>16, <1>17, <1>18

\* The callback of a delete.
LEMMA AnnounceDeleteStep ==
    ASSUME IInv, NEW w \in Writer, AnnounceDelete(w)
    PROVE  IInv'
<1> USE PortMapAssumption DEF IInv, Oid
<1>1. /\ wr' \in [Writer -> WriterRec]
      /\ wr'[w].pc = "idle"
      /\ \A v \in Writer \ {w} : wr'[v] = wr[v]
    BY ReturnFacts DEF AnnounceDelete
<1>2. TypeOK'
    BY <1>1 DEF TypeOK, AnnounceDelete
<1>3. /\ TablesAgree' /\ BridgePortsMapped' /\ CpuPortStays'
      /\ ActiveSlots' /\ ReaderState'
    BY DEF TablesAgree, Active, BridgePortsMapped, ExistsInSai, CpuPortStays,
       ActiveSlots, ReaderState, AnnounceDelete
<1>4. OwnersApart'
    BY <1>1 DEF OwnersApart, Owns, Owning
<1>5. OwnerState'
    BY <1>1 DEF OwnerState, Owns, Owning, ExistsInSai, AnnounceDelete
<1>6. WriterPort'
    BY <1>1 DEF WriterPort
<1>7. GoneObjects'
  <2> SUFFICES ASSUME NEW s \in Oid, rev'[s] # NoPort, sai'[s] = NoPort
               PROVE  \E v \in Writer : wr'[v].pc = "map_del" /\ wr'[v].oid = s
      BY DEF GoneObjects, ExistsInSai
  <2>1. PICK v \in Writer : wr[v].pc = "map_del" /\ wr[v].oid = s
      BY DEF GoneObjects, ExistsInSai, AnnounceDelete
  <2> QED BY <1>1, <2>1 DEF AnnounceDelete
<1>8. BootState'
    BY DEF BootState, ExistsInSai, AnnounceDelete
<1> QED BY <1>2, <1>3, <1>4, <1>5, <1>6, <1>7, <1>8

\* A lookup sees the slot active.
LEMMA LookupCheckStep ==
    ASSUME IInv, NEW r \in Reader, NEW p \in HwPort, LookupCheck(r, p)
    PROVE  IInv'
<1> USE PortMapAssumption DEF IInv, Oid
<1> DEFINE e == [pc |-> "read", port |-> p, oid |-> NullOid, seen |-> {tbl[p].oid}, len |-> 0]
<1>1. {tbl[p].oid} \in SUBSET Oid
    BY DEF LookupCheck, ActiveSlots
<1>2. e \in ReaderRec
    BY <1>1 DEF ReaderRec, ReaderPC
<1>3. /\ rd' \in [Reader -> ReaderRec]
      /\ rd'[r].pc = "read" /\ rd'[r].port = p /\ rd'[r].seen = {tbl[p].oid}
      /\ \A q \in Reader \ {r} : rd'[q] = rd[q]
    BY <1>2 DEF LookupCheck, TypeOK
<1>4. TypeOK'
    BY <1>3 DEF TypeOK, LookupCheck
<1>5. /\ TablesAgree' /\ OwnersApart' /\ OwnerState' /\ WriterPort'
      /\ BridgePortsMapped' /\ GoneObjects' /\ CpuPortStays' /\ ActiveSlots'
    BY DEF TablesAgree, Active, OwnersApart, Owns, OwnerState, ExistsInSai, WriterPort,
       BridgePortsMapped, GoneObjects, CpuPortStays, ActiveSlots, LookupCheck
<1>6. BootState'
    BY DEF BootState, ExistsInSai, LookupCheck
<1>7. ReaderState'
    BY DEF ReaderState, LookupCheck
<1> QED BY <1>4, <1>5, <1>6, <1>7

\* A lookup reads the object after that.
LEMMA LookupReadStep ==
    ASSUME IInv, NEW r \in Reader, LookupRead(r)
    PROVE  IInv'
<1> USE PortMapAssumption DEF IInv, Oid
<1>1. rd[r] \in ReaderRec /\ rd[r].port \in HwPort
    BY DEF LookupRead, TypeOK, ReaderState
<1>2. [rd[r] EXCEPT !.pc = "answered", !.oid = tbl[rd[r].port].oid] \in ReaderRec
    BY <1>1 DEF ReaderRec, ReaderPC, TypeOK
<1>3. /\ rd' \in [Reader -> ReaderRec]
      /\ rd'[r].pc = "answered" /\ rd'[r].oid = tbl[rd[r].port].oid
      /\ rd'[r].seen = rd[r].seen
      /\ \A q \in Reader \ {r} : rd'[q] = rd[q]
    BY <1>2 DEF LookupRead, TypeOK
<1>4. TypeOK'
    BY <1>3 DEF TypeOK, LookupRead
<1>5. /\ TablesAgree' /\ OwnersApart' /\ OwnerState' /\ WriterPort'
      /\ BridgePortsMapped' /\ GoneObjects' /\ CpuPortStays' /\ ActiveSlots'
    BY DEF TablesAgree, Active, OwnersApart, Owns, OwnerState, ExistsInSai, WriterPort,
       BridgePortsMapped, GoneObjects, CpuPortStays, ActiveSlots, LookupRead
<1>6. BootState'
    BY DEF BootState, ExistsInSai, LookupRead
<1>7. ReaderState'
    BY <1>3 DEF ReaderState, LookupRead
<1> QED BY <1>4, <1>5, <1>6, <1>7

\* A walk reads the length of the table.
LEMMA WalkLenStep ==
    ASSUME IInv, NEW r \in Reader, WalkLen(r)
    PROVE  IInv'
<1> USE PortMapAssumption DEF IInv, Oid
<1> DEFINE e == [IdleReader EXCEPT !.pc = "walk", !.len = PortsLen]
<1>1. PortsLen \in Int
  <2>1. IsFiniteSet(Filled)
    BY FS_Subset DEF Filled
  <2> QED BY <2>1, FS_CardinalityType DEF PortsLen
<1>2. e \in ReaderRec
    BY <1>1 DEF ReaderRec, ReaderPC, IdleReader
<1>3. /\ rd' \in [Reader -> ReaderRec]
      /\ rd'[r].pc = "walk"
      /\ \A q \in Reader \ {r} : rd'[q] = rd[q]
    BY <1>2 DEF WalkLen, TypeOK
<1>4. TypeOK'
    BY <1>3 DEF TypeOK, WalkLen
<1>5. /\ TablesAgree' /\ OwnersApart' /\ OwnerState' /\ WriterPort'
      /\ BridgePortsMapped' /\ GoneObjects' /\ CpuPortStays' /\ ActiveSlots'
    BY DEF TablesAgree, Active, OwnersApart, Owns, OwnerState, ExistsInSai, WriterPort,
       BridgePortsMapped, GoneObjects, CpuPortStays, ActiveSlots, WalkLen
<1>6. BootState'
    BY DEF BootState, ExistsInSai, WalkLen
<1>7. ReaderState'
    BY DEF ReaderState, WalkLen
<1> QED BY <1>4, <1>5, <1>6, <1>7

\* A walk copies the table.
LEMMA WalkCopyStep ==
    ASSUME IInv, NEW r \in Reader, WalkCopy(r)
    PROVE  IInv'
<1> USE PortMapAssumption DEF IInv, Oid
<1> DEFINE e == IF WalkFits(rd[r].len) THEN [rd[r] EXCEPT !.pc = "copied"] ELSE IdleReader
<1>1. rd[r] \in ReaderRec
    BY DEF TypeOK
<1>2. e \in ReaderRec /\ e.pc \in {"copied", "idle"}
    BY <1>1 DEF ReaderRec, ReaderPC, IdleReader
<1>3. rd' = [rd EXCEPT ![r] = e]
    BY DEF WalkCopy
<1> HIDE DEF e
<1>4. /\ rd' \in [Reader -> ReaderRec]
      /\ rd'[r].pc \in {"copied", "idle"}
      /\ \A q \in Reader \ {r} : rd'[q] = rd[q]
    BY <1>2, <1>3 DEF TypeOK
<1>5. TypeOK'
    BY <1>4 DEF TypeOK, WalkCopy
<1>6. /\ TablesAgree' /\ OwnersApart' /\ OwnerState' /\ WriterPort'
      /\ BridgePortsMapped' /\ GoneObjects' /\ CpuPortStays' /\ ActiveSlots'
    BY DEF TablesAgree, Active, OwnersApart, Owns, OwnerState, ExistsInSai, WriterPort,
       BridgePortsMapped, GoneObjects, CpuPortStays, ActiveSlots, WalkCopy
<1>7. BootState'
    BY DEF BootState, ExistsInSai, WalkCopy
<1>8. ReaderState'
    BY <1>4 DEF ReaderState, WalkCopy
<1> QED BY <1>5, <1>6, <1>7, <1>8

\* A reader returns.
LEMMA ReaderDoneStep ==
    ASSUME IInv, NEW r \in Reader, ReaderDone(r)
    PROVE  IInv'
<1> USE PortMapAssumption DEF IInv, Oid
<1>1. IdleReader \in ReaderRec
    BY DEF ReaderRec, ReaderPC, IdleReader
<1>2. /\ rd' \in [Reader -> ReaderRec]
      /\ rd'[r] = IdleReader
      /\ \A q \in Reader \ {r} : rd'[q] = rd[q]
    BY <1>1 DEF ReaderDone, TypeOK
<1>3. TypeOK'
    BY <1>2 DEF TypeOK, ReaderDone
<1>4. /\ TablesAgree' /\ OwnersApart' /\ OwnerState' /\ WriterPort'
      /\ BridgePortsMapped' /\ GoneObjects' /\ CpuPortStays' /\ ActiveSlots'
    BY DEF TablesAgree, Active, OwnersApart, Owns, OwnerState, ExistsInSai, WriterPort,
       BridgePortsMapped, GoneObjects, CpuPortStays, ActiveSlots, ReaderDone
<1>5. BootState'
    BY DEF BootState, ExistsInSai, ReaderDone
<1>6. ReaderState'
    BY DEF ReaderState, ReaderDone, IdleReader
<1> QED BY <1>3, <1>4, <1>5, <1>6
-----------------------------------------------------------------------------
\* A step of somebody else.
LEMMA StutterStep == ASSUME IInv, UNCHANGED vars PROVE IInv'
    BY DEF IInv, vars, TypeOK, TablesAgree, OwnersApart, OwnerState, WriterPort,
       BridgePortsMapped, GoneObjects, BootState, CpuPortStays, ActiveSlots,
       ReaderState, Active, ExistsInSai, Owns

\* Every step keeps the invariant: one lemma for each action.
LEMMA NextStep == IInv /\ [Next]_vars => IInv'
<1> SUFFICES ASSUME IInv, [Next]_vars PROVE IInv'
    OBVIOUS
<1>1. CASE Boot
    BY <1>1, BootCpuStep, BootPortStep, BootBridgePortsStep, BootFailsStep, StutterStep
    DEF Boot, Down
<1>2. CASE \E w \in Writer : WriterStep(w)
    BY <1>2, CreateSaiPortStep, MapAddStep, CreateBridgePortStep, AnnounceAddStep,
       DeleteCheckStep, DeleteReadStep, DeleteBridgePortStep, DeleteSaiPortStep,
       MapDeleteStep, AnnounceDeleteStep DEF WriterStep
<1>3. CASE \E r \in Reader : ReaderStep(r)
    BY <1>3, LookupCheckStep, LookupReadStep, WalkLenStep, WalkCopyStep, ReaderDoneStep
    DEF ReaderStep
<1>4. CASE UNCHANGED vars
    BY <1>4, StutterStep
<1> QED BY <1>1, <1>2, <1>3, <1>4 DEF Next

\* IInv holds in every state of every instance.
THEOREM Invariance == Spec => []IInv
    BY InitIInv, NextStep, PTL DEF Spec

\* The tables, SAI and the threads stay within their types.
THEOREM TypeCorrect == Spec => []TypeOK
    BY Invariance, PTL DEF IInv

\* The forward and the reverse table of the port map are inverses, whatever
\* number of threads create and delete ports.
THEOREM TablesAlwaysAgree == Spec => []TablesAgree
    BY Invariance, PTL DEF IInv

\* A lookup answers with an object its index was mapped to during the call,
\* although it takes the lock twice.
THEOREM LookupsLinearizable == Spec => []LookupLinearizable
<1>1. IInv => LookupLinearizable
    BY DEF IInv, ReaderState, LookupLinearizable
<1> QED BY <1>1, Invariance, PTL

\* A delete that has removed the SAI port finds the entry it has to erase.
THEOREM MapDeleteAlwaysFindsEntry == Spec => []MapDeleteFindsEntry
<1>1. IInv => MapDeleteFindsEntry
    BY DEF IInv, MapDeleteFindsEntry, OwnerState, Owns, Owning, TablesAgree, TypeOK, Oid
<1> QED BY <1>1, Invariance, PTL

\* A port that can be looked up exists in SAI, but for the one step of a
\* delete between remove_port and the erasure of the entry.
THEOREM MappedPortsAlwaysExist == Spec => []MappedPortsExist
<1>1. ASSUME IInv, NEW p \in HwPort, Active(p), ~ExistsInSai(tbl[p].oid)
      PROVE  \E w \in Writer : wr[w].pc = "map_del" /\ wr[w].oid = tbl[p].oid
  <2>1. tbl[p].oid \in Oid /\ rev[tbl[p].oid] # NoPort
    BY <1>1, PortMapAssumption DEF IInv, ActiveSlots, TablesAgree
  <2> QED BY <1>1, <2>1 DEF IInv, GoneObjects
<1>2. IInv => MappedPortsExist
    BY <1>1 DEF MappedPortsExist
<1> QED BY <1>2, Invariance, PTL

\* The CPU port keeps its slot.
THEOREM CpuPortAlwaysStays == Spec => []CpuPortStays
    BY Invariance, PTL DEF IInv

-----------------------------------------------------------------------------
(* The refinement: the forward table is the map of the registry.           *)

\* What the registry sees of the forward table.
RegMap == [p \in HwPort |-> IF Active(p) THEN tbl[p].oid ELSE NullOid]

\* Filling a free slot with an unmapped object registers it.
LEMMA FillRegisters ==
    ASSUME IInv, NEW p \in HwPort, NEW s \in Oid,
           ~Active(p), rev[s] = NoPort, Fill(p, s)
    PROVE  Registry!Register(p, s)
<1>1. RegMap[p] = NullOid
    BY DEF RegMap
<1>2. \A q \in HwPort : RegMap[q] # s
    BY PortMapAssumption DEF RegMap, IInv, TablesAgree, Oid
<1>3. RegMap' = [RegMap EXCEPT ![p] = s]
    BY DEF RegMap, Fill, Active, IInv, TypeOK
<1> QED BY <1>1, <1>2, <1>3 DEF Registry!Register, RegMap

\* Taking an object out of the slot that holds it unregisters the port.
LEMMA UnfillUnregisters ==
    ASSUME IInv, NEW p \in HwPort, NEW s \in Oid,
           Active(p), tbl[p].oid = s, Unfill(p, s)
    PROVE  Registry!Unregister(p)
<1>1. RegMap[p] # NullOid
    BY PortMapAssumption DEF RegMap, Oid
<1>2. RegMap' = [RegMap EXCEPT ![p] = NullOid]
    BY DEF RegMap, Unfill, Active, IInv, TypeOK
<1> QED BY <1>1, <1>2 DEF Registry!Unregister, RegMap

\* Every step of the port map is a step of the registry or leaves it alone.
LEMMA StepRefines ==
    ASSUME IInv, [Next]_vars
    PROVE  [Registry!Next]_RegMap
<1>1. CASE UNCHANGED tbl
    BY <1>1 DEF RegMap, Active
<1>2. ASSUME NEW p \in HwPort, NEW s \in Oid, Registry!Register(p, s)
      PROVE  Registry!Next
    BY <1>2 DEF Registry!Next
<1>3. ASSUME NEW p \in HwPort, Registry!Unregister(p)
      PROVE  Registry!Next
    BY <1>3 DEF Registry!Next
<1>4. CASE BootCpu
  <2>1. ~Active(CpuPort) /\ rev[CpuOid] = NoPort
    BY <1>4, PortMapAssumption DEF IInv, BootState, BootCpu, TablesAgree, TypeOK, Oid
  <2> QED BY <2>1, <1>2, <1>4, FillRegisters, PortMapAssumption DEF BootCpu, Oid
<1>5. ASSUME NEW s \in SaiPort, BootPort(s)
      PROVE  UNCHANGED tbl \/ Registry!Next
  <2>1. sai[s] \in HwPort
    BY <1>5, PortMapAssumption DEF IInv, TypeOK, BootPort, ExistsInSai, Oid
  <2> QED BY <2>1, <1>2, <1>5, FillRegisters DEF BootPort, Oid
<1>6. ASSUME NEW w \in Writer, MapAdd(w)
      PROVE  UNCHANGED tbl \/ Registry!Next
  <2>1. wr[w].port \in HwPort /\ wr[w].oid \in Oid /\ rev[wr[w].oid] = NoPort
    BY <1>6 DEF IInv, MapAdd, OwnerState, Owns, Owning, WriterPort, Oid
  <2> QED BY <2>1, <1>2, <1>6, FillRegisters DEF MapAdd
<1>7. ASSUME NEW w \in Writer, MapDelete(w)
      PROVE  UNCHANGED tbl \/ Registry!Next
  <2>1. wr[w].oid \in Oid
    BY <1>7 DEF IInv, MapDelete, OwnerState, Owns, Owning, Oid
  <2>2. rev[wr[w].oid] \in HwPort \cup {NoPort}
    BY <2>1 DEF IInv, TypeOK
  <2> QED BY <2>1, <2>2, <1>3, <1>7, UnfillUnregisters DEF MapDelete
<1> QED BY <1>1, <1>4, <1>5, <1>6, <1>7
        DEF Next, Boot, Down, WriterStep, ReaderStep, vars, BootBridgePorts, BootFails,
            CreateSaiPort, CreateBridgePort, AnnounceAdd, DeleteCheck, DeleteRead,
            DeleteBridgePort, DeleteSaiPort, AnnounceDelete, LookupCheck, LookupRead,
            WalkLen, WalkCopy, ReaderDone

\* The forward table registers and unregisters one port at a time, never gives
\* an object to two ports and never replaces the object of a port.
THEOREM PortMapImplementsRegistry == Spec => ImplementsRegistry
<1>1. Init => Registry!Init
    BY DEF Init, EmptySlot, Active, Registry!Init
<1>2. IInv /\ [Next]_vars => [Registry!Next]_RegMap
    BY StepRefines
<1> QED BY <1>1, <1>2, Invariance, PTL
        DEF Spec, ImplementsRegistry, Registry!Spec, RegMap

-----------------------------------------------------------------------------
(* One caller at a time: what IInv does not need, because it is false of   *)
(* two calls that overlap.                                                 *)

OneCaller == \A v, w \in Writer : v = w

\* A port of SAI that is mapped is mapped to the index it was created on.
MappedWhereCreated ==
    \A s \in SaiPort : ExistsInSai(s) /\ rev[s] # NoPort => rev[s] = sai[s]

\* The lanes of the port that a create has just made are nobody else's.
LanesHeld ==
    \A w \in Writer : wr[w].pc = "map_add" =>
        /\ sai[wr[w].oid] = wr[w].port
        /\ \A s \in SaiPort \ {wr[w].oid} : sai[s] # wr[w].port

\* A port of SAI is in the map, or the create that made it has yet to add it.
OrphansAdded ==
    boot = "up" => \A s \in SaiPort : ExistsInSai(s) =>
        \/ rev[s] # NoPort \/ sai[s] = CpuPort
        \/ \E w \in Writer : wr[w].pc = "map_add" /\ wr[w].oid = s

\* Between the map's two changes a call works on the object its index holds.
OnSlot == {"create_brport", "announce", "del_brport", "del_port", "map_del"}
CallOnSlot ==
    \A w \in Writer :
        /\ wr[w].pc \in OnSlot => Active(wr[w].port) /\ tbl[wr[w].port].oid = wr[w].oid
        /\ wr[w].pc = "announce" => wr[w].oid \in brport
        /\ wr[w].pc = "del_read" => Active(wr[w].port)
        /\ wr[w].pc = "announce_del" => ~Active(wr[w].port)

\* What was announced is mapped, but for the deletion still to be announced.
KnownMapped ==
    \A p \in known : \/ Active(p)
                     \/ \E w \in Writer : wr[w].pc = "announce_del" /\ wr[w].port = p

\* A mapped port has its bridge port and was announced, or a call is at it.
Complete(p) ==
    \/ tbl[p].oid \in brport /\ p \in known
    \/ \E w \in Writer : /\ wr[w].port = p
                         /\ wr[w].pc \in {"create_brport", "announce", "del_port", "map_del"}
MappedComplete ==
    /\ boot = "up" => \A p \in HwPort \ (stuck \cup {CpuPort}) : Active(p) => Complete(p)
    /\ boot = "ports" => \A p \in HwPort \ {CpuPort} : Active(p) => p \in known

OneCallerInv ==
    /\ MappedWhereCreated
    /\ LanesHeld
    /\ OrphansAdded
    /\ CallOnSlot
    /\ KnownMapped
    /\ MappedComplete

\* Before the start nothing is mapped and nobody calls.
LEMMA InitOneCaller == Init => OneCallerInv
<1> SUFFICES ASSUME Init PROVE OneCallerInv
    OBVIOUS
<1> USE PortMapAssumption
    DEF Init, Oid, EmptySlot, IdleWriter, Active, ExistsInSai
<1>1. MappedWhereCreated /\ LanesHeld /\ OrphansAdded
    BY DEF MappedWhereCreated, LanesHeld, OrphansAdded
<1>2. CallOnSlot /\ KnownMapped /\ MappedComplete
    BY DEF CallOnSlot, OnSlot, KnownMapped, MappedComplete
<1> QED BY <1>1, <1>2 DEF OneCallerInv

\* The start: what is mapped exists in SAI, was created there, and is known.
LEMMA BootOneCaller ==
    ASSUME IInv, OneCallerInv, Boot
    PROVE  OneCallerInv'
<1> USE PortMapAssumption DEF IInv, OneCallerInv, Oid
<1>1. CASE BootCpu
  <2>1. FillResult(CpuPort, CpuOid)
    BY <1>1, FillFacts DEF BootCpu, BootState, TablesAgree, TypeOK
  <2>2. MappedWhereCreated' /\ LanesHeld' /\ OrphansAdded'
    BY <1>1, <2>1 DEF MappedWhereCreated, LanesHeld, OrphansAdded, ExistsInSai, BootCpu,
       FillResult, BootState
  <2>3. CallOnSlot'
    BY <1>1, <2>1 DEF CallOnSlot, OnSlot, BootCpu, BootState
  <2>4. KnownMapped'
    BY <1>1 DEF KnownMapped, Active, BootCpu, BootState, TypeOK
  <2>5. MappedComplete'
    BY <1>1, <2>1 DEF MappedComplete, Active, BootCpu, FillResult, BootState
  <2> QED BY <2>2, <2>3, <2>4, <2>5
<1>2. ASSUME NEW s \in SaiPort, BootPort(s), Active(sai[s])
      PROVE  OneCallerInv'
  <2>1. MappedWhereCreated' /\ LanesHeld' /\ OrphansAdded'
    BY <1>2 DEF MappedWhereCreated, LanesHeld, OrphansAdded, ExistsInSai, BootPort
  <2>2. CallOnSlot' /\ KnownMapped' /\ MappedComplete'
    BY <1>2 DEF CallOnSlot, KnownMapped, MappedComplete, Active, BootPort
  <2> QED BY <2>1, <2>2
<1>3. ASSUME NEW s \in SaiPort, BootPort(s), ~Active(sai[s])
      PROVE  OneCallerInv'
  <2>1. sai[s] \in HwPort
    BY <1>3 DEF BootPort, ExistsInSai, TypeOK
  <2>2. FillResult(sai[s], s)
    BY <1>3, <2>1, FillFacts DEF BootPort
  <2>3. MappedWhereCreated' /\ LanesHeld' /\ OrphansAdded'
    BY <1>3, <2>2 DEF MappedWhereCreated, LanesHeld, OrphansAdded, ExistsInSai, BootPort,
       FillResult, BootState
  <2>4. CallOnSlot'
    BY <1>3, <2>1 DEF CallOnSlot, OnSlot, BootPort, BootState
  <2>5. KnownMapped'
    BY <1>3, <2>1, <2>2 DEF KnownMapped, Active, BootPort, FillResult, BootState, TypeOK
  <2>6. MappedComplete'
    BY <1>3, <2>1, <2>2 DEF MappedComplete, Active, BootPort, FillResult
  <2> QED BY <2>3, <2>4, <2>5, <2>6
<1>4. CASE BootBridgePorts
  <2>1. MappedWhereCreated' /\ LanesHeld' /\ OrphansAdded'
    BY <1>4 DEF MappedWhereCreated, LanesHeld, OrphansAdded, ExistsInSai, BootBridgePorts
  <2>2. CallOnSlot' /\ KnownMapped'
    BY <1>4 DEF CallOnSlot, KnownMapped, OnSlot, Active, BootBridgePorts, BootState
  <2>3. ASSUME NEW p \in HwPort \ {CpuPort}, Active(p)
        PROVE  tbl[p].oid \in brport' /\ p \in known
    <3>1. tbl[p].oid \in Oid /\ rev[tbl[p].oid] = p
      BY <2>3 DEF ActiveSlots, TablesAgree
    <3>2. tbl[p].oid \in SaiPort
      BY <3>1, <2>3, <1>4 DEF CpuPortStays, BootBridgePorts
    <3>3. ExistsInSai(tbl[p].oid)
      BY <3>1, <1>4 DEF GoneObjects, BootState, BootBridgePorts
    <3> QED BY <3>2, <3>3, <2>3, <1>4 DEF BootBridgePorts, MappedComplete
  <2>4. MappedComplete'
    BY <2>3, <1>4 DEF MappedComplete, Complete, Active, BootBridgePorts
  <2> QED BY <2>1, <2>2, <2>4
<1>5. CASE BootFails
  BY <1>5 DEF MappedWhereCreated, LanesHeld, OrphansAdded, CallOnSlot, KnownMapped,
     MappedComplete, Active, ExistsInSai, BootFails
<1>6. CASE Down
  BY <1>6 DEF MappedWhereCreated, LanesHeld, OrphansAdded, CallOnSlot, KnownMapped,
     MappedComplete, Complete, Active, ExistsInSai, Down, vars
<1> QED BY <1>1, <1>2, <1>3, <1>4, <1>5, <1>6 DEF Boot

\* create_port is only given free lanes, and no object a call still holds.
LEMMA CreateOneCaller ==
    ASSUME IInv, OneCallerInv, OneCaller, NEW w \in Writer,
           \E p \in HwPort, s \in SaiPort : CreateSaiPort(w, p, s)
    PROVE  OneCallerInv'
<1> USE PortMapAssumption DEF IInv, OneCallerInv, Oid
<1>1. PICK p \in HwPort, s \in SaiPort : CreateSaiPort(w, p, s)
    OBVIOUS
<1>2. /\ wr'[w] = [pc |-> "map_add", port |-> p, oid |-> s]
      /\ \A v \in Writer : v = w
    BY <1>1 DEF CreateSaiPort, TypeOK, OneCaller
<1>3. /\ ~ExistsInSai(s) /\ LanesFree(p)
      /\ sai'[s] = p
      /\ \A t \in Oid \ {s} : sai'[t] = sai[t]
    BY <1>1 DEF CreateSaiPort, Fresh, TypeOK
<1>4. rev[s] = NoPort
    BY <1>1, <1>2, <1>3 DEF GoneObjects, CreateSaiPort
<1>5. MappedWhereCreated'
    BY <1>1, <1>3, <1>4 DEF MappedWhereCreated, ExistsInSai, CreateSaiPort
<1>6. LanesHeld'
    BY <1>2, <1>3 DEF LanesHeld, LanesFree
<1>7. OrphansAdded'
    BY <1>1, <1>2, <1>3 DEF OrphansAdded, ExistsInSai, CreateSaiPort
<1>8. CallOnSlot'
    BY <1>2 DEF CallOnSlot, OnSlot
<1>9. KnownMapped'
    BY <1>1, <1>2 DEF KnownMapped, Active, CreateSaiPort
<1>10. MappedComplete'
    BY <1>1, <1>2 DEF MappedComplete, Complete, Active, CreateSaiPort
<1> QED BY <1>5, <1>6, <1>7, <1>8, <1>9, <1>10

\* Only the index of the CPU port can be in use when the lanes are free.
LEMMA MapAddOneCaller ==
    ASSUME IInv, OneCallerInv, OneCaller, NEW w \in Writer, MapAdd(w)
    PROVE  OneCallerInv'
<1> USE PortMapAssumption DEF IInv, OneCallerInv, Oid
<1>1. /\ wr[w].pc = "map_add" /\ wr[w].port \in HwPort
      /\ wr[w].oid \in SaiPort /\ rev[wr[w].oid] = NoPort
      /\ \A v \in Writer : v = w
    BY DEF MapAdd, WriterPort, OwnerState, Owns, Owning, OneCaller
<1>2. CASE Active(wr[w].port)
  <2>1. wr'[w].pc = "idle"
    BY <1>2, ReturnFacts DEF MapAdd
  <2>2. wr[w].port = CpuPort
    <3> DEFINE t == tbl[wr[w].port].oid
    <3>1. t \in Oid /\ rev[t] = wr[w].port
      BY <1>1, <1>2 DEF ActiveSlots, TablesAgree
    <3>2. CASE t = CpuOid
      BY <3>1, <3>2, <1>1 DEF BootState, CpuPortStays
    <3>3. CASE t \in SaiPort
      <4>1. ExistsInSai(t)
        BY <3>1, <1>1 DEF GoneObjects
      <4>2. sai[t] = wr[w].port
        BY <4>1, <3>1, <3>3, <1>1 DEF MappedWhereCreated
      <4> QED BY <4>2, <3>1, <3>3, <1>1 DEF LanesHeld
    <3> QED BY <3>1, <3>2, <3>3
  <2>3. MappedWhereCreated' /\ LanesHeld'
    BY <1>2, <1>1, <2>1 DEF MappedWhereCreated, LanesHeld, ExistsInSai, MapAdd
  <2>4. OrphansAdded'
    BY <1>1, <1>2, <2>2 DEF OrphansAdded, LanesHeld, ExistsInSai, MapAdd
  <2>5. CallOnSlot' /\ KnownMapped'
    BY <1>1, <1>2, <2>1 DEF CallOnSlot, OnSlot, KnownMapped, Active, MapAdd
  <2>6. MappedComplete'
    BY <1>1, <1>2, <2>1 DEF MappedComplete, Complete, Active, MapAdd
  <2> QED BY <2>3, <2>4, <2>5, <2>6
<1>3. CASE ~Active(wr[w].port)
  <2>1. /\ wr'[w].pc = "create_brport"
        /\ wr'[w].port = wr[w].port /\ wr'[w].oid = wr[w].oid
    BY <1>3, GotoFacts DEF MapAdd, WriterPC
  <2>2. FillResult(wr[w].port, wr[w].oid)
    BY <1>1, <1>3, FillFacts DEF MapAdd
  <2>3. MappedWhereCreated'
    BY <1>1, <2>2 DEF MappedWhereCreated, LanesHeld, ExistsInSai, MapAdd, FillResult
  <2>4. LanesHeld'
    BY <1>1, <2>1 DEF LanesHeld
  <2>5. OrphansAdded'
    BY <1>1, <2>2 DEF OrphansAdded, ExistsInSai, MapAdd, FillResult
  <2>6. CallOnSlot'
    BY <1>1, <2>1, <2>2 DEF CallOnSlot, OnSlot, Active, FillResult
  <2>7. KnownMapped'
    BY <1>1, <2>2 DEF KnownMapped, Active, MapAdd, FillResult, TypeOK
  <2>8. MappedComplete'
    <3> SUFFICES ASSUME NEW p \in HwPort \ (stuck \cup {CpuPort}), Active(p)'
                 PROVE  Complete(p)'
      BY <1>1 DEF MappedComplete, MapAdd, BootState
    <3>1. CASE p = wr[w].port
      BY <3>1, <2>1 DEF Complete
    <3>2. CASE p # wr[w].port
      BY <3>2, <1>1, <2>1, <2>2 DEF MappedComplete, Complete, Active, BootState, MapAdd, FillResult
    <3> QED BY <3>1, <3>2
  <2> QED BY <2>3, <2>4, <2>5, <2>6, <2>7, <2>8
<1> QED BY <1>2, <1>3

\* A create past the map is done with its lanes; a failure is recorded.
LEMMA CreateBridgePortOneCaller ==
    ASSUME IInv, OneCallerInv, OneCaller, NEW w \in Writer, CreateBridgePort(w)
    PROVE  OneCallerInv'
<1> USE PortMapAssumption DEF IInv, OneCallerInv, Oid
<1>1. /\ wr[w].pc = "create_brport" /\ wr[w].port \in HwPort
      /\ boot = "up"
      /\ Active(wr[w].port) /\ tbl[wr[w].port].oid = wr[w].oid
      /\ \A v \in Writer : v = w
    BY DEF CreateBridgePort, WriterPort, BootState, CallOnSlot, OnSlot, OneCaller
<1>2. wr'[w].pc \in {"announce", "idle"}
    BY GotoFacts, ReturnFacts DEF CreateBridgePort, WriterPC
<1>3. MappedWhereCreated' /\ LanesHeld' /\ OrphansAdded'
    BY <1>1, <1>2 DEF MappedWhereCreated, LanesHeld, OrphansAdded, ExistsInSai, CreateBridgePort
<1>4. KnownMapped'
    BY <1>1 DEF KnownMapped, Active, CreateBridgePort
<1>5. CASE brport' = brport \cup {wr[w].oid} /\ Goto(w, "announce") /\ UNCHANGED stuck
  <2>1. /\ wr'[w].pc = "announce"
        /\ wr'[w].port = wr[w].port /\ wr'[w].oid = wr[w].oid
    BY <1>5, GotoFacts DEF WriterPC
  <2>2. CallOnSlot'
    BY <1>1, <1>5, <2>1 DEF CallOnSlot, OnSlot, Active, CreateBridgePort
  <2>3. MappedComplete'
    BY <1>1, <1>5, <2>1 DEF MappedComplete, Complete, Active, CreateBridgePort
  <2> QED BY <1>3, <1>4, <2>2, <2>3
<1>6. CASE stuck' = stuck \cup {wr[w].port} /\ Return(w) /\ UNCHANGED brport
  <2>1. wr'[w].pc = "idle"
    BY <1>6, ReturnFacts
  <2>2. CallOnSlot'
    BY <1>1, <2>1 DEF CallOnSlot, OnSlot
  <2>3. MappedComplete'
    BY <1>1, <1>6, <2>1 DEF MappedComplete, Complete, Active, CreateBridgePort
  <2> QED BY <1>3, <1>4, <2>2, <2>3
<1> QED BY <1>5, <1>6 DEF CreateBridgePort

\* The announced port is mapped.
LEMMA AnnounceAddOneCaller ==
    ASSUME IInv, OneCallerInv, OneCaller, NEW w \in Writer, AnnounceAdd(w)
    PROVE  OneCallerInv'
<1> USE PortMapAssumption DEF IInv, OneCallerInv, Oid
<1>1. /\ wr[w].pc = "announce" /\ wr[w].port \in HwPort
      /\ boot = "up"
      /\ Active(wr[w].port) /\ tbl[wr[w].port].oid = wr[w].oid /\ wr[w].oid \in brport
      /\ \A v \in Writer : v = w
    BY DEF AnnounceAdd, WriterPort, BootState, CallOnSlot, OnSlot, OneCaller
<1>2. wr'[w].pc = "idle"
    BY ReturnFacts DEF AnnounceAdd
<1>3. MappedWhereCreated' /\ LanesHeld' /\ OrphansAdded'
    BY <1>1, <1>2 DEF MappedWhereCreated, LanesHeld, OrphansAdded, ExistsInSai, AnnounceAdd
<1>4. CallOnSlot'
    BY <1>1, <1>2 DEF CallOnSlot, OnSlot
<1>5. KnownMapped'
    BY <1>1, <1>2 DEF KnownMapped, Active, AnnounceAdd
<1>6. MappedComplete'
    BY <1>1, <1>2 DEF MappedComplete, Complete, Active, AnnounceAdd
<1> QED BY <1>3, <1>4, <1>5, <1>6

\* A delete starts with a port that is mapped.
LEMMA DeleteStartOneCaller ==
    ASSUME IInv, OneCallerInv, OneCaller, NEW w \in Writer,
           DeleteRead(w) \/ \E p \in HwPort : DeleteCheck(w, p)
    PROVE  OneCallerInv'
<1> USE PortMapAssumption DEF IInv, OneCallerInv, Oid
<1>1. boot = "up" /\ \A v \in Writer : v = w
    BY DEF DeleteRead, DeleteCheck, BootState, OneCaller
<1>2. /\ wr[w].pc \in {"idle", "del_read"}
      /\ \/ wr'[w].pc = "del_read" /\ Active(wr'[w].port)
         \/ /\ wr'[w].pc = "del_brport" /\ Active(wr'[w].port)
            /\ wr'[w].oid = tbl[wr'[w].port].oid
  <2>1. CASE DeleteRead(w)
    <3>1. wr[w] \in WriterRec
      BY DEF TypeOK
    <3>2. wr' = [wr EXCEPT ![w] = [wr[w] EXCEPT !.pc = "del_brport", !.oid = tbl[wr[w].port].oid]]
      BY <2>1 DEF DeleteRead
    <3>3. wr'[w] = [wr[w] EXCEPT !.pc = "del_brport", !.oid = tbl[wr[w].port].oid]
      BY <3>2 DEF TypeOK
    <3>4. /\ wr'[w].pc = "del_brport" /\ wr'[w].port = wr[w].port
          /\ wr'[w].oid = tbl[wr[w].port].oid
      BY <3>1, <3>3 DEF WriterRec
    <3> QED BY <2>1, <3>4 DEF CallOnSlot, DeleteRead
  <2>2. ASSUME NEW p \in HwPort, DeleteCheck(w, p)
        PROVE  /\ wr[w].pc = "idle"
               /\ wr'[w].pc = "del_read" /\ Active(wr'[w].port)
    BY <2>2 DEF DeleteCheck, TypeOK
  <2> QED BY <2>1, <2>2
<1>3. UNCHANGED <<tbl, rev, sai, brport, known, boot, stuck>>
    BY DEF DeleteRead, DeleteCheck
<1>4. MappedWhereCreated' /\ LanesHeld' /\ OrphansAdded'
    BY <1>1, <1>2, <1>3 DEF MappedWhereCreated, LanesHeld, OrphansAdded, ExistsInSai
<1>5. CallOnSlot'
    BY <1>1, <1>2, <1>3 DEF CallOnSlot, OnSlot, Active
<1>6. KnownMapped' /\ MappedComplete'
    BY <1>1, <1>2, <1>3 DEF KnownMapped, MappedComplete, Complete, Active
<1> QED BY <1>4, <1>5, <1>6

\* The bridge port goes while the call is at the index of its object.
LEMMA DeleteBridgePortOneCaller ==
    ASSUME IInv, OneCallerInv, OneCaller, NEW w \in Writer, DeleteBridgePort(w)
    PROVE  OneCallerInv'
<1> USE PortMapAssumption DEF IInv, OneCallerInv, Oid
<1>1. /\ wr[w].pc = "del_brport" /\ wr[w].port \in HwPort
      /\ boot = "up"
      /\ Active(wr[w].port) /\ tbl[wr[w].port].oid = wr[w].oid
      /\ \A v \in Writer : v = w
    BY DEF DeleteBridgePort, WriterPort, BootState, CallOnSlot, OnSlot, OneCaller
<1>2. wr'[w].pc \in {"del_port", "idle"}
    BY GotoFacts, ReturnFacts DEF DeleteBridgePort, WriterPC
<1>3. MappedWhereCreated' /\ LanesHeld' /\ OrphansAdded'
    BY <1>1, <1>2 DEF MappedWhereCreated, LanesHeld, OrphansAdded, ExistsInSai, DeleteBridgePort
<1>4. KnownMapped'
    BY <1>1 DEF KnownMapped, Active, DeleteBridgePort
<1>5. CASE brport' = brport \ {wr[w].oid} /\ Goto(w, "del_port")
  <2>1. /\ wr'[w].pc = "del_port"
        /\ wr'[w].port = wr[w].port /\ wr'[w].oid = wr[w].oid
    BY <1>5, GotoFacts DEF WriterPC
  <2>2. CallOnSlot'
    BY <1>1, <2>1 DEF CallOnSlot, OnSlot, Active, DeleteBridgePort
  <2>3. \A p \in HwPort : Active(p) /\ tbl[p].oid = wr[w].oid => p = wr[w].port
    BY <1>1 DEF TablesAgree, ActiveSlots
  <2>4. MappedComplete'
    BY <1>1, <1>5, <2>1, <2>3 DEF MappedComplete, Complete, Active, DeleteBridgePort
  <2> QED BY <1>3, <1>4, <2>2, <2>4
<1>6. CASE Return(w) /\ UNCHANGED brport
  <2>1. wr'[w].pc = "idle"
    BY <1>6, ReturnFacts
  <2>2. CallOnSlot'
    BY <1>1, <2>1 DEF CallOnSlot, OnSlot
  <2>3. MappedComplete'
    BY <1>1, <1>6, <2>1 DEF MappedComplete, Complete, Active, DeleteBridgePort
  <2> QED BY <1>3, <1>4, <2>2, <2>3
<1> QED BY <1>5, <1>6 DEF DeleteBridgePort

\* The SAI port goes while the map still holds it, or the failure is recorded.
LEMMA DeleteSaiPortOneCaller ==
    ASSUME IInv, OneCallerInv, OneCaller, NEW w \in Writer, DeleteSaiPort(w)
    PROVE  OneCallerInv'
<1> USE PortMapAssumption DEF IInv, OneCallerInv, Oid
<1>1. /\ wr[w].pc = "del_port" /\ wr[w].port \in HwPort /\ wr[w].oid \in SaiPort
      /\ boot = "up"
      /\ Active(wr[w].port) /\ tbl[wr[w].port].oid = wr[w].oid
      /\ \A v \in Writer : v = w
    BY DEF DeleteSaiPort, WriterPort, OwnerState, Owns, Owning, BootState, CallOnSlot, OnSlot, OneCaller
<1>2. wr'[w].pc \in {"map_del", "idle"}
    BY GotoFacts, ReturnFacts DEF DeleteSaiPort, WriterPC
<1>3. \A s \in SaiPort : sai'[s] # NoPort => sai'[s] = sai[s]
    BY <1>1 DEF DeleteSaiPort, TypeOK
<1>4. MappedWhereCreated' /\ LanesHeld' /\ OrphansAdded'
    BY <1>1, <1>2, <1>3 DEF MappedWhereCreated, LanesHeld, OrphansAdded, ExistsInSai, DeleteSaiPort
<1>5. KnownMapped'
    BY <1>1 DEF KnownMapped, Active, DeleteSaiPort
<1>6. CASE Goto(w, "map_del") /\ UNCHANGED stuck
  <2>1. /\ wr'[w].pc = "map_del"
        /\ wr'[w].port = wr[w].port /\ wr'[w].oid = wr[w].oid
    BY <1>6, GotoFacts DEF WriterPC
  <2>2. CallOnSlot'
    BY <1>1, <2>1 DEF CallOnSlot, OnSlot, Active, DeleteSaiPort
  <2>3. MappedComplete'
    BY <1>1, <1>6, <2>1 DEF MappedComplete, Complete, Active, DeleteSaiPort
  <2> QED BY <1>4, <1>5, <2>2, <2>3
<1>7. CASE stuck' = stuck \cup {wr[w].port} /\ Return(w)
  <2>1. wr'[w].pc = "idle"
    BY <1>7, ReturnFacts
  <2>2. CallOnSlot'
    BY <1>1, <2>1 DEF CallOnSlot, OnSlot
  <2>3. MappedComplete'
    BY <1>1, <1>7, <2>1 DEF MappedComplete, Complete, Active, DeleteSaiPort
  <2> QED BY <1>4, <1>5, <2>2, <2>3
<1> QED BY <1>6, <1>7 DEF DeleteSaiPort

\* The index that is emptied is the one whose deletion is then announced.
LEMMA MapDeleteOneCaller ==
    ASSUME IInv, OneCallerInv, OneCaller, NEW w \in Writer, MapDelete(w)
    PROVE  OneCallerInv'
<1> USE PortMapAssumption DEF IInv, OneCallerInv, Oid
<1> DEFINE s == wr[w].oid
           p == wr[w].port
<1>1. /\ wr[w].pc = "map_del" /\ p \in HwPort /\ s \in SaiPort
      /\ boot = "up" /\ ~ExistsInSai(s)
      /\ Active(p) /\ tbl[p].oid = s
      /\ \A v \in Writer : v = w
    BY DEF MapDelete, WriterPort, OwnerState, Owns, Owning, BootState, CallOnSlot, OnSlot, OneCaller
<1>2. rev[s] = p
    BY <1>1 DEF TablesAgree
<1>3. /\ Unfill(p, s)
      /\ wr' = [wr EXCEPT ![w].pc = "announce_del", ![w].port = p]
    BY <1>1, <1>2 DEF MapDelete
<1>4. wr'[w].pc = "announce_del" /\ wr'[w].port = p
  <2>1. wr[w] \in WriterRec
    BY DEF TypeOK
  <2>2. wr'[w] = [wr[w] EXCEPT !.pc = "announce_del", !.port = p]
    BY <1>3 DEF TypeOK
  <2> QED BY <2>1, <2>2 DEF WriterRec
<1>5. /\ ~tbl'[p].active
      /\ \A q \in HwPort \ {p} : tbl'[q] = tbl[q]
      /\ \A t \in Oid \ {s} : rev'[t] = rev[t]
      /\ rev'[s] = NoPort
    BY <1>1, <1>3 DEF Unfill, TypeOK
<1>6. UNCHANGED <<sai, brport, known, boot, stuck>>
    BY DEF MapDelete
<1> HIDE DEF s, p
<1>7. MappedWhereCreated' /\ LanesHeld'
    BY <1>1, <1>4, <1>5, <1>6 DEF MappedWhereCreated, LanesHeld, ExistsInSai
<1>8. OrphansAdded'
    BY <1>1, <1>5, <1>6 DEF OrphansAdded, ExistsInSai
<1>9. CallOnSlot'
    BY <1>1, <1>4, <1>5 DEF CallOnSlot, OnSlot, Active
<1>10. KnownMapped'
    BY <1>1, <1>4, <1>5, <1>6 DEF KnownMapped, Active, TypeOK
<1>11. MappedComplete'
    BY <1>1, <1>5, <1>6 DEF MappedComplete, Complete, Active, p
<1> QED BY <1>7, <1>8, <1>9, <1>10, <1>11

\* The deletion is announced of an index that is free.
LEMMA AnnounceDeleteOneCaller ==
    ASSUME IInv, OneCallerInv, OneCaller, NEW w \in Writer, AnnounceDelete(w)
    PROVE  OneCallerInv'
<1> USE PortMapAssumption DEF IInv, OneCallerInv, Oid
<1>1. /\ wr[w].pc = "announce_del" /\ ~Active(wr[w].port)
      /\ boot = "up"
      /\ \A v \in Writer : v = w
    BY DEF AnnounceDelete, BootState, CallOnSlot, OneCaller
<1>2. wr'[w].pc = "idle"
    BY ReturnFacts DEF AnnounceDelete
<1>3. MappedWhereCreated' /\ LanesHeld' /\ OrphansAdded'
    BY <1>1, <1>2 DEF MappedWhereCreated, LanesHeld, OrphansAdded, ExistsInSai, AnnounceDelete
<1>4. CallOnSlot'
    BY <1>1, <1>2 DEF CallOnSlot, OnSlot
<1>5. KnownMapped'
    BY <1>1 DEF KnownMapped, Active, AnnounceDelete
<1>6. MappedComplete'
    BY <1>1, <1>2 DEF MappedComplete, Complete, Active, AnnounceDelete
<1> QED BY <1>3, <1>4, <1>5, <1>6

\* A reader changes nothing that the invariant speaks of.
LEMMA ReaderOneCaller ==
    ASSUME OneCallerInv, UNCHANGED <<tbl, rev, sai, brport, known, boot, wr, stuck>>
    PROVE  OneCallerInv'
BY DEF OneCallerInv, MappedWhereCreated, LanesHeld, OrphansAdded, CallOnSlot, KnownMapped,
       MappedComplete, Complete, Active, ExistsInSai

\* Every step of a system with one caller keeps the invariant.
LEMMA OneCallerStep ==
    ASSUME OneCaller, IInv, OneCallerInv, [Next]_vars
    PROVE  OneCallerInv'
<1>1. CASE Boot
    BY <1>1, BootOneCaller
<1>2. ASSUME NEW w \in Writer, WriterStep(w)
      PROVE  OneCallerInv'
    BY <1>2, CreateOneCaller, MapAddOneCaller, CreateBridgePortOneCaller, AnnounceAddOneCaller,
       DeleteStartOneCaller, DeleteBridgePortOneCaller, DeleteSaiPortOneCaller,
       MapDeleteOneCaller, AnnounceDeleteOneCaller DEF WriterStep
<1>3. ASSUME NEW r \in Reader, ReaderStep(r)
      PROVE  OneCallerInv'
    BY <1>3, ReaderOneCaller
    DEF ReaderStep, LookupCheck, LookupRead, WalkLen, WalkCopy, ReaderDone
<1>4. CASE UNCHANGED vars
    BY <1>4, ReaderOneCaller DEF vars
<1> QED BY <1>1, <1>2, <1>3, <1>4 DEF Next

\* OneCallerInv holds of every system in which calls do not overlap.
THEOREM OneCallerInvariance == ASSUME OneCaller PROVE Spec => []OneCallerInv
<1>1. IInv /\ OneCallerInv /\ [Next]_vars => OneCallerInv'
    BY OneCallerStep
<1> QED BY <1>1, InitOneCaller, Invariance, PTL DEF Spec

\* While ports are created and deleted one at a time, whatever SAI call fails,
\* SAI is left with no front-panel port that the map does not know, but for one
\* that was asked for on the index of the CPU port.
THEOREM NoOrphanPortEver == ASSUME OneCaller PROVE Spec => []NoOrphanPort
<1>1. OneCallerInv => NoOrphanPort
    BY DEF OneCallerInv, NoOrphanPort, OrphansAdded, Quiet
<1> QED BY <1>1, OneCallerInvariance, PTL

\* While ports are created and deleted one at a time, the ports announced are
\* mapped, and a mapped port was announced and has its bridge port, unless a
\* call on it failed after its first change.
THEOREM CallerViewAlwaysAgrees == ASSUME OneCaller PROVE Spec => []CallerViewAgrees
<1>1. OneCallerInv => CallerViewAgrees
    BY DEF OneCallerInv, CallerViewAgrees, KnownMapped, MappedComplete, Complete, Quiet
<1> QED BY <1>1, OneCallerInvariance, PTL

-----------------------------------------------------------------------------
(* The walk.                                                               *)

\* When slot 0 is the CPU port's, as "first port is cpu port skip it" says, the
\* ports copied fit the length whose check let the copy go ahead, however many
\* ports came or went between the two.
THEOREM WalksInBounds == ASSUME CpuPort = 0 PROVE Spec => []WalkInBounds
<1>1. ASSUME IInv, CpuPort = 0 PROVE WalkInBounds
  <2> SUFFICES ASSUME NEW r \in Reader, rd[r].pc = "walk", WalkFits(rd[r].len)
               PROVE  Cardinality(Copied) <= rd[r].len
    BY DEF WalkInBounds
  <2>1. Filled \subseteq HwPort /\ IsFiniteSet(Filled)
    BY PortMapAssumption, FS_Subset DEF Filled
  <2>2. 0 \in Filled
    BY <1>1, PortMapAssumption DEF IInv, BootState, CpuPortStays, Filled, Oid
  <2>3. Cardinality(Filled) \in Nat /\ Cardinality(Filled \ {0}) = Cardinality(Filled) - 1
    BY <2>1, <2>2, FS_RemoveElement, FS_CardinalityType
  <2>4. rd[r].len \in Int
    BY <1>1 DEF IInv, TypeOK, ReaderRec
  <2>5. Cardinality(Filled) # 0
    BY <2>1, <2>2, FS_EmptySet
  <2>6. Cardinality({}) = 0
    BY FS_EmptySet
  <2> QED BY <2>3, <2>4, <2>5, <2>6 DEF WalkFits, PortsLen, Copied
<1> QED BY <1>1, Invariance, PTL

-----------------------------------------------------------------------------
(* The event thread, composed with the port map.                           *)

Source == SaiPort \cup {"switch"}

\* What the events range over.
EventsTypeOK ==
    /\ oper \in [Source -> LinkState]
    /\ batch \in Seq(Event)
    /\ queue \in Seq(Event)
    /\ hand \in Event \cup {NoEvent}
    /\ found \in HwPort \cup {NoPort}
    /\ listener \in BOOLEAN
    /\ told \in [HwPort -> LinkState \cup {"none"}]
    /\ owed \subseteq Source

\* The port map has not begun before there is a switch.
InitOrder == init \in {"off", "thread"} => boot = "cpu"

\* A batch tells of a port once.
BatchOnce == \A i, j \in 1 .. Len(batch) : batch[i].of = batch[j].of => i = j

\* A batch tells the state of the switch as it is.
SwitchTrue ==
    \A i \in 1 .. Len(batch) : batch[i].of = "switch" => batch[i].state = oper["switch"]

\* The thread translates the record in its hand.
FoundOfHand == found # NoPort => hand # NoEvent /\ hand.of # "switch"

NoneIn(q, x) == \A i \in 1 .. Len(q) : q[i].of # x
LastIn(q, x, st) ==
    \E i \in 1 .. Len(q) : /\ q[i].of = x /\ q[i].state = st
                           /\ \A j \in 1 .. Len(q) : j > i => q[j].of # x
InHand(x) == hand # NoEvent /\ hand.of = x

\* The last that is on its way to the upper layer about x is what x is: it is
\* still with SAI, in the socket or in the thread's hand, translated to the
\* port x still is, or it has arrived, and nothing that another object left
\* behind is about to be told of the same port.
LastWord(x) ==
    \/ LastIn(batch, x, oper[x])
    \/ NoneIn(batch, x) /\ LastIn(queue, x, oper[x])
    \/ /\ NoneIn(batch, x) /\ NoneIn(queue, x)
       /\ \/ InHand(x) /\ hand.state = oper[x] /\ (found # NoPort => found = rev[x])
          \/ ~InHand(x) /\ IsTold(x) /\ (x # "switch" => found # rev[x])

\* What is owed can be passed on.
Passable(x) == x # "switch" => rev[x] # NoPort /\ ExistsInSai(x) /\ listener

OwedInv == \A x \in owed : Passable(x) /\ LastWord(x)

EventsInv ==
    /\ IInv
    /\ EventsTypeOK
    /\ InitOrder
    /\ BatchOnce
    /\ SwitchTrue
    /\ FoundOfHand
    /\ OwedInv

\* Before nas_ndi_init nothing was reported.
LEMMA InitEvents == EInit => EventsInv
<1> SUFFICES ASSUME EInit PROVE EventsInv
    OBVIOUS
<1>1. IInv
    BY InitIInv DEF EInit
<1>2. EventsTypeOK
  <2>1. oper \in [Source -> LinkState] /\ told \in [HwPort -> LinkState \cup {"none"}]
    BY DEF EInit, Source, LinkState
  <2>2. batch \in Seq(Event) /\ queue \in Seq(Event)
    BY DEF EInit
  <2> QED BY <2>1, <2>2 DEF EInit, EventsTypeOK
<1>3. InitOrder /\ BatchOnce /\ SwitchTrue /\ FoundOfHand /\ OwedInv
    BY DEF EInit, Init, InitOrder, BatchOnce, SwitchTrue, FoundOfHand, OwedInv
<1> QED BY <1>1, <1>2, <1>3 DEF EventsInv

\* A step that leaves the records, the links and the owed ports alone, and the
\* map of the ports that are owed.
LEMMA OwedUntouched ==
    ASSUME EventsInv,
           UNCHANGED <<batch, queue, hand, found, told, npuOper>>,
           owed' \subseteq owed,
           listener => listener',
           \A x \in owed' : /\ oper'[x] = oper[x]
                            /\ x # "switch" => rev'[x] = rev[x] /\ sai'[x] = sai[x]
    PROVE  OwedInv'
<1> SUFFICES ASSUME NEW x \in owed' PROVE Passable(x)' /\ LastWord(x)'
    BY DEF OwedInv
<1>1. Passable(x) /\ LastWord(x)
    BY DEF EventsInv, OwedInv
<1>2. oper'[x] = oper[x] /\ (x # "switch" => rev'[x] = rev[x] /\ sai'[x] = sai[x])
    OBVIOUS
<1>3. Passable(x)'
    BY <1>1, <1>2 DEF Passable, ExistsInSai
<1>4. /\ batch' = batch /\ queue' = queue /\ hand' = hand /\ found' = found
      /\ told' = told /\ npuOper' = npuOper
    OBVIOUS
<1>5. CASE LastIn(batch, x, oper[x])
    BY <1>2, <1>3, <1>4, <1>5 DEF LastWord
<1>6. CASE NoneIn(batch, x) /\ LastIn(queue, x, oper[x])
    BY <1>2, <1>3, <1>4, <1>6 DEF LastWord
<1>7. CASE /\ NoneIn(batch, x) /\ NoneIn(queue, x)
           /\ InHand(x) /\ hand.state = oper[x] /\ (found # NoPort => found = rev[x])
    BY <1>2, <1>3, <1>4, <1>7 DEF LastWord, InHand, EventsInv, FoundOfHand
<1>8. CASE /\ NoneIn(batch, x) /\ NoneIn(queue, x)
           /\ ~InHand(x) /\ IsTold(x) /\ (x # "switch" => found # rev[x])
    BY <1>2, <1>3, <1>4, <1>8 DEF LastWord, InHand, IsTold
<1> QED BY <1>1, <1>5, <1>6, <1>7, <1>8 DEF LastWord

\* The map of ports changes: what it changes for is no longer owed.
LEMMA PortMapEventsStep ==
    ASSUME EventsInv, PortMapStep
    PROVE  EventsInv'
<1>1. IInv'
    BY NextStep DEF EventsInv, PortMapStep
<1>2. EventsTypeOK'
    BY DEF EventsInv, EventsTypeOK, PortMapStep, LinkState, Source
<1>3. InitOrder' /\ BatchOnce' /\ FoundOfHand'
    BY DEF EventsInv, InitOrder, BatchOnce, FoundOfHand, PortMapStep
<1>6. SwitchTrue'
    BY EventsAssumption DEF EventsInv, EventsTypeOK, Source, SwitchTrue, PortMapStep
<1>4. ASSUME NEW x \in owed'
      PROVE  /\ oper'[x] = oper[x]
             /\ x # "switch" => rev'[x] = rev[x] /\ sai'[x] = sai[x]
  <2>1. x \in owed /\ x \in Source /\ (x \in SaiPort => rev'[x] = rev[x] /\ sai'[x] = sai[x])
    BY <1>4 DEF PortMapStep, EventsInv, EventsTypeOK
  <2>2. x # "switch" => x \in SaiPort /\ sai[x] # NoPort
    BY <2>1 DEF EventsInv, OwedInv, Passable, ExistsInSai, Source
  <2>3. x = "switch" => x \notin SaiPort
    BY EventsAssumption
  <2> QED BY <2>1, <2>2, <2>3 DEF PortMapStep, EventsInv, EventsTypeOK
<1>5. OwedInv'
    BY <1>4, OwedUntouched DEF PortMapStep
<1> QED BY <1>1, <1>2, <1>3, <1>5, <1>6 DEF EventsInv

\* nas_ndi_init goes on or gives up, or the upper layer registers.
LEMMA StartEventsStep ==
    ASSUME EventsInv,
           StartThread \/ CreateSwitch \/ InitFails \/ Register \/ UNCHANGED <<vars, evars>>
    PROVE  EventsInv'
<1>1. UNCHANGED vars \/ BootFails
    BY DEF StartThread, CreateSwitch, InitFails, Register, BootFails, EventsInv, InitOrder
<1>2. IInv'
    BY <1>1, NextStep DEF EventsInv, Next, Boot
<1>3. /\ UNCHANGED <<oper, batch, queue, hand, found, told, npuOper, owed, rev, sai>>
      /\ listener' \in {listener, TRUE}
    BY DEF StartThread, CreateSwitch, InitFails, Register, vars, evars
<1>4. EventsTypeOK'
    BY <1>3 DEF EventsInv, EventsTypeOK
<1>5. InitOrder'
    BY DEF StartThread, CreateSwitch, InitFails, Register, vars, evars, EventsInv, InitOrder
<1>6. BatchOnce' /\ SwitchTrue' /\ FoundOfHand'
    BY <1>3 DEF EventsInv, BatchOnce, SwitchTrue, FoundOfHand
<1>7. OwedInv'
    BY <1>3, OwedUntouched DEF EventsInv, EventsTypeOK
<1> QED BY <1>2, <1>4, <1>5, <1>6, <1>7 DEF EventsInv

\* What an index in a sequence stands for after an Append, or without its head.
LEMMA SeqFacts ==
    ASSUME NEW q \in Seq(Event)
    PROVE  /\ Len(q) \in Nat
           /\ \A i \in 1 .. Len(q) : q[i] \in Event
           /\ q # <<>> => /\ Head(q) = q[1] /\ Head(q) \in Event
                          /\ Tail(q) \in Seq(Event) /\ Len(Tail(q)) = Len(q) - 1
                          /\ Len(q) >= 1
                          /\ \A i \in 1 .. Len(Tail(q)) : Tail(q)[i] = q[i + 1]
           /\ \A e \in Event : /\ Append(q, e) \in Seq(Event)
                               /\ Len(Append(q, e)) = Len(q) + 1
                               /\ \A i \in 1 .. Len(q) : Append(q, e)[i] = q[i]
                               /\ Append(q, e)[Len(q) + 1] = e
OBVIOUS

\* Without its head, a sequence says of x what it said, unless that was the head.
LEMMA TailFacts ==
    ASSUME NEW q \in Seq(Event), q # <<>>, NEW x, NEW st
    PROVE  /\ NoneIn(q, x) <=> Head(q).of # x /\ NoneIn(Tail(q), x)
           /\ LastIn(q, x, st) <=> \/ LastIn(Tail(q), x, st)
                                  \/ /\ NoneIn(Tail(q), x)
                                     /\ Head(q).of = x /\ Head(q).state = st
<1> DEFINE t == Tail(q)
<1>1. /\ Len(q) \in Nat /\ Len(q) >= 1 /\ Head(q) = q[1]
      /\ Len(t) = Len(q) - 1
      /\ \A i \in 1 .. Len(t) : t[i] = q[i + 1]
    BY SeqFacts
<1>2. \A i \in 2 .. Len(q) : q[i] = t[i - 1] /\ i - 1 \in 1 .. Len(t)
    BY <1>1
<1> HIDE DEF t
<1>3. NoneIn(q, x) <=> Head(q).of # x /\ NoneIn(t, x)
    BY <1>1, <1>2 DEF NoneIn
<1>4. ASSUME LastIn(q, x, st)
      PROVE  \/ LastIn(t, x, st)
             \/ NoneIn(t, x) /\ Head(q).of = x /\ Head(q).state = st
  <2>1. PICK i \in 1 .. Len(q) : /\ q[i].of = x /\ q[i].state = st
                                 /\ \A j \in 1 .. Len(q) : j > i => q[j].of # x
    BY <1>4 DEF LastIn
  <2>2. CASE i = 1
    BY <1>1, <2>1, <2>2 DEF NoneIn
  <2>3. CASE i # 1
    <3>1. i - 1 \in 1 .. Len(t) /\ t[i - 1] = q[i]
      BY <1>1, <1>2, <2>3
    <3>2. \A j \in 1 .. Len(t) : j > i - 1 => t[j].of # x
      BY <1>1, <2>1
    <3> QED BY <2>1, <3>1, <3>2 DEF LastIn
  <2> QED BY <2>2, <2>3
<1>5. ASSUME LastIn(t, x, st)
      PROVE  LastIn(q, x, st)
  <2>1. PICK i \in 1 .. Len(t) : /\ t[i].of = x /\ t[i].state = st
                                 /\ \A j \in 1 .. Len(t) : j > i => t[j].of # x
    BY <1>5 DEF LastIn
  <2>2. i + 1 \in 1 .. Len(q) /\ q[i + 1] = t[i]
    BY <1>1
  <2>3. \A j \in 1 .. Len(q) : j > i + 1 => q[j].of # x
    BY <1>1, <1>2, <2>1
  <2> QED BY <2>1, <2>2, <2>3 DEF LastIn
<1>6. ASSUME NoneIn(t, x), Head(q).of = x, Head(q).state = st
      PROVE  LastIn(q, x, st)
    BY <1>1, <1>2, <1>6 DEF LastIn, NoneIn
<1> QED BY <1>3, <1>4, <1>5, <1>6 DEF t

\* The record appended is the last of its object; of another nothing changes.
LEMMA AppendFacts ==
    ASSUME NEW q \in Seq(Event), NEW e \in Event, NEW x, NEW st
    PROVE  /\ e.of = x /\ e.state = st => LastIn(Append(q, e), x, st)
           /\ e.of # x => /\ NoneIn(Append(q, e), x) <=> NoneIn(q, x)
                          /\ LastIn(Append(q, e), x, st) <=> LastIn(q, x, st)
<1> DEFINE a == Append(q, e)
<1>1. /\ Len(q) \in Nat /\ Len(a) = Len(q) + 1 /\ a[Len(q) + 1] = e
      /\ \A i \in 1 .. Len(q) : a[i] = q[i]
    BY SeqFacts
<1> HIDE DEF a
<1>2. e.of = x /\ e.state = st => LastIn(a, x, st)
  <2>1. Len(q) + 1 \in 1 .. Len(a)
    BY <1>1
  <2> QED BY <1>1, <2>1 DEF LastIn
<1>3. ASSUME e.of # x
      PROVE  /\ NoneIn(a, x) <=> NoneIn(q, x)
             /\ LastIn(a, x, st) <=> LastIn(q, x, st)
  <2>1. 1 .. Len(a) = (1 .. Len(q)) \cup {Len(q) + 1}
    BY <1>1
  <2>2. NoneIn(a, x) <=> NoneIn(q, x)
    BY <1>1, <1>3, <2>1 DEF NoneIn
  <2>3. LastIn(a, x, st) <=> LastIn(q, x, st)
    BY <1>1, <1>3, <2>1 DEF LastIn
  <2> QED BY <2>2, <2>3
<1> QED BY <1>2, <1>3 DEF a

\* A batch is the last word on the links it reports, and on no other.
LEMMA BatchStep ==
    ASSUME EventsInv, batch = <<>>, batch' \in Seq(Event), BatchOnce',
           oper' \in [Source -> LinkState],
           \A i \in 1 .. Len(batch') : batch'[i].state = oper'[batch'[i].of],
           \A x \in Source : NoneIn(batch', x) => oper'[x] = oper[x],
           UNCHANGED <<vars, init, queue, hand, found, listener, told, npuOper, owed>>
    PROVE  EventsInv'
<1>1. IInv' /\ EventsTypeOK' /\ InitOrder' /\ FoundOfHand'
    BY StutterStep DEF EventsInv, EventsTypeOK, InitOrder, FoundOfHand, vars
<1>2. Len(batch') \in Nat /\ SwitchTrue'
    BY DEF SwitchTrue
<1>3. ASSUME NEW x \in owed
      PROVE  Passable(x)' /\ LastWord(x)'
  <2>1. x \in Source /\ Passable(x) /\ LastWord(x)
    BY <1>3 DEF EventsInv, EventsTypeOK, OwedInv
  <2>2. Passable(x)'
    BY <2>1 DEF Passable, ExistsInSai, vars
  <2>3. NoneIn(batch, x) /\ ~LastIn(batch, x, oper[x])
    BY DEF NoneIn, LastIn
  <2>4. CASE NoneIn(batch', x)
    <3>1. oper'[x] = oper[x] /\ rev' = rev
      BY <2>1, <2>4 DEF vars
    <3>2. CASE LastIn(queue, x, oper[x])
      BY <2>2, <2>4, <3>1, <3>2 DEF LastWord
    <3>3. CASE /\ NoneIn(queue, x)
               /\ InHand(x) /\ hand.state = oper[x] /\ (found # NoPort => found = rev[x])
      BY <2>2, <2>4, <3>1, <3>3 DEF LastWord, InHand
    <3>4. CASE /\ NoneIn(queue, x)
               /\ ~InHand(x) /\ IsTold(x) /\ (x # "switch" => found # rev[x])
      BY <2>2, <2>4, <3>1, <3>4 DEF LastWord, InHand, IsTold
    <3> QED BY <2>1, <2>3, <3>2, <3>3, <3>4 DEF LastWord
  <2>5. CASE ~NoneIn(batch', x)
    <3>1. PICK i \in 1 .. Len(batch') : batch'[i].of = x
      BY <2>5 DEF NoneIn
    <3>2. \A j \in 1 .. Len(batch') : j > i => batch'[j].of # x
      BY <3>1 DEF BatchOnce
    <3>3. LastIn(batch', x, oper'[x])
      BY <3>1, <3>2 DEF LastIn
    <3> QED BY <2>2, <3>3 DEF LastWord
  <2> QED BY <2>4, <2>5
<1>4. OwedInv'
    BY <1>3 DEF OwedInv
<1> QED BY <1>1, <1>2, <1>4 DEF EventsInv

\* The links of the ports in x change and are reported in one batch.
LEMMA LinksChangeStep ==
    ASSUME EventsInv, NEW x \in Batches, \A i, j \in 1 .. Len(x) : x[i] = x[j] => i = j,
           LinksChange(x)
    PROVE  EventsInv'
<1>1. /\ Len(x) \in Nat
      /\ \A i \in 1 .. Len(x) : x[i] \in SaiPort
    BY DEF Batches
<1>2. /\ oper \in [Source -> LinkState] /\ SaiPort \subseteq Source
      /\ \A st \in LinkState : Flip(st) \in LinkState
    BY DEF EventsInv, EventsTypeOK, Source, Flip, LinkState
<1>3. /\ oper' \in [Source -> LinkState]
      /\ \A s \in Source : oper'[s] = IF \E i \in 1 .. Len(x) : x[i] = s THEN Flip(oper[s]) ELSE oper[s]
    BY <1>2 DEF LinksChange
<1>4. batch' = [i \in 1 .. Len(x) |-> PortEvent(x[i], Flip(oper[x[i]]))]
    BY DEF LinksChange
<1>5. \A i \in 1 .. Len(x) : PortEvent(x[i], Flip(oper[x[i]])) \in Event
    BY <1>1, <1>2 DEF PortEvent, Event
<1>6. batch' \in Seq(Event) /\ Len(batch') = Len(x)
    BY <1>1, <1>4, <1>5
<1>7. \A i \in 1 .. Len(x) : batch'[i].of = x[i] /\ batch'[i].state = Flip(oper[x[i]])
    BY <1>4 DEF PortEvent
<1>8. \A i \in 1 .. Len(batch') : batch'[i].state = oper'[batch'[i].of]
    BY <1>1, <1>2, <1>3, <1>6, <1>7
<1>9. \A s \in Source : NoneIn(batch', s) => oper'[s] = oper[s]
    BY <1>3, <1>6, <1>7 DEF NoneIn
<1>10. BatchOnce'
    BY <1>6, <1>7 DEF BatchOnce
<1> QED BY <1>3, <1>6, <1>8, <1>9, <1>10, BatchStep DEF LinksChange

\* The switch goes up or down.
LEMMA SwitchChangesStep ==
    ASSUME EventsInv, SwitchChanges
    PROVE  EventsInv'
<1> DEFINE st == Flip(oper["switch"])
<1>1. oper \in [Source -> LinkState] /\ "switch" \in Source /\ st \in LinkState
    BY DEF EventsInv, EventsTypeOK, Source, Flip, LinkState
<1>2. /\ oper' \in [Source -> LinkState]
      /\ oper'["switch"] = st
      /\ \A s \in Source \ {"switch"} : oper'[s] = oper[s]
    BY <1>1 DEF SwitchChanges
<1>3. SwitchEvent(st) \in Event /\ SwitchEvent(st).of = "switch" /\ SwitchEvent(st).state = st
    BY <1>1 DEF SwitchEvent, Event
<1>4. batch' = <<SwitchEvent(st)>>
    BY DEF SwitchChanges
<1> HIDE DEF st
<1>5. batch' \in Seq(Event) /\ Len(batch') = 1 /\ batch'[1] = SwitchEvent(st)
    BY <1>3, <1>4
<1>6. \A s \in Source : NoneIn(batch', s) => oper'[s] = oper[s]
    BY <1>2, <1>3, <1>5 DEF NoneIn
<1>7. BatchOnce'
    BY <1>5 DEF BatchOnce
<1>8. \A i \in 1 .. Len(batch') : batch'[i].state = oper'[batch'[i].of]
    BY <1>2, <1>3, <1>5
<1> QED BY <1>2, <1>5, <1>6, <1>7, <1>8, BatchStep DEF SwitchChanges

\* The next record of the batch goes into the socket.
LEMMA SendStep ==
    ASSUME EventsInv, Send
    PROVE  EventsInv'
<1> DEFINE e == Head(batch)
<1>1. /\ batch \in Seq(Event) /\ queue \in Seq(Event) /\ owed \subseteq Source /\ batch # <<>>
      /\ batch' = Tail(batch) /\ queue' = Append(queue, e)
      /\ UNCHANGED <<vars, init, oper, hand, found, listener, told, npuOper, sent>>
    BY DEF Send, EventsInv, EventsTypeOK
<1>2. e \in Event /\ batch' \in Seq(Event) /\ queue' \in Seq(Event)
    BY <1>1, SeqFacts
<1>3. e.of \in Source
    BY <1>2 DEF Event, Source
<1>4. /\ Len(batch) \in Nat /\ Len(batch) >= 1 /\ Len(batch') = Len(batch) - 1
      /\ e = batch[1] /\ \A i \in 1 .. Len(batch') : batch'[i] = batch[i + 1]
    BY <1>1, SeqFacts
<1>5. NoneIn(batch', e.of)
    BY <1>4 DEF NoneIn, BatchOnce, EventsInv
<1>6. /\ IInv' /\ InitOrder' /\ FoundOfHand'
    BY <1>1, StutterStep DEF EventsInv, InitOrder, FoundOfHand, vars
<1>7. EventsTypeOK'
    BY <1>1, <1>2, <1>3 DEF Send, EventsInv, EventsTypeOK
<1>8. BatchOnce' /\ SwitchTrue'
    BY <1>1, <1>4 DEF EventsInv, BatchOnce, SwitchTrue
<1> HIDE DEF e
<1>9. ASSUME NEW x \in owed'
      PROVE  Passable(x)' /\ LastWord(x)'
  <2>1. oper' = oper /\ rev' = rev /\ sai' = sai /\ listener' = listener
    BY <1>1 DEF vars
  <2>2. CASE x = e.of
    <3>1. Passable(x) /\ e.state = oper[x]
      <4>1. CASE x \in owed
        <5>1. ~NoneIn(batch, x)
          BY <1>4, <2>2 DEF NoneIn
        <5>2. LastIn(batch, x, oper[x])
          BY <4>1, <5>1 DEF EventsInv, OwedInv, LastWord
        <5>3. ~LastIn(batch', x, oper[x])
          BY <1>5, <2>2 DEF LastIn, NoneIn
        <5> QED BY <1>1, <4>1, <5>2, <5>3, TailFacts DEF EventsInv, OwedInv, e
      <4>2. CASE x \notin owed
        <5>1. CanBeTold(e)
          BY <1>9, <4>2 DEF Send, e
        <5>2. e.of = "switch" => e.state = oper["switch"]
          BY <1>4 DEF EventsInv, SwitchTrue
        <5> QED BY <2>2, <5>1, <5>2 DEF CanBeTold, Passable
      <4> QED BY <4>1, <4>2
    <3>2. LastIn(queue', x, oper[x])
      BY <1>1, <1>2, <2>2, <3>1, AppendFacts
    <3> QED BY <1>5, <2>1, <2>2, <3>1, <3>2 DEF LastWord, Passable, ExistsInSai
  <2>3. CASE x # e.of
    <3>1. Passable(x) /\ LastWord(x)
      BY <1>9, <2>3 DEF Send, EventsInv, OwedInv, e
    <3>2. /\ NoneIn(batch', x) <=> NoneIn(batch, x)
          /\ LastIn(batch', x, oper[x]) <=> LastIn(batch, x, oper[x])
      BY <1>1, <2>3, TailFacts DEF e
    <3>3. /\ NoneIn(queue', x) <=> NoneIn(queue, x)
          /\ LastIn(queue', x, oper[x]) <=> LastIn(queue, x, oper[x])
      BY <1>1, <1>2, <2>3, AppendFacts
    <3>4. Passable(x)'
      BY <2>1, <3>1 DEF Passable, ExistsInSai
    <3>5. /\ InHand(x)' <=> InHand(x)
          /\ IsTold(x)' <=> IsTold(x)
          /\ hand' = hand /\ found' = found
      BY <1>1, <2>1 DEF InHand, IsTold
    <3> QED BY <2>1, <3>1, <3>2, <3>3, <3>4, <3>5 DEF LastWord
  <2> QED BY <2>2, <2>3
<1>10. OwedInv'
    BY <1>9 DEF OwedInv
<1> QED BY <1>6, <1>7, <1>8, <1>10 DEF EventsInv

\* The oldest record of the socket goes to the thread's hand.
LEMMA ReceiveStep ==
    ASSUME EventsInv, Receive
    PROVE  EventsInv'
<1> DEFINE e == Head(queue)
<1>1. /\ queue \in Seq(Event) /\ queue # <<>> /\ hand = NoEvent /\ found = NoPort
      /\ hand' = e /\ queue' = Tail(queue)
      /\ UNCHANGED <<vars, init, oper, batch, found, listener, told, npuOper, owed, sent>>
    BY DEF Receive, EventsInv, EventsTypeOK, FoundOfHand
<1>2. e \in Event /\ queue' \in Seq(Event) /\ e # NoEvent
    BY <1>1, SeqFacts, EventsAssumption
<1>3. IInv' /\ EventsTypeOK' /\ InitOrder' /\ BatchOnce' /\ SwitchTrue' /\ FoundOfHand'
    BY <1>1, <1>2, StutterStep
    DEF EventsInv, EventsTypeOK, InitOrder, BatchOnce, SwitchTrue, FoundOfHand, vars
<1> HIDE DEF e
<1>4. ASSUME NEW x \in owed
      PROVE  Passable(x)' /\ LastWord(x)'
  <2>1. Passable(x) /\ LastWord(x)
    BY <1>4 DEF EventsInv, OwedInv
  <2>2. /\ oper' = oper /\ rev' = rev /\ sai' = sai /\ listener' = listener
        /\ batch' = batch /\ found' = NoPort
    BY <1>1 DEF vars
  <2>3. Passable(x)'
    BY <2>1, <2>2 DEF Passable, ExistsInSai
  <2>4. IsTold(x)' <=> IsTold(x)
    BY <1>1, <2>2 DEF IsTold
  <2>5. NoneIn(queue, x) <=> e.of # x /\ NoneIn(queue', x)
    BY <1>1, TailFacts DEF e
  <2>6. LastIn(queue, x, oper[x]) =>
            LastIn(queue', x, oper[x]) \/ (NoneIn(queue', x) /\ e.of = x /\ e.state = oper[x])
    BY <1>1, TailFacts DEF e
  <2>7. ~InHand(x) /\ (InHand(x)' <=> e.of = x)
    BY <1>1, <1>2 DEF InHand
  <2>8. x # "switch" => rev[x] # NoPort
    BY <2>1 DEF Passable
  <2> QED BY <1>1, <2>1, <2>2, <2>3, <2>4, <2>5, <2>6, <2>7, <2>8 DEF LastWord
<1>5. OwedInv'
    BY <1>1, <1>4 DEF OwedInv
<1> QED BY <1>3, <1>5 DEF EventsInv

\* What the thread does with the record in its hand.
LEMMA HandStep ==
    ASSUME EventsInv, TakeSwitch \/ Translate \/ Deliver
    PROVE  EventsInv'
<1>1. /\ hand # NoEvent /\ hand \in Event
      /\ hand' \in {hand, NoEvent}
      /\ UNCHANGED <<vars, init, oper, batch, queue, listener, owed, sent>>
    BY DEF TakeSwitch, Translate, Deliver, EventsInv, EventsTypeOK, FoundOfHand
<1>2. hand.of \in Source /\ hand.state \in LinkState
    BY <1>1 DEF Event, Source
<1>3. IInv' /\ InitOrder' /\ BatchOnce' /\ SwitchTrue'
    BY <1>1, StutterStep DEF EventsInv, InitOrder, BatchOnce, SwitchTrue, vars
<1>4. found' \in HwPort \cup {NoPort}
    BY <1>2 DEF TakeSwitch, Translate, Deliver, EventsInv, EventsTypeOK, IInv, TypeOK, Oid, Source
<1>5. told' \in [HwPort -> LinkState \cup {"none"}]
    BY <1>2 DEF TakeSwitch, Translate, Deliver, EventsInv, EventsTypeOK
<1>6. EventsTypeOK'
    BY <1>1, <1>4, <1>5 DEF EventsInv, EventsTypeOK
<1>7. FoundOfHand'
    BY DEF TakeSwitch, Translate, Deliver, EventsInv, FoundOfHand
<1>8. ASSUME NEW x \in owed
      PROVE  Passable(x)' /\ LastWord(x)'
  <2>1. x \in Source /\ Passable(x) /\ LastWord(x)
    BY <1>8 DEF EventsInv, EventsTypeOK, OwedInv
  <2>2. /\ oper' = oper /\ rev' = rev /\ sai' = sai /\ listener' = listener
        /\ batch' = batch /\ queue' = queue
    BY <1>1 DEF vars
  <2>3. Passable(x)'
    BY <2>1, <2>2 DEF Passable, ExistsInSai
  <2>4. CASE LastIn(batch, x, oper[x]) \/ (NoneIn(batch, x) /\ LastIn(queue, x, oper[x]))
    BY <2>2, <2>3, <2>4 DEF LastWord
  <2>5. CASE /\ NoneIn(batch, x) /\ NoneIn(queue, x)
             /\ InHand(x) /\ hand.state = oper[x] /\ (found # NoPort => found = rev[x])
    <3>1. hand.of = x /\ (x # "switch" => rev[x] # NoPort /\ listener)
      BY <2>1, <2>5 DEF InHand, Passable
    <3>2. CASE TakeSwitch
      BY <2>2, <2>3, <2>5, <3>1, <3>2 DEF TakeSwitch, LastWord, InHand, IsTold
    <3>3. CASE Translate
      BY <2>2, <2>3, <2>5, <3>1, <3>3 DEF Translate, LastWord, InHand
    <3>4. CASE Deliver
      <4>1. /\ x # "switch" /\ found = rev[x] /\ found \in HwPort
            /\ told \in [HwPort -> LinkState \cup {"none"}]
        BY <2>5, <3>1, <3>4 DEF Deliver, EventsInv, EventsTypeOK, FoundOfHand
      <4>2. told'[rev[x]] = oper[x]
        BY <2>5, <3>1, <3>4, <4>1 DEF Deliver
      <4> QED BY <2>2, <2>3, <2>5, <3>1, <3>4, <4>1, <4>2 DEF Deliver, LastWord, InHand, IsTold
    <3> QED BY <3>2, <3>3, <3>4
  <2>6. CASE /\ NoneIn(batch, x) /\ NoneIn(queue, x)
             /\ ~InHand(x) /\ IsTold(x) /\ (x # "switch" => found # rev[x])
    <3>1. hand.of # x /\ ~InHand(x)'
      BY <1>1, <2>6 DEF InHand
    <3>2. x # "switch" => rev[x] # NoPort
      BY <2>1 DEF Passable
    <3>3. CASE TakeSwitch
      BY <2>2, <2>3, <2>6, <3>1, <3>3 DEF TakeSwitch, LastWord, IsTold
    <3>4. CASE Translate
      <4>1. x # "switch" => found' # rev[x]
        <5> SUFFICES ASSUME x # "switch", rev[hand.of] = rev[x]
                     PROVE  FALSE
          BY <3>4 DEF Translate
        <5>1. x \in Oid /\ hand.of \in Oid /\ rev[x] \in HwPort
          BY <1>2, <2>1, <3>2, <3>4 DEF Translate, Source, Oid, EventsInv, IInv, TypeOK
        <5> QED BY <3>1, <5>1 DEF EventsInv, IInv, TablesAgree
      <4> QED BY <2>2, <2>3, <2>6, <3>1, <3>4, <4>1 DEF Translate, LastWord, IsTold
    <3>5. CASE Deliver
      <4>1. IsTold(x)'
        BY <2>2, <2>6, <3>5 DEF Deliver, IsTold, EventsInv, EventsTypeOK
      <4> QED BY <2>2, <2>3, <2>6, <3>1, <3>2, <3>5, <4>1 DEF Deliver, LastWord
    <3> QED BY <3>3, <3>4, <3>5
  <2> QED BY <2>1, <2>4, <2>5, <2>6 DEF LastWord
<1>9. OwedInv'
    BY <1>1, <1>8 DEF OwedInv
<1> QED BY <1>3, <1>6, <1>7, <1>9 DEF EventsInv

\* Every step of the composition keeps the invariant.
LEMMA EventsNext == EventsInv /\ [ENext]_<<vars, evars>> => EventsInv'
<1> SUFFICES ASSUME EventsInv, [ENext]_<<vars, evars>>
             PROVE  EventsInv'
    OBVIOUS
<1>1. CASE UNCHANGED <<vars, evars>>
    BY <1>1, StartEventsStep
<1>2. CASE EventThread
    BY <1>2, ReceiveStep, HandStep DEF EventThread
<1>3. CASE \E x \in Batches : (\A i, j \in 1 .. Len(x) : x[i] = x[j] => i = j) /\ LinksChange(x)
    BY <1>3, LinksChangeStep
<1> QED BY <1>1, <1>2, <1>3, StartEventsStep, PortMapEventsStep, SwitchChangesStep, SendStep
        DEF ENext, Failed

\* EventsInv holds in every state of every instance of the composition.
THEOREM EventsInvariance == ESpec => []EventsInv
    BY InitEvents, EventsNext, PTL DEF ESpec

\* Whatever ports come and go while a record is in the socket or in the hands of
\* the thread: once everything is delivered, the last state the upper layer was
\* told of a port that changed while it was mapped and listened to, and has been
\* mapped there since, is the state of its link; and so it is for the switch.
THEOREM ToldAlwaysAgrees == ESpec => []ToldAgrees
<1>1. EventsInv => ToldAgrees
  <2> SUFFICES ASSUME EventsInv, Delivered, NEW x \in owed
               PROVE  IsTold(x)
    BY DEF ToldAgrees
  <2>1. LastWord(x)
    BY DEF EventsInv, OwedInv
  <2>2. ~LastIn(batch, x, oper[x]) /\ ~LastIn(queue, x, oper[x]) /\ ~InHand(x)
    BY DEF Delivered, LastIn, InHand
  <2> QED BY <2>1, <2>2 DEF LastWord
<1> QED BY <1>1, EventsInvariance, PTL

\* The start and the event thread add nothing to what the port map does: every
\* theorem above about Spec, OneCaller's included, holds of the composition.
THEOREM CompositionKeepsPortMap == ESpec => Spec
<1>1. EInit => Init
    BY DEF EInit
<1>2. EventsInv /\ [ENext]_<<vars, evars>> => [Next]_vars
    BY DEF ENext, StartThread, CreateSwitch, InitFails, PortMapStep, Failed, Register,
           LinksChange, SwitchChanges, Send, EventThread, Receive, TakeSwitch, Translate,
           Deliver, EventsInv, InitOrder, Next, Boot, BootFails
<1> QED BY <1>1, <1>2, EventsInvariance, PTL DEF ESpec, Spec
=============================================================================
