---------------------------- MODULE NdiFdbProofs ----------------------------
(***************************************************************************)
(* What NdiFdb says of LAGs and their bridge ports, and of what the NAS    *)
(* knows of MAC entries, for every set of ports, LAGs, VLANs and addresses *)
(* and whatever SAI stops.                                                 *)
(***************************************************************************)
EXTENDS NdiFdb, FiniteSetTheorems, SequenceTheorems, WellFoundedInduction, TLAPS

\* The inductive invariant.  A port that may join a LAG is in the cache, so it is
\* no member: its bridge port goes before it becomes one.  A port that leaves is
\* in lag_member_to_port_map, and without a bridge port by OneForwarder: the one it
\* is given is new and whole.
IInv ==
    /\ LagTypeOK
    /\ OneForwarder
    /\ Served

-----------------------------------------------------------------------------
LEMMA WholeType == Whole \in BridgePort
BY DEF Whole, BridgePort

\* What the outcomes of a creation and of a removal do to the bridge port.
LEMMA NotMadeType ==
    ASSUME LagTypeOK, NEW t \in Target, bp[t] = None, NotMade(t)
    PROVE  \E left \in BridgePort \cup {None} : bp' = [bp EXCEPT ![t] = left]
BY DEF NotMade, Leftovers, BridgePort

LEMMA NotUnmadeType ==
    ASSUME LagTypeOK, NEW t \in cached, NotUnmade(t)
    PROVE  \E left \in BridgePort : bp' = [bp EXCEPT ![t] = left]
<1>1. bp[t] \in BridgePort
    BY DEF LagTypeOK
<1>2. CASE UNCHANGED bp
    BY <1>1, <1>2 DEF LagTypeOK
<1>3. CASE bp' = [bp EXCEPT ![t].up = FALSE]
    <2>1. [bp[t] EXCEPT !.up = FALSE] \in BridgePort
        BY <1>1 DEF BridgePort
    <2> QED BY <1>3, <2>1
<1>4. CASE \E stp \in {bp[t].stp, FALSE} : bp' = [bp EXCEPT ![t].up = FALSE, ![t].stp = stp]
    <2>1. PICK stp \in {bp[t].stp, FALSE} : bp' = [bp EXCEPT ![t].up = FALSE, ![t].stp = stp]
        BY <1>4
    <2>2. t \in Target /\ bp \in [Target -> BridgePort \cup {None}]
        BY DEF LagTypeOK
    <2>3. bp' = [bp EXCEPT ![t] = [bp[t] EXCEPT !.up = FALSE, !.stp = stp]]
        BY <2>1, <2>2
    <2>4. [bp[t] EXCEPT !.up = FALSE, !.stp = stp] \in BridgePort
        BY <1>1 DEF BridgePort
    <2> QED BY <2>3, <2>4
<1> QED BY <1>2, <1>3, <1>4 DEF NotUnmade

-----------------------------------------------------------------------------
\* At the start every port is on its own.
LEMMA InitIInv == Init => IInv
<1> SUFFICES ASSUME Init PROVE IInv
    OBVIOUS
<1> USE FdbAssumption, WholeType DEF Init
<1>1. LagTypeOK
    BY DEF LagTypeOK, Target
<1>2. OneForwarder
    BY DEF OneForwarder
<1>3. Served
    BY DEF Served, Target
<1> QED BY <1>1, <1>2, <1>3 DEF IInv

\* A new LAG is in the cache with a whole bridge port.
LEMMA CreateLagStep ==
    ASSUME IInv, NEW l \in Lag, CreateLag(l)
    PROVE  IInv'
<1> USE FdbAssumption DEF IInv, CreateLag, Made
<1>1. LagTypeOK'
    BY WholeType DEF LagTypeOK, Target
<1>2. OneForwarder'
    BY DEF LagTypeOK, OneForwarder, Target
<1>3. Served'
    BY DEF LagTypeOK, Served, Target
<1> QED BY <1>1, <1>2, <1>3

LEMMA CreateLagStopsStep ==
    ASSUME IInv, NEW l \in Lag, CreateLagStops(l)
    PROVE  IInv'
<1> USE FdbAssumption DEF IInv, CreateLagStops, Hurt
<1>1. PICK left \in BridgePort \cup {None} : bp' = [bp EXCEPT ![l] = left]
    BY NotMadeType DEF Target
<1>2. LagTypeOK'
    BY <1>1 DEF LagTypeOK, Target
<1>3. OneForwarder'
    BY <1>1 DEF LagTypeOK, OneForwarder, Target
<1>4. Served'
    BY <1>1 DEF LagTypeOK, Served, Target
<1> QED BY <1>2, <1>3, <1>4

\* A LAG that goes has no members.
LEMMA DeleteLagStep ==
    ASSUME IInv, NEW l \in Lag, DeleteLag(l)
    PROVE  IInv'
<1> USE FdbAssumption DEF IInv, DeleteLag, Unmade, HasMembers
<1>1. LagTypeOK'
    BY DEF LagTypeOK, Target
<1>2. OneForwarder'
    BY DEF LagTypeOK, OneForwarder, Target
<1>3. Served'
    BY DEF LagTypeOK, Served, Target
<1> QED BY <1>1, <1>2, <1>3

\* What DeleteLagStops and AddPortStops do.
RemovalStops(t) ==
    /\ \/ Unmade(t)
       \/ NotUnmade(t) /\ UNCHANGED cached
    /\ Hurt(t)
    /\ UNCHANGED <<lags, member, lagmap>>

\* A removal SAI stops changes the bridge port of t, and only that one: t is hurt.
LEMMA RemovalStopsStep ==
    ASSUME IInv, NEW t \in cached,
           RemovalStops(t)
    PROVE  IInv'
<1> USE FdbAssumption DEF IInv, RemovalStops, Hurt
<1>1. PICK left \in BridgePort \cup {None} :
         /\ bp' = [bp EXCEPT ![t] = left]
         /\ \/ left = None /\ cached' = cached \ {t}
            \/ left # None /\ cached' = cached
    BY NotUnmadeType DEF Unmade
<1>2. t \in Target /\ bp[t] # None
    BY DEF LagTypeOK
<1>3. LagTypeOK'
    BY <1>1, <1>2 DEF LagTypeOK
<1>4. OneForwarder'
    BY <1>1, <1>2 DEF LagTypeOK, OneForwarder, Target
<1>5. Served'
    BY <1>1, <1>2 DEF LagTypeOK, Served, Target
<1> QED BY <1>3, <1>4, <1>5

\* A port that joins is in the map of members and no longer in the cache.
LEMMA AddPortStep ==
    ASSUME IInv, NEW l \in Lag, NEW p \in Port, AddPort(l, p)
    PROVE  IInv'
<1> USE FdbAssumption DEF IInv, AddPort, Unmade
<1>1. LagTypeOK'
    BY DEF LagTypeOK, Target
<1>2. OneForwarder'
    BY DEF LagTypeOK, OneForwarder, Target
<1>3. Served'
    BY DEF LagTypeOK, Served, Target
<1> QED BY <1>1, <1>2, <1>3

\* A port that leaves gets a bridge port where there was none.
LEMMA DelPortStep ==
    ASSUME IInv, NEW p \in Port, DelPort(p)
    PROVE  IInv'
<1> USE FdbAssumption DEF IInv, DelPort, Made
<1>1. LagTypeOK'
    BY WholeType DEF LagTypeOK, Target
<1>2. OneForwarder'
    BY DEF LagTypeOK, OneForwarder, Target
<1>3. Served'
    BY DEF LagTypeOK, Served, Target
<1> QED BY <1>1, <1>2, <1>3

LEMMA DelPortStopsStep ==
    ASSUME IInv, NEW p \in Port, DelPortStops(p)
    PROVE  IInv'
<1> USE FdbAssumption DEF IInv, DelPortStops, Hurt
<1>1. bp[p] = None
    BY DEF OneForwarder
<1>2. PICK left \in BridgePort \cup {None} : bp' = [bp EXCEPT ![p] = left]
    BY <1>1, NotMadeType DEF Target
<1>3. LagTypeOK'
    BY <1>1, <1>2 DEF LagTypeOK, Target
<1>4. OneForwarder'
    BY <1>2 DEF LagTypeOK, OneForwarder, Target
<1>5. Served'
    BY <1>2 DEF LagTypeOK, Served, Target
<1> QED BY <1>3, <1>4, <1>5

\* MAC entries, VLANs and events leave LAGs and bridge ports alone.
LEMMA OtherSteps ==
    ASSUME IInv, UNCHANGED lagVars
    PROVE  IInv'
BY DEF IInv, lagVars, LagTypeOK, OneForwarder, Served

-----------------------------------------------------------------------------
\* Every step preserves IInv.
LEMMA NextStep == IInv /\ [Next]_vars => IInv'
<1> SUFFICES ASSUME IInv, [Next]_vars PROVE IInv'
    OBVIOUS
<1>1. CASE \E e \in Entry, t \in Target : Learn(e, t) \/ Move(e, t) \/ UpdateMac(e, t)
    BY <1>1, OtherSteps DEF Learn, Move, UpdateMac, lagVars
<1>2. CASE \E e \in Entry : Age(e) \/ DeleteMac(e)
    BY <1>2, OtherSteps DEF Age, DeleteMac, lagVars
<1>3. CASE \E e \in Entry, t \in Target \cup {None}, static \in BOOLEAN : CreateMac(e, t, static)
    BY <1>3, OtherSteps DEF CreateMac, lagVars
<1>4. CASE \E n \in 1 .. MaxEvents : FdbEvents(n)
    BY <1>4, OtherSteps DEF FdbEvents, lagVars
<1>5. CASE \E types \in {{TRUE}, {FALSE}, BOOLEAN}, t \in Target, v \in Vlan :
              \/ FlushPort(t, types) \/ FlushVlan(v, types)
              \/ FlushPortVlan(t, v, types) \/ FlushAll(types)
    BY <1>5, OtherSteps DEF FlushPort, FlushVlan, FlushPortVlan, FlushAll, Flush, lagVars
<1>6. CASE \E v \in Vlan : DeleteVlan(v) \/ CreateVlan(v)
    BY <1>6, OtherSteps DEF DeleteVlan, CreateVlan, lagVars
<1>7. CASE \E l \in Lag : CreateLag(l) \/ CreateLagStops(l)
    BY <1>7, CreateLagStep, CreateLagStopsStep
<1>8. CASE \E l \in Lag : DeleteLag(l)
    BY <1>8, DeleteLagStep
<1>9. CASE \E l \in Lag : DeleteLagStops(l)
  <2>1. PICK l \in Lag : DeleteLagStops(l)
      BY <1>9
  <2> QED BY <2>1, RemovalStopsStep DEF DeleteLagStops, RemovalStops
<1>10. CASE \E l \in Lag, p \in Port : AddPort(l, p)
    BY <1>10, AddPortStep
<1>11. CASE \E l \in Lag, p \in Port : AddPortStops(l, p)
  <2>1. PICK l \in Lag, p \in Port : AddPortStops(l, p)
      BY <1>11
  <2> QED BY <2>1, RemovalStopsStep DEF AddPortStops, RemovalStops
<1>12. CASE \E p \in Port : DelPort(p) \/ DelPortStops(p)
    BY <1>12, DelPortStep, DelPortStopsStep
<1>13. CASE UNCHANGED vars
    BY <1>13, OtherSteps DEF vars
<1> QED
    BY <1>1, <1>2, <1>3, <1>4, <1>5, <1>6, <1>7, <1>8, <1>9, <1>10, <1>11, <1>12, <1>13
    DEF Next

\* IInv holds in every state of every instance.
THEOREM Invariance == Spec => []IInv
    BY InitIInv, NextStep, PTL DEF Spec

\* A port never forwards on its own and through a LAG at once.
THEOREM AlwaysOneForwarder == Spec => []OneForwarder
    BY Invariance, PTL DEF IInv

\* What no stopped call has changed has its bridge port or is in its LAG.
THEOREM AlwaysServed == Spec => []Served
    BY Invariance, PTL DEF IInv

\* The map of LAG members and the cache of bridge ports are those of SAI.
THEOREM LagTablesTypeCorrect == Spec => []LagTypeOK
    BY Invariance, PTL DEF IInv
-----------------------------------------------------------------------------
(* What the NAS knows, while events wait.                                  *)

\* Event i is the last of those about entry e that wait.
LastAt(e, i) ==
    /\ i \in DOMAIN events /\ events[i].entry = e
    /\ \A j \in DOMAIN events : events[j].entry = e => j <= i

OnOf(e) == IF fdb[e] = None THEN None ELSE fdb[e].on

\* What is or will be told of an entry last is where the switch has it.  NasAgrees
\* says so of the moments without events only, and is kept by no single step.
InFlight ==
    \A e \in Entry \ astray :
        /\ ~Waiting(e) => nas[e] = OnOf(e)
        /\ \A i \in DOMAIN events : LastAt(e, i) => Told(events[i]) = OnOf(e)

\* TypeOK apart from LagTypeOK.
EventTypeOK ==
    /\ vlans \subseteq Vlan
    /\ fdb \in [Entry -> FdbEntry \cup {None}]
    /\ events \in Seq(Event) /\ Len(events) <= MaxEvents
    /\ nas \in [Entry -> Target \cup {None}]
    /\ astray \subseteq Entry

LEMMA NatLeast ==
    ASSUME NEW S \in SUBSET Nat, S # {}
    PROVE  \E x \in S : \A y \in S : x <= y
<1> DEFINE R == OpToRel(<, Nat)
<1>1. IsWellFoundedOn(R, Nat)
    BY NatLessThanWellFounded
<1>2. \E x \in S : \A y \in S : ~ (<<y, x>> \in R)
  <2> HIDE DEF R
  <2> QED BY <1>1, WFMin
<1>3. \A x, y \in Nat : y < x => <<y, x>> \in R
    BY DEF OpToRel
<1>4. ASSUME NEW x \in S, NEW y \in S, ~ (<<y, x>> \in R)
      PROVE  x <= y
  <2> HIDE DEF R
  <2>1. x \in Int /\ y \in Int
      OBVIOUS
  <2> QED BY <1>3, <1>4, <2>1
<1> HIDE DEF R
<1> QED BY <1>2, <1>4

\* Of some places up to n, one is the last.
LEMMA Greatest ==
    ASSUME NEW n \in Nat, NEW S \in SUBSET (1 .. n), S # {}
    PROVE  \E x \in S : \A y \in S : y <= x
<1> DEFINE T == {n - x : x \in S}
<1>1. T \in SUBSET Nat /\ T # {}
  <2>1. \A x \in S : n - x \in Nat
      OBVIOUS
  <2>2. PICK x \in S : TRUE
      OBVIOUS
  <2>3. n - x \in T
      OBVIOUS
  <2> QED BY <2>1, <2>3
<1>2. PICK t \in T : \A y \in T : t <= y
    BY <1>1, NatLeast
<1>3. PICK x \in S : t = n - x
    OBVIOUS
<1>4. \A y \in S : n - x <= n - y
    BY <1>2, <1>3
<1> QED BY <1>4

\* An enumeration without repetition of a finite set misses nothing.
LEMMA SetToSeqsOnto ==
    ASSUME NEW S, IsFiniteSet(S), NEW order \in SetToSeqs(S)
    PROVE  /\ order \in Seq(S)
           /\ Len(order) = Cardinality(S)
           /\ \A x \in S : \E i \in DOMAIN order : order[i] = x
<1> DEFINE n == Cardinality(S)
<1>1. n \in Nat
    BY FS_CardinalityType
<1>2. order \in [1 .. n -> S] /\ \A i, j \in 1 .. n : i # j => order[i] # order[j]
    BY DEF SetToSeqs
<1> HIDE DEF n
<1>3. order \in Seq(S) /\ Len(order) = n
    BY <1>1, <1>2
<1>4. order \in Injection(1 .. n, S)
    BY <1>2 DEF Injection, IsInjective
<1>5. IsFiniteSet(1 .. n) /\ Cardinality(1 .. n) = n
    BY <1>1, FS_Interval
<1>6. order \in Surjection(1 .. n, S)
    BY <1>4, <1>5, FS_Injection DEF n
<1>7. \A x \in S : \E i \in 1 .. n : order[i] = x
    BY <1>6 DEF Surjection
<1> QED BY <1>2, <1>3, <1>7 DEF n

LEMMA EntryFinite == IsFiniteSet(Entry)
BY FdbAssumption, FS_Product DEF Entry

\* A step that leaves entries, events and the NAS alone.
LEMMA EventsUnchanged ==
    ASSUME EventTypeOK, InFlight, vlans' \subseteq Vlan,
           UNCHANGED <<fdb, events, nas, astray>>
    PROVE  EventTypeOK' /\ InFlight'
<1>1. EventTypeOK'
    BY DEF EventTypeOK
<1>2. InFlight'
    BY DEF InFlight, Waiting, LastAt, OnOf, Told
<1> QED BY <1>1, <1>2

\* One event more, which tells where its entry is now.
LEMMA Appended ==
    ASSUME EventTypeOK, InFlight, NEW e \in Entry, NEW ev \in Event, ev.entry = e,
           Len(events) < MaxEvents, events' = Append(events, ev),
           NEW new \in FdbEntry, fdb' = [fdb EXCEPT ![e] = new],
           Told(ev) = new.on,
           UNCHANGED <<vlans, nas, astray>>
    PROVE  EventTypeOK' /\ InFlight'
<1> USE FdbAssumption, NoneAssumption
<1>1. EventTypeOK'
    BY DEF EventTypeOK
<1>2. /\ DOMAIN events' = 1 .. Len(events) + 1 /\ DOMAIN events = 1 .. Len(events)
      /\ Len(events) \in Nat
      /\ \A i \in DOMAIN events : events'[i] = events[i]
      /\ events'[Len(events) + 1] = ev
    BY DEF EventTypeOK
<1>3. ASSUME NEW x \in Entry \ astray', ~Waiting(x)'
      PROVE  nas'[x] = OnOf(x)'
  <2>1. x # e /\ ~Waiting(x)
      BY <1>2, <1>3 DEF Waiting
  <2>2. OnOf(x)' = OnOf(x)
      BY <2>1 DEF OnOf, EventTypeOK
  <2> QED BY <2>1, <2>2, <1>3 DEF InFlight
<1>4. ASSUME NEW x \in Entry \ astray', NEW i \in DOMAIN events', LastAt(x, i)'
      PROVE  Told(events'[i]) = OnOf(x)'
  <2>1. CASE x = e
    <3>1. i = Len(events) + 1
        BY <1>2, <1>4, <2>1 DEF LastAt
    <3>2. OnOf(x)' = new.on
        BY <2>1 DEF OnOf, EventTypeOK
    <3> QED BY <3>1, <3>2, <1>2
  <2>2. CASE x # e
    <3>1. i \in DOMAIN events /\ LastAt(x, i)
        BY <1>2, <1>4, <2>2 DEF LastAt
    <3>2. OnOf(x)' = OnOf(x)
        BY <2>2 DEF OnOf, EventTypeOK
    <3> QED BY <3>1, <3>2, <1>2, <1>4 DEF InFlight
  <2> QED BY <2>1, <2>2
<1>5. \A i : Told(events[i])' = Told(events'[i])
    BY DEF Told
<1> QED BY <1>1, <1>3, <1>4, <1>5 DEF InFlight

\* The entries that are removed are told of as gone, each in an event of its own
\* after those that wait.
LEMMA RemovedStep ==
    ASSUME EventTypeOK, InFlight, NEW es \in SUBSET Entry, \A e \in es : fdb[e] # None,
           NEW kind \in {"aged", "flushed"}, Removed(es, kind),
           vlans' \subseteq Vlan, UNCHANGED <<nas, astray>>
    PROVE  EventTypeOK' /\ InFlight'
<1> USE FdbAssumption, NoneAssumption
<1>1. IsFiniteSet(es) /\ Cardinality(es) \in Nat
    BY EntryFinite, FS_Subset, FS_CardinalityType
<1>2. /\ Len(events) + Cardinality(es) <= MaxEvents
      /\ fdb' = [e \in Entry |-> IF e \in es THEN None ELSE fdb[e]]
    BY DEF Removed
<1>3. PICK order \in SetToSeqs(es) :
          events' = events \o [i \in DOMAIN order |->
                [kind |-> kind, entry |-> order[i], on |-> fdb[order[i]].on]]
    BY DEF Removed
<1>4. /\ order \in Seq(es)
      /\ Len(order) = Cardinality(es)
      /\ \A x \in es : \E i \in DOMAIN order : order[i] = x
    BY <1>1, SetToSeqsOnto
<1> DEFINE more == [i \in DOMAIN order |->
                [kind |-> kind, entry |-> order[i], on |-> fdb[order[i]].on]]
<1>5. /\ DOMAIN order = 1 .. Len(order) /\ Len(order) \in Nat
      /\ \A i \in DOMAIN order : order[i] \in es
    BY <1>4
<1>6. ASSUME NEW i \in DOMAIN order
      PROVE  more[i] \in Event /\ more[i].entry = order[i] /\ Told(more[i]) = None
  <2>1. fdb[order[i]] \in FdbEntry
      BY <1>5 DEF EventTypeOK
  <2>2. fdb[order[i]].on \in Target \cup {None}
      BY <2>1 DEF FdbEntry
  <2>3. order[i] \in Entry
      BY <1>5
  <2> QED BY <2>2, <2>3 DEF Event, EventKind, Told
<1>7. more \in Seq(Event) /\ Len(more) = Len(order)
    BY <1>5, <1>6
<1>8. /\ more \in Seq(Event) /\ DOMAIN more = 1 .. Len(order)
      /\ \A i \in 1 .. Len(order) : more[i].entry \in es /\ Told(more[i]) = None
      /\ \A x \in es : \E i \in 1 .. Len(order) : more[i].entry = x
      /\ events' = events \o more
    BY <1>3, <1>4, <1>5, <1>6, <1>7
<1> HIDE DEF more
<1>9. /\ DOMAIN events = 1 .. Len(events) /\ Len(events) \in Nat
      /\ events' \in Seq(Event) /\ Len(events') = Len(events) + Len(order)
      /\ DOMAIN events' = 1 .. Len(events) + Len(order)
      /\ \A i \in 1 .. Len(events) : events'[i] = events[i]
      /\ \A i \in 1 .. Len(order) : events'[Len(events) + i] = more[i]
  <2>1. events \in Seq(Event) /\ Len(more) = Len(order)
      BY <1>7 DEF EventTypeOK
  <2>2. /\ events \o more \in Seq(Event)
        /\ Len(events \o more) = Len(events) + Len(order)
        /\ \A i \in 1 .. Len(events) + Len(order) : (events \o more)[i] =
              IF i <= Len(events) THEN events[i] ELSE more[i - Len(events)]
    <3>1. more \in Seq(Event)
        BY <1>8
    <3>2. events \in Seq(Event)
        BY <2>1
    <3>3. /\ events \o more \in Seq(Event)
          /\ Len(events \o more) = Len(events) + Len(more)
          /\ \A i \in 1 .. Len(events) + Len(more) : (events \o more)[i] =
                IF i <= Len(events) THEN events[i] ELSE more[i - Len(events)]
        BY <3>1, <3>2, ConcatProperties
    <3> QED BY <2>1, <3>3
  <2>3. Len(events) \in Nat /\ DOMAIN events = 1 .. Len(events)
      BY <2>1
  <2>4. /\ events' \in Seq(Event) /\ Len(events') = Len(events) + Len(order)
        /\ DOMAIN events' = 1 .. Len(events) + Len(order)
      BY <1>8, <2>2
  <2>5. \A i \in 1 .. Len(events) :
           i \in 1 .. Len(events) + Len(order) /\ i <= Len(events)
      BY <1>5, <2>3
  <2>6. \A i \in 1 .. Len(order) :
           /\ Len(events) + i \in 1 .. Len(events) + Len(order)
           /\ ~(Len(events) + i <= Len(events)) /\ (Len(events) + i) - Len(events) = i
      BY <1>5, <2>3
  <2> QED BY <1>8, <2>2, <2>3, <2>4, <2>5, <2>6
<1>10. EventTypeOK'
  <2>1. fdb' \in [Entry -> FdbEntry \cup {None}]
      BY <1>2 DEF EventTypeOK
  <2>2. Len(events') <= MaxEvents
      BY <1>2, <1>4, <1>9
  <2> QED BY <1>9, <2>1, <2>2 DEF EventTypeOK
<1>11. \A x \in Entry : /\ x \in es => OnOf(x)' = None
                        /\ x \notin es => OnOf(x)' = OnOf(x)
    BY <1>2 DEF OnOf, EventTypeOK
<1>12. ASSUME NEW i \in DOMAIN events', i \notin DOMAIN events
       PROVE  events'[i].entry \in es /\ Told(events'[i]) = None
  <2>1. PICK k \in 1 .. Len(order) : i = Len(events) + k
    <3>1. i - Len(events) \in 1 .. Len(order)
        BY <1>9, <1>5, <1>12
    <3> QED BY <3>1, <1>9, <1>12
  <2> QED BY <2>1, <1>8, <1>9
<1>13. ASSUME NEW x \in es
       PROVE  \E i \in DOMAIN events' : i \notin DOMAIN events /\ events'[i].entry = x
  <2>1. PICK k \in 1 .. Len(order) : more[k].entry = x
      BY <1>8
  <2>2. Len(events) + k \in DOMAIN events' /\ Len(events) + k \notin DOMAIN events
      BY <1>5, <1>9
  <2> QED BY <2>1, <2>2, <1>9
<1>14. ASSUME NEW x \in Entry \ astray', ~Waiting(x)'
       PROVE  nas'[x] = OnOf(x)'
  <2>1. x \notin es
      BY <1>13, <1>14 DEF Waiting
  <2>2. ~Waiting(x)
      BY <1>9, <1>14 DEF Waiting
  <2> QED BY <2>1, <2>2, <1>11, <1>14 DEF InFlight
<1>15. ASSUME NEW x \in Entry \ astray', NEW i \in DOMAIN events', LastAt(x, i)'
       PROVE  Told(events'[i]) = OnOf(x)'
  <2>1. CASE x \in es
    <3>1. PICK j \in DOMAIN events' : j \notin DOMAIN events /\ events'[j].entry = x
        BY <1>13, <2>1
    <3>2. j <= i
        BY <3>1, <1>15 DEF LastAt
    <3>3. i \notin DOMAIN events
        BY <3>1, <3>2, <1>9, <1>5
    <3> QED BY <3>3, <2>1, <1>11, <1>12
  <2>2. CASE x \notin es
    <3>1. events'[i].entry = x
        BY <1>15 DEF LastAt
    <3>2. i \in DOMAIN events
        BY <3>1, <2>2, <1>12
    <3>3. LastAt(x, i)
        BY <3>2, <1>9, <1>5, <1>15 DEF LastAt
    <3> QED BY <3>2, <3>3, <2>2, <1>9, <1>11, <1>15 DEF InFlight
  <2> QED BY <2>1, <2>2
<1>16. \A i : Told(events[i])' = Told(events'[i])
    BY DEF Told
<1> QED BY <1>10, <1>14, <1>15, <1>16 DEF InFlight

\* A call of the NAS on an entry: the NAS knows what it asked for, unless events
\* of the entry wait.
LEMMA NasCall ==
    ASSUME EventTypeOK, InFlight, NEW e \in Entry, NEW new \in FdbEntry \cup {None},
           fdb' = [fdb EXCEPT ![e] = new], NEW t \in Target \cup {None},
           t = IF new = None THEN None ELSE new.on,
           nas' = [nas EXCEPT ![e] = t], Overtaken({e}), UNCHANGED <<vlans, events>>
    PROVE  EventTypeOK' /\ InFlight'
<1>1. astray' = astray \cup {x \in {e} : Waiting(x)}
    BY DEF Overtaken
<1>2. EventTypeOK'
    BY <1>1 DEF EventTypeOK
<1>3. ASSUME NEW x \in Entry \ astray'
      PROVE  /\ ~Waiting(x)' => nas'[x] = OnOf(x)'
             /\ \A i \in DOMAIN events' : LastAt(x, i)' => Told(events[i])' = OnOf(x)'
  <2>1. CASE x = e
    <3>1. ~Waiting(x)
        BY <2>1, <1>1
    <3>2. nas'[x] = t /\ OnOf(x)' = t
        BY <2>1 DEF OnOf, EventTypeOK
    <3> QED BY <3>1, <3>2 DEF Waiting, LastAt
  <2>2. CASE x # e
    <3>1. nas'[x] = nas[x] /\ OnOf(x)' = OnOf(x) /\ x \notin astray
        BY <2>2, <1>1 DEF OnOf, EventTypeOK
    <3> QED BY <3>1 DEF InFlight, Waiting, LastAt, Told
  <2> QED BY <2>1, <2>2
<1> QED BY <1>2, <1>3 DEF InFlight

\* The callback is given the first n events.  Of an entry it does not lead astray
\* it has heard all events among them, so it tells what the last of them says.
LEMMA FdbEventsStep ==
    ASSUME EventTypeOK, InFlight, cached \subseteq Target, NEW n, FdbEvents(n)
    PROVE  EventTypeOK' /\ InFlight'
<1> USE FdbAssumption
<1>1. n \in 1 .. Len(events) /\ Len(events) \in Nat /\ DOMAIN events = 1 .. Len(events)
    BY DEF FdbEvents, EventTypeOK
<1> DEFINE batch == SubSeq(events, 1, n)
           heard == Heard(batch)
           told  == {batch[i].entry : i \in heard}
<1>2. /\ DOMAIN batch = 1 .. n /\ \A i \in 1 .. n : batch[i] = events[i] /\ batch[i] \in Event
  <2>1. \A i \in 1 .. n : events[i] \in Event
      BY <1>1 DEF EventTypeOK
  <2>2. batch \in Seq(Event) /\ Len(batch) = n
      BY <1>1, <2>1, SubSeqProperties
  <2>3. \A i \in 1 .. n : batch[i] = events[i]
      BY <1>1, <2>1, SubSeqProperties
  <2> HIDE DEF batch
  <2> QED BY <2>1, <2>2, <2>3
<1>3. /\ nas' = [e \in Entry |-> IF e \in told THEN Told(batch[LastOf(batch, heard, e)])
                                               ELSE nas[e]]
      /\ astray' = astray \cup {batch[i].entry : i \in DOMAIN batch \ heard}
      /\ events' = SubSeq(events, n + 1, Len(events))
      /\ UNCHANGED <<vlans, fdb>>
    BY DEF FdbEvents, fdbVars
<1>4. /\ events' \in Seq(Event) /\ Len(events') = Len(events) - n
      /\ DOMAIN events' = 1 .. Len(events) - n
      /\ \A i \in 1 .. Len(events) - n : events'[i] = events[n + i]
  <2>1. \A i \in n + 1 .. Len(events) : events[i] \in Event
      BY <1>1 DEF EventTypeOK
  <2>2. /\ SubSeq(events, n + 1, Len(events)) \in Seq(Event)
        /\ Len(SubSeq(events, n + 1, Len(events)))
             = IF n + 1 <= Len(events) THEN Len(events) - (n + 1) + 1 ELSE 0
        /\ \A i \in 1 .. Len(events) - (n + 1) + 1 :
              SubSeq(events, n + 1, Len(events))[i] = events[(n + 1) + i - 1]
      BY <1>1, <2>1, SubSeqProperties
  <2>3. Len(events') = Len(events) - n
    <3>1. ASSUME NEW m \in Nat, NEW k \in 1 .. m
          PROVE  (IF k + 1 <= m THEN m - (k + 1) + 1 ELSE 0) = m - k
        OBVIOUS
    <3>2. (IF n + 1 <= Len(events) THEN Len(events) - (n + 1) + 1 ELSE 0) = Len(events) - n
        BY <1>1, <3>1
    <3> QED BY <1>3, <2>2, <3>2
  <2>4. \A i \in 1 .. Len(events) - n : i \in 1 .. Len(events) - (n + 1) + 1 /\ (n + 1) + i - 1 = n + i
      BY <1>1
  <2>5. \A i \in 1 .. Len(events) - n : events'[i] = events[n + i]
      BY <1>3, <2>2, <2>4
  <2>6. events' \in Seq(Event)
      BY <1>3, <2>2
  <2> QED BY <2>3, <2>5, <2>6
<1>5. heard \subseteq 1 .. n /\ \A i \in heard : batch[i].on \in cached
  <2>1. Heard(batch) \subseteq DOMAIN batch
      BY DEF Heard, Reached
  <2>2. \A i \in Heard(batch) : batch[i].on \in cached
    <3>1. ASSUME NEW i \in Heard(batch) PROVE batch[i].on \in cached
      <4>1. i \in Reached(batch) /\ i \in 1 .. n
          BY <1>2, <2>1 DEF Heard
      <4>2. i \in 1 .. i
          BY <4>1
      <4> QED BY <4>1, <4>2 DEF Reached, Translates
    <3> QED BY <3>1
  <2> QED BY <1>2, <2>1, <2>2
<1> HIDE DEF batch, heard
<1>6. ASSUME NEW e \in told
      PROVE  LET l == LastOf(batch, heard, e)
             IN  /\ l \in heard /\ batch[l].entry = e
                 /\ \A j \in heard : batch[j].entry = e => j <= l
  <2> DEFINE S == {i \in heard : batch[i].entry = e}
  <2>1. S \in SUBSET (1 .. n) /\ S # {} /\ n \in Nat
    <3>1. PICK i \in heard : batch[i].entry = e
        BY <1>6
    <3>2. i \in S
        BY <3>1
    <3> QED BY <3>2, <1>1, <1>5
  <2>2. PICK x \in S : \A y \in S : y <= x
      BY <2>1, Greatest
  <2>3. /\ x \in heard /\ batch[x].entry = e
        /\ \A j \in heard : batch[j].entry = e => j <= x
      BY <2>2
  <2> QED BY <2>3 DEF LastOf
<1>7. EventTypeOK'
  <2>1. ASSUME NEW e \in told PROVE Told(batch[LastOf(batch, heard, e)]) \in Target \cup {None}
      BY <1>5, <1>6 DEF Told
  <2>2. nas' \in [Entry -> Target \cup {None}]
      BY <1>3, <2>1 DEF EventTypeOK
  <2>3. astray' \subseteq Entry
    <3>1. \A i \in 1 .. n : batch[i].entry \in Entry
        BY <1>2 DEF Event
    <3> QED BY <1>2, <1>3, <3>1 DEF EventTypeOK
  <2>4. Len(events') <= MaxEvents
      BY <1>1, <1>4 DEF EventTypeOK
  <2> QED BY <1>3, <1>4, <2>2, <2>3, <2>4 DEF EventTypeOK
<1>8. ASSUME NEW e \in Entry \ astray'
      PROVE  /\ ~Waiting(e)' => nas'[e] = OnOf(e)'
             /\ \A i \in DOMAIN events' : LastAt(e, i)' => Told(events[i])' = OnOf(e)'
  <2>1. e \notin astray /\ \A i \in 1 .. n : events[i].entry = e => i \in heard
      BY <1>2, <1>3
  <2>2. OnOf(e)' = OnOf(e)
      BY <1>3 DEF OnOf
  <2>3. ASSUME NEW i \in DOMAIN events', LastAt(e, i)'
        PROVE  Told(events'[i]) = OnOf(e)
    <3>1. /\ n + i \in DOMAIN events /\ events[n + i].entry = e /\ events'[i] = events[n + i]
        BY <1>1, <1>4, <2>3 DEF LastAt
    <3>2. ASSUME NEW j \in DOMAIN events, events[j].entry = e PROVE j <= n + i
      <4>1. CASE j <= n
          BY <4>1, <1>1, <1>4
      <4>2. CASE j > n
        <5>1. j - n \in DOMAIN events' /\ n + (j - n) = j
            BY <4>2, <1>1, <1>4
        <5>2. events'[j - n] = events[j]
            BY <5>1, <1>4
        <5>3. j - n <= i
            BY <5>1, <5>2, <2>3, <3>2 DEF LastAt
        <5> QED BY <5>3, <1>1, <1>4
      <4> QED BY <4>1, <4>2, <1>1
    <3>3. LastAt(e, n + i)
        BY <3>1, <3>2 DEF LastAt
    <3> QED BY <3>1, <3>3, <2>1 DEF InFlight
  <2>4. ASSUME ~Waiting(e)'
        PROVE  nas'[e] = OnOf(e)
    <3>1. \A j \in DOMAIN events : events[j].entry = e => j <= n
      <4> SUFFICES ASSUME NEW j \in DOMAIN events, events[j].entry = e, j > n PROVE FALSE
          BY <1>1
      <4>1. j - n \in DOMAIN events' /\ n + (j - n) = j
          BY <1>1, <1>4
      <4>2. events'[j - n] = events[j]
          BY <4>1, <1>4
      <4> QED BY <4>1, <4>2, <2>4 DEF Waiting
    <3>2. CASE e \in told
      <4> DEFINE l == LastOf(batch, heard, e)
      <4>1. /\ l \in heard /\ batch[l].entry = e
            /\ \A j \in heard : batch[j].entry = e => j <= l
          BY <1>6, <3>2
      <4>2. nas'[e] = Told(batch[l])
          BY <1>3, <3>2
      <4> HIDE DEF l
      <4>3. l \in 1 .. n /\ l \in DOMAIN events
          BY <4>1, <1>5, <1>1
      <4>4. ASSUME NEW j \in DOMAIN events, events[j].entry = e PROVE j <= l
        <5>1. j \in 1 .. n
            BY <4>4, <3>1, <1>1
        <5>2. j \in heard /\ batch[j].entry = e
            BY <5>1, <4>4, <2>1, <1>2
        <5> QED BY <5>2, <4>1
      <4>5. LastAt(e, l)
          BY <4>1, <4>3, <4>4, <1>2 DEF LastAt
      <4>6. Told(events[l]) = OnOf(e)
          BY <4>3, <4>5, <2>1 DEF InFlight
      <4> QED BY <4>2, <4>3, <4>6, <1>2
    <3>3. CASE e \notin told
      <4>1. nas'[e] = nas[e]
          BY <1>3, <3>3
      <4>2. ~Waiting(e)
        <5> SUFFICES ASSUME NEW j \in DOMAIN events, events[j].entry = e PROVE FALSE
            BY DEF Waiting
        <5>1. j \in 1 .. n
            BY <3>1, <1>1
        <5>2. j \in heard /\ batch[j].entry = e
            BY <5>1, <2>1, <1>2
        <5> QED BY <5>2, <3>3
      <4> QED BY <4>1, <4>2, <2>1 DEF InFlight
    <3> QED BY <3>2, <3>3
  <2>5. \A i : Told(events[i])' = Told(events'[i])
      BY DEF Told
  <2> QED BY <2>2, <2>3, <2>4, <2>5
<1> QED BY <1>7, <1>8 DEF InFlight

LEMMA InitEInv == Init => EventTypeOK /\ InFlight
<1> SUFFICES ASSUME Init PROVE EventTypeOK /\ InFlight
    OBVIOUS
<1> USE FdbAssumption DEF Init
<1>1. events \in Seq(Event) /\ Len(events) = 0
    OBVIOUS
<1>2. EventTypeOK
    BY <1>1 DEF EventTypeOK
<1>3. InFlight
    BY DEF InFlight, LastAt, OnOf
<1> QED BY <1>2, <1>3

\* Every step keeps what the NAS knows and is yet to hear, given what holds of the
\* bridge ports.
LEMMA EventStep ==
    ASSUME IInv, EventTypeOK, InFlight, [Next]_vars
    PROVE  EventTypeOK' /\ InFlight'
<1> USE FdbAssumption, NoneAssumption
<1>1. /\ cached \subseteq Target
      /\ \A kind : \A e \in Entry, t \in Target : kind \in EventKind =>
            [kind |-> kind, entry |-> e, on |-> t] \in Event
      /\ \A t \in Target \cup {None}, static \in BOOLEAN : [on |-> t, static |-> static] \in FdbEntry
      /\ vlans \subseteq Vlan
    BY DEF IInv, LagTypeOK, Event, FdbEntry, EventTypeOK
<1>2. ASSUME NEW t \in Target
      PROVE  On(t) \in SUBSET Entry /\ \A e \in On(t) : fdb[e] # None
    BY DEF On
<1>3. ASSUME NEW ts, NEW vs, NEW types
      PROVE  Matching(ts, vs, types) \in SUBSET Entry /\ \A e \in Matching(ts, vs, types) : fdb[e] # None
    BY DEF Matching
<1>4. ASSUME NEW t \in Target, Unmade(t) PROVE EventTypeOK' /\ InFlight'
    BY <1>1, <1>2, <1>4, RemovedStep DEF Unmade
<1>5. ASSUME NEW t \in Target, NotUnmade(t) PROVE EventTypeOK' /\ InFlight'
  <2>1. CASE UNCHANGED fdbVars
      BY <1>1, <2>1, EventsUnchanged DEF fdbVars
  <2>2. CASE Removed(On(t), "flushed") /\ UNCHANGED <<vlans, nas, astray>>
      BY <1>1, <1>2, <2>2, RemovedStep
  <2> QED BY <1>5, <2>1, <2>2 DEF NotUnmade
<1>6. ASSUME NEW e \in Entry, NEW t \in Target, Learn(e, t)
      PROVE  EventTypeOK' /\ InFlight'
  <2> DEFINE ev == [kind |-> "learned", entry |-> e, on |-> t]
             new == [on |-> t, static |-> FALSE]
  <2>1. ev \in Event /\ ev.entry = e /\ Told(ev) = t
      BY <1>1 DEF EventKind, Told
  <2>2. new \in FdbEntry /\ new.on = t
      BY <1>1
  <2>3. /\ Len(events) < MaxEvents /\ events' = Append(events, ev)
        /\ fdb' = [fdb EXCEPT ![e] = new] /\ UNCHANGED <<vlans, nas, astray>>
      BY <1>6 DEF Learn, Tells
  <2> HIDE DEF ev, new
  <2> QED BY <2>1, <2>2, <2>3, Appended
<1>7. ASSUME NEW e \in Entry, NEW t \in Target, Move(e, t)
      PROVE  EventTypeOK' /\ InFlight'
  <2> DEFINE ev == [kind |-> "moved", entry |-> e, on |-> t]
             new == [fdb[e] EXCEPT !.on = t]
  <2>1. ev \in Event /\ ev.entry = e /\ Told(ev) = t
      BY <1>1 DEF EventKind, Told
  <2>2. fdb[e] \in FdbEntry
      BY <1>7 DEF Move, EventTypeOK
  <2>3. new \in FdbEntry /\ new.on = t
      BY <2>2 DEF FdbEntry
  <2>4. /\ Len(events) < MaxEvents /\ events' = Append(events, ev)
        /\ fdb' = [fdb EXCEPT ![e] = new] /\ UNCHANGED <<vlans, nas, astray>>
      BY <1>7 DEF Move, Tells, EventTypeOK
  <2> HIDE DEF ev, new
  <2> QED BY <2>1, <2>3, <2>4, Appended
<1>8. ASSUME NEW e \in Entry, Age(e)
      PROVE  EventTypeOK' /\ InFlight'
    BY <1>1, <1>8, RemovedStep DEF Age
<1>9. ASSUME NEW e \in Entry, NEW t \in Target \cup {None}, NEW static \in BOOLEAN, CreateMac(e, t, static)
      PROVE  EventTypeOK' /\ InFlight'
  <2> DEFINE new == [on |-> t, static |-> static]
  <2>1. new \in FdbEntry \cup {None} /\ t = IF new = None THEN None ELSE new.on
      BY <1>1
  <2>2. /\ fdb' = [fdb EXCEPT ![e] = new] /\ nas' = [nas EXCEPT ![e] = t]
        /\ Overtaken({e}) /\ UNCHANGED <<vlans, events>>
      BY <1>9 DEF CreateMac
  <2> HIDE DEF new
  <2> QED BY <2>1, <2>2, NasCall
<1>10. ASSUME NEW e \in Entry, NEW t \in Target, UpdateMac(e, t)
       PROVE  EventTypeOK' /\ InFlight'
  <2> DEFINE new == [fdb[e] EXCEPT !.on = t]
  <2>1. fdb[e] \in FdbEntry
      BY <1>10 DEF UpdateMac, EventTypeOK
  <2>2. new \in FdbEntry /\ new.on = t
      BY <2>1 DEF FdbEntry
  <2>3. /\ fdb' = [fdb EXCEPT ![e] = new] /\ nas' = [nas EXCEPT ![e] = t]
        /\ Overtaken({e}) /\ UNCHANGED <<vlans, events>>
      BY <1>10 DEF UpdateMac, EventTypeOK
  <2> HIDE DEF new
  <2> QED BY <2>2, <2>3, NasCall
<1>11. ASSUME NEW e \in Entry, DeleteMac(e)
       PROVE  EventTypeOK' /\ InFlight'
    BY <1>11, NasCall DEF DeleteMac
<1>12. ASSUME NEW ts, NEW vs, NEW types, Flush(ts, vs, types)
       PROVE  EventTypeOK' /\ InFlight'
    BY <1>1, <1>3, <1>12, RemovedStep DEF Flush
<1>13. ASSUME NEW v \in Vlan, DeleteVlan(v)
       PROVE  EventTypeOK' /\ InFlight'
    BY <1>1, <1>3, <1>13, RemovedStep DEF DeleteVlan
<1>14. ASSUME NEW v \in Vlan, CreateVlan(v)
       PROVE  EventTypeOK' /\ InFlight'
    BY <1>1, <1>14, EventsUnchanged DEF CreateVlan
<1>15. ASSUME UNCHANGED fdbVars
       PROVE  EventTypeOK' /\ InFlight'
    BY <1>1, <1>15, EventsUnchanged DEF fdbVars
<1>16. CASE \E e \in Entry, t \in Target : Learn(e, t) \/ Move(e, t) \/ UpdateMac(e, t)
    BY <1>16, <1>6, <1>7, <1>10
<1>17. CASE \E e \in Entry : Age(e) \/ DeleteMac(e)
    BY <1>17, <1>8, <1>11
<1>18. CASE \E e \in Entry, t \in Target \cup {None}, static \in BOOLEAN : CreateMac(e, t, static)
    BY <1>18, <1>9
<1>19. CASE \E n \in 1 .. MaxEvents : FdbEvents(n)
    BY <1>19, <1>1, FdbEventsStep
<1>20. CASE \E types \in {{TRUE}, {FALSE}, BOOLEAN}, t \in Target, v \in Vlan :
              \/ FlushPort(t, types) \/ FlushVlan(v, types)
              \/ FlushPortVlan(t, v, types) \/ FlushAll(types)
    BY <1>20, <1>12 DEF FlushPort, FlushVlan, FlushPortVlan, FlushAll
<1>21. CASE \E v \in Vlan : DeleteVlan(v) \/ CreateVlan(v)
    BY <1>21, <1>13, <1>14
<1>22. CASE \E l \in Lag : \/ CreateLag(l) \/ CreateLagStops(l)
                           \/ DeleteLag(l) \/ DeleteLagStops(l)
                           \/ \E p \in Port : AddPort(l, p) \/ AddPortStops(l, p)
  <2>1. PICK l \in Lag : \/ CreateLag(l) \/ CreateLagStops(l)
                         \/ DeleteLag(l) \/ DeleteLagStops(l)
                         \/ \E p \in Port : AddPort(l, p) \/ AddPortStops(l, p)
      BY <1>22
  <2>2. CASE CreateLag(l) \/ CreateLagStops(l)
      BY <2>2, <1>15 DEF CreateLag, CreateLagStops
  <2>3. CASE DeleteLag(l) \/ DeleteLagStops(l)
      BY <2>3, <1>4, <1>5 DEF DeleteLag, DeleteLagStops, Target
  <2>4. CASE \E p \in Port : AddPort(l, p) \/ AddPortStops(l, p)
      BY <2>4, <1>4, <1>5 DEF AddPort, AddPortStops, Target
  <2> QED BY <2>1, <2>2, <2>3, <2>4
<1>23. CASE \E p \in Port : DelPort(p) \/ DelPortStops(p)
    BY <1>23, <1>15 DEF DelPort, DelPortStops
<1>24. CASE UNCHANGED vars
    BY <1>24, <1>15 DEF vars
<1> QED
    BY <1>16, <1>17, <1>18, <1>19, <1>20, <1>21, <1>22, <1>23, <1>24 DEF Next

LEMMA EventInvariance == Spec => [](EventTypeOK /\ InFlight)
<1>1. Init => EventTypeOK /\ InFlight
    BY InitEInv
<1>2. IInv /\ (EventTypeOK /\ InFlight) /\ [Next]_vars => (EventTypeOK /\ InFlight)'
    BY EventStep
<1> QED BY <1>1, <1>2, Invariance, PTL DEF Spec

\* Every variable of the module is of its type.
THEOREM TypesAlwaysCorrect == Spec => []TypeOK
<1>1. LagTypeOK /\ EventTypeOK => TypeOK
    BY DEF TypeOK, EventTypeOK
<1> QED BY <1>1, LagTablesTypeCorrect, EventInvariance, PTL

\* When no event waits, the NAS knows where the switch has each entry, unless it
\* was led astray: however the entries move, batches are cut and ports, LAGs and
\* VLANs come and go meanwhile.
THEOREM NasAlwaysAgrees == Spec => []NasAgrees
<1>1. EventTypeOK /\ InFlight => NasAgrees
    BY DEF InFlight, NasAgrees, Waiting, OnOf
<1> QED BY <1>1, EventInvariance, PTL
=============================================================================
