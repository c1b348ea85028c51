--------------------------- MODULE NdiFloodProofs ---------------------------
(***************************************************************************)
(* The record of group members that are sub-ports, and the record of the   *)
(* group of broadcasts, for every set of sub-ports, bridges and groups,    *)
(* and whatever SAI refuses.                                               *)
(***************************************************************************)
EXTENDS NdiFlood, TLAPS

\* The part of the types the members need.
MembersType ==
    /\ groups \subseteq Group
    /\ cached \subseteq SubPort
    /\ copies \in [Group -> [SubPort -> Nat]]
    /\ l2mc \in [Group -> SUBSET SubPort]

\* SAI has no members of a group it does not have.  So, by RecordedMemberFound,
\* such a group has none on record, though its deletion did not look there: the
\* group that is created again under its id starts without members in both.
GoneGroupsEmpty == \A g \in Group \ groups : Empty(g)

\* The inductive invariant.
IInv ==
    /\ MembersType
    /\ GoneGroupsEmpty
    /\ RecordedMemberFound
    /\ MembersAsRecorded

-----------------------------------------------------------------------------
\* There are no groups at the start.
LEMMA InitIInv == Init => IInv
BY DEF Init, IInv, MembersType, GoneGroupsEmpty, Empty, RecordedMemberFound, MembersAsRecorded

\* Bridges, sub-ports that are added and flooding do not touch the members, and
\* take no sub-port out of the cache.
LEMMA OtherSteps ==
    ASSUME IInv, UNCHANGED <<groups, copies, l2mc, extra>>,
           cached \subseteq cached', cached' \subseteq SubPort
    PROVE  IInv'
BY DEF IInv, MembersType, GoneGroupsEmpty, Empty, RecordedMemberFound, MembersAsRecorded

\* A sub-port that goes is a member of no group, so on no record.
LEMMA DeleteSubPortStep ==
    ASSUME IInv, NEW s \in SubPort, DeleteSubPort(s)
    PROVE  IInv'
<1> USE DEF IInv, MembersType, DeleteSubPort
<1>1. \A g \in Group : copies[g][s] = 0 /\ s \notin l2mc[g]
    BY DEF IsMember, RecordedMemberFound
<1>2. MembersType' /\ GoneGroupsEmpty' /\ MembersAsRecorded'
    BY DEF GoneGroupsEmpty, Empty, MembersAsRecorded
<1>3. RecordedMemberFound'
    BY <1>1 DEF RecordedMemberFound
<1> QED BY <1>2, <1>3

LEMMA CreateGroupStep ==
    ASSUME IInv, NEW g \in Group, CreateGroup(g)
    PROVE  IInv'
<1> USE DEF IInv, MembersType, CreateGroup
<1>1. l2mc[g] = {} /\ \A s \in SubPort : copies[g][s] = 0
    BY DEF GoneGroupsEmpty, Empty, RecordedMemberFound
<1>2. MembersType' /\ GoneGroupsEmpty' /\ RecordedMemberFound'
    BY DEF GoneGroupsEmpty, Empty, RecordedMemberFound
<1>3. MembersAsRecorded'
    BY <1>1 DEF MembersAsRecorded
<1> QED BY <1>2, <1>3

LEMMA DeleteGroupStep ==
    ASSUME IInv, NEW g \in Group, DeleteGroup(g)
    PROVE  IInv'
<1> USE DEF IInv, MembersType, DeleteGroup, Empty
<1>1. l2mc[g] = {}
    BY DEF RecordedMemberFound
<1>2. MembersType' /\ GoneGroupsEmpty'
    BY DEF GoneGroupsEmpty
<1>3. RecordedMemberFound'
    BY <1>1 DEF RecordedMemberFound
<1>4. MembersAsRecorded'
    BY DEF MembersAsRecorded
<1> QED BY <1>2, <1>3, <1>4

\* A member added again marks its group; the first one is new to the record.
LEMMA AddMemberStep ==
    ASSUME IInv, NEW g \in Group, NEW s \in SubPort, AddMember(g, s)
    PROVE  IInv'
<1> USE DEF IInv, MembersType, AddMember, Added
<1>1. MembersType'
    OBVIOUS
<1>2. GoneGroupsEmpty'
    BY DEF GoneGroupsEmpty, Empty
<1>3. RecordedMemberFound'
    BY DEF RecordedMemberFound
<1>4. MembersAsRecorded'
    BY DEF MembersAsRecorded
<1> QED BY <1>1, <1>2, <1>3, <1>4

LEMMA DeleteMemberStep ==
    ASSUME IInv, NEW g \in Group, NEW s \in SubPort, DeleteMember(g, s)
    PROVE  IInv'
<1> USE DEF IInv, MembersType, DeleteMember
<1>1. g \in groups
    BY DEF RecordedMemberFound
<1>2. MembersType'
    OBVIOUS
<1>3. GoneGroupsEmpty'
    BY <1>1 DEF GoneGroupsEmpty, Empty
<1>4. RecordedMemberFound'
    BY DEF RecordedMemberFound
<1>5. MembersAsRecorded'
    BY DEF MembersAsRecorded
<1> QED BY <1>2, <1>3, <1>4, <1>5

-----------------------------------------------------------------------------
\* Every step preserves IInv.
LEMMA NextStep == IInv /\ [Next]_vars => IInv'
<1> SUFFICES ASSUME IInv, [Next]_vars PROVE IInv'
    OBVIOUS
<1> USE DEF memberVars, floodVars
<1>0. cached \subseteq SubPort
    BY DEF IInv, MembersType
<1>1. CASE \E b \in Bridge : CreateBridge(b) \/ DeleteBridge(b)
    BY <1>0, <1>1, OtherSteps DEF CreateBridge, DeleteBridge
<1>2. CASE \E b \in Bridge, s \in SubPort : AddSubPort(s, b) \/ AddSubPortStops(s, b)
    BY <1>0, <1>2, OtherSteps DEF AddSubPort, AddSubPortStops
<1>3. CASE \E b \in Bridge : \E steps, asks : Start(b, steps, asks)
    BY <1>0, <1>3, OtherSteps DEF Start
<1>4. CASE RecordStep \/ GroupStep \/ ControlStep \/ StepRefused
    BY <1>0, <1>4, OtherSteps DEF RecordStep, GroupStep, ControlStep, StepRefused
<1>5. CASE \E s \in SubPort : DeleteSubPort(s)
    BY <1>5, DeleteSubPortStep
<1>6. CASE \E g \in Group : CreateGroup(g) \/ DeleteGroup(g)
    BY <1>6, CreateGroupStep, DeleteGroupStep
<1>7. CASE \E g \in Group, s \in SubPort : AddMember(g, s) \/ DeleteMember(g, s)
    BY <1>7, AddMemberStep, DeleteMemberStep
<1>8. CASE UNCHANGED vars
    BY <1>0, <1>8, OtherSteps DEF vars
<1> QED
    BY <1>1, <1>2, <1>3, <1>4, <1>5, <1>6, <1>7, <1>8
    DEF Next, FloodToGroup, FloodAllToGroup, FloodToSubPorts, FloodAllToSubPorts

\* IInv holds in every state of every instance.
THEOREM Invariance == Spec => []IInv
    BY InitIInv, NextStep, PTL DEF Spec

\* A member on record is in SAI and can be deleted.
THEOREM RecordedMembersAlwaysFound == Spec => []RecordedMemberFound
    BY Invariance, PTL DEF IInv

\* A group that never got a sub-port twice has the members on its record.
THEOREM MembersAlwaysAsRecorded == Spec => []MembersAsRecorded
    BY Invariance, PTL DEF IInv

-----------------------------------------------------------------------------
(* Flooding: what the steps that a call has to go say of the record.       *)

AnyStep == [k : Packet, what : {"record", "group", "control"},
            to : Group \cup {None} \cup Control]
StepSeq == Seq(AnyStep)

IsRecord(x) == x.what = "record"
SetsBroadcast(x) == x.what = "group" /\ x.k = "broadcast"
OfOthers(q) == \A i \in 1 .. Len(q) : ~SetsBroadcast(q[i]) /\ ~IsRecord(q[i])

\* A call changes the record once at most, right before it sets the group of
\* broadcasts, to that group.
Ordered(q) ==
    /\ \A i \in 1 .. Len(q) : IsRecord(q[i]) =>
          /\ q[i].to \in Group \cup {None}
          /\ i + 1 \in 1 .. Len(q) /\ SetsBroadcast(q[i + 1]) /\ q[i + 1].to = q[i].to
          /\ \A j \in 1 .. Len(q) : IsRecord(q[j]) => i = j
    /\ \A i, j \in 1 .. Len(q) : SetsBroadcast(q[i]) /\ SetsBroadcast(q[j]) => i = j

\* A whole call changes the record if it sets the group of broadcasts.
Whole(q) ==
    /\ Ordered(q)
    /\ \A i \in 1 .. Len(q) : SetsBroadcast(q[i]) => \E j \in 1 .. Len(q) : IsRecord(q[j])

\* Steps that touch neither the record nor the group of broadcasts come before
\* others without changing that.
LEMMA OthersBefore ==
    ASSUME NEW p \in StepSeq, NEW q \in StepSeq, OfOthers(p), Whole(q)
    PROVE  p \o q \in StepSeq /\ Whole(p \o q)
<1> DEFINE c == p \o q
<1>1. /\ c \in StepSeq /\ Len(p) \in Nat /\ Len(q) \in Nat /\ Len(c) = Len(p) + Len(q)
      /\ \A i \in 1 .. Len(p) : c[i] = p[i]
      /\ \A i \in 1 .. Len(q) : c[i + Len(p)] = q[i]
    BY DEF StepSeq
<1> HIDE DEF c
<1>2. \A i \in 1 .. Len(c) : IsRecord(c[i]) \/ SetsBroadcast(c[i]) =>
            i - Len(p) \in 1 .. Len(q) /\ c[i] = q[i - Len(p)]
  <2> SUFFICES ASSUME NEW i \in 1 .. Len(c), IsRecord(c[i]) \/ SetsBroadcast(c[i])
               PROVE  i - Len(p) \in 1 .. Len(q) /\ c[i] = q[i - Len(p)]
    OBVIOUS
  <2>1. i \notin 1 .. Len(p)
    BY <1>1 DEF OfOthers
  <2>2. i - Len(p) \in 1 .. Len(q)
    BY <1>1, <2>1
  <2>3. c[(i - Len(p)) + Len(p)] = q[i - Len(p)] /\ (i - Len(p)) + Len(p) = i
    BY <1>1, <2>2
  <2> QED BY <2>2, <2>3
<1>3. \A i \in 1 .. Len(q) : i + Len(p) \in 1 .. Len(c) /\ c[i + Len(p)] = q[i]
    BY <1>1
<1>4. ASSUME NEW i \in 1 .. Len(c), IsRecord(c[i])
      PROVE  /\ c[i].to \in Group \cup {None}
             /\ i + 1 \in 1 .. Len(c) /\ SetsBroadcast(c[i + 1]) /\ c[i + 1].to = c[i].to
             /\ \A j \in 1 .. Len(c) : IsRecord(c[j]) => i = j
  <2> DEFINE h == i - Len(p)
  <2>1. h \in 1 .. Len(q) /\ c[i] = q[h] /\ IsRecord(q[h])
    BY <1>2, <1>4
  <2>2. /\ c[i].to \in Group \cup {None}
        /\ h + 1 \in 1 .. Len(q) /\ SetsBroadcast(q[h + 1]) /\ q[h + 1].to = q[h].to
    BY <2>1 DEF Whole, Ordered
  <2>3. (h + 1) + Len(p) = i + 1
    BY <1>1
  <2>4. i + 1 \in 1 .. Len(c) /\ c[i + 1] = q[h + 1]
    BY <1>3, <2>2, <2>3
  <2>5. ASSUME NEW j \in 1 .. Len(c), IsRecord(c[j])
        PROVE  i = j
    <3>1. j - Len(p) \in 1 .. Len(q) /\ IsRecord(q[j - Len(p)])
      BY <1>2, <2>5
    <3>2. h = j - Len(p)
      BY <2>1, <3>1 DEF Whole, Ordered
    <3> QED BY <1>1, <3>2
  <2> QED BY <2>1, <2>2, <2>4, <2>5
<1>5. ASSUME NEW i \in 1 .. Len(c), NEW j \in 1 .. Len(c),
             SetsBroadcast(c[i]), SetsBroadcast(c[j])
      PROVE  i = j
  <2>1. /\ i - Len(p) \in 1 .. Len(q) /\ c[i] = q[i - Len(p)]
        /\ j - Len(p) \in 1 .. Len(q) /\ c[j] = q[j - Len(p)]
    BY <1>2, <1>5
  <2>2. i - Len(p) = j - Len(p)
    BY <1>5, <2>1 DEF Whole, Ordered
  <2> QED BY <1>1, <2>2
<1>6. ASSUME NEW i \in 1 .. Len(c), SetsBroadcast(c[i])
      PROVE  \E j \in 1 .. Len(c) : IsRecord(c[j])
  <2>1. i - Len(p) \in 1 .. Len(q) /\ c[i] = q[i - Len(p)]
    BY <1>2, <1>6
  <2>2. PICK j \in 1 .. Len(q) : IsRecord(q[j])
    BY <1>6, <2>1 DEF Whole
  <2> QED BY <1>3, <2>2
<1> QED BY <1>1, <1>4, <1>5, <1>6 DEF Whole, Ordered, c

\* The steps about other packets.
LEMMA UnrelatedSteps ==
    ASSUME NEW k \in Packet \ {"broadcast"}, NEW g \in Group \cup {None}, NEW on \in BOOLEAN
    PROVE  /\ McastSteps(k, g) \in StepSeq /\ OfOthers(McastSteps(k, g))
           /\ SubPortSteps(k, on) \in StepSeq /\ OfOthers(SubPortSteps(k, on))
           /\ McastSteps(k, g) # <<>>
<1>1. SubPortSteps(k, on) \in StepSeq /\ OfOthers(SubPortSteps(k, on))
    BY DEF SubPortSteps, Step, StepSeq, AnyStep, Control, OfOthers, IsRecord, SetsBroadcast
<1>2. McastSteps(k, g) = <<Step(k, "group", g), Step(k, "control", "l2mc_group")>>
    BY DEF McastSteps, Step
<1>3. /\ McastSteps(k, g) \in StepSeq /\ McastSteps(k, g) # <<>>
      /\ OfOthers(McastSteps(k, g))
    BY <1>2 DEF Step, StepSeq, AnyStep, Control, OfOthers, IsRecord, SetsBroadcast
<1> QED BY <1>1, <1>3

\* The elements of three steps put together.
LEMMA ThreeSteps ==
    ASSUME NEW a \in AnyStep, NEW b \in AnyStep, NEW c \in AnyStep
    PROVE  /\ <<a>> \o <<b, c>> \in StepSeq
           /\ Len(<<a>> \o <<b, c>>) = 3
           /\ (<<a>> \o <<b, c>>)[1] = a
           /\ (<<a>> \o <<b, c>>)[2] = b
           /\ (<<a>> \o <<b, c>>)[3] = c
BY DEF StepSeq

\* The steps about broadcasts: the record, the group, the control.
LEMMA BroadcastSteps ==
    ASSUME NEW g \in Group \cup {None}
    PROVE  LET q == McastSteps("broadcast", g)
           IN  q \in StepSeq /\ q # <<>> /\ Whole(q)
<1> DEFINE q == McastSteps("broadcast", g)
           a == Step("broadcast", "record", g)
           b == Step("broadcast", "group", g)
           c == Step("broadcast", "control", "l2mc_group")
<1>1. a \in AnyStep /\ b \in AnyStep /\ c \in AnyStep
    BY FloodAssumption DEF Step, AnyStep, Control
<1>2. q = <<a>> \o <<b, c>>
    BY DEF McastSteps
<1>3. q \in StepSeq /\ Len(q) = 3 /\ q[1] = a /\ q[2] = b /\ q[3] = c
  <2> HIDE DEF a, b, c, q
  <2> QED BY <1>1, <1>2, ThreeSteps
<1> HIDE DEF q
<1>4. 1 .. Len(q) = {1, 2, 3}
    BY <1>3
<1>5. Whole(q)
    BY <1>3, <1>4 DEF Whole, Ordered, Step, IsRecord, SetsBroadcast
<1>6. q # <<>>
    BY <1>3 DEF StepSeq
<1> QED BY <1>3, <1>5, <1>6 DEF q

\* What is left when the first step is done is still in order.
LEMMA TailOrdered ==
    ASSUME NEW q \in StepSeq, q # <<>>, Ordered(q)
    PROVE  /\ Len(q) \in Nat /\ Len(q) >= 1 /\ Head(q) = q[1] /\ q[1] \in AnyStep
           /\ Tail(q) \in StepSeq /\ Ordered(Tail(q))
           /\ Len(q) # 1 => Tail(q) # <<>>
           /\ \A i \in 1 .. Len(Tail(q)) : i + 1 \in 1 .. Len(q) /\ Tail(q)[i] = q[i + 1]
           /\ \A i \in 1 .. Len(q) : i # 1 => i - 1 \in 1 .. Len(Tail(q)) /\ Tail(q)[i - 1] = q[i]
<1> DEFINE t == Tail(q)
<1>1. /\ Len(q) \in Nat /\ Len(q) >= 1 /\ Head(q) = q[1] /\ q[1] \in AnyStep
      /\ t \in StepSeq /\ Len(t) = Len(q) - 1
      /\ \A i \in 1 .. Len(t) : t[i] = q[i + 1]
    BY DEF StepSeq
<1> HIDE DEF t
<1>2. Len(q) # 1 => t # <<>>
    BY <1>1 DEF StepSeq
<1>3. \A i \in 1 .. Len(t) : i + 1 \in 1 .. Len(q) /\ t[i] = q[i + 1]
    BY <1>1
<1>4. \A i \in 1 .. Len(q) : i # 1 => i - 1 \in 1 .. Len(t) /\ t[i - 1] = q[i]
    BY <1>1
<1>5. ASSUME NEW i \in 1 .. Len(t), IsRecord(t[i])
      PROVE  /\ t[i].to \in Group \cup {None}
             /\ i + 1 \in 1 .. Len(t) /\ SetsBroadcast(t[i + 1]) /\ t[i + 1].to = t[i].to
             /\ \A j \in 1 .. Len(t) : IsRecord(t[j]) => i = j
  <2> DEFINE h == i + 1
  <2>1. h \in 1 .. Len(q) /\ t[i] = q[h] /\ IsRecord(q[h])
    BY <1>3, <1>5
  <2>2. /\ t[i].to \in Group \cup {None}
        /\ h + 1 \in 1 .. Len(q) /\ SetsBroadcast(q[h + 1]) /\ q[h + 1].to = q[h].to
    BY <2>1 DEF Ordered
  <2>3. i + 1 \in 1 .. Len(t)
    BY <1>1, <2>2
  <2>4. t[i + 1] = q[h + 1]
    BY <1>3, <2>3
  <2>5. ASSUME NEW j \in 1 .. Len(t), IsRecord(t[j])
        PROVE  i = j
    <3>1. j + 1 \in 1 .. Len(q) /\ IsRecord(q[j + 1])
      BY <1>3, <2>5
    <3>2. h = j + 1
      BY <2>1, <3>1 DEF Ordered
    <3> QED BY <3>2
  <2> QED BY <2>1, <2>2, <2>3, <2>4, <2>5
<1>6. ASSUME NEW i \in 1 .. Len(t), NEW j \in 1 .. Len(t), SetsBroadcast(t[i]), SetsBroadcast(t[j])
      PROVE  i = j
  <2>1. i + 1 = j + 1
    BY <1>3, <1>6 DEF Ordered
  <2> QED BY <2>1
<1>7. Ordered(t)
    BY <1>5, <1>6 DEF Ordered
<1> QED BY <1>1, <1>2, <1>3, <1>4, <1>7 DEF t

\* What the steps to go of a call say of its bridge: its record is about to be
\* SAI's group, or is that group, and remains so until the record changes.
AboutToAgree(q, b) == SetsBroadcast(q[1]) /\ q[1].to = bcast[b]
StillAgrees(q, b) ==
    /\ bcast[b] = grp[b]["broadcast"]
    /\ \A i \in 1 .. Len(q) : SetsBroadcast(q[i]) => \E j \in 1 .. Len(q) : IsRecord(q[j])

CallState ==
    call # Idle =>
        /\ call \in [br : bridges, steps : StepSeq]
        /\ call.steps # <<>> /\ Ordered(call.steps)
        /\ call.br \notin moved => AboutToAgree(call.steps, call.br) \/ StillAgrees(call.steps, call.br)

\* A bridge that is not there has no record, or one that is known to be stale.
GoneBridges == \A b \in Bridge \ bridges : bcast[b] = None \/ b \in moved

\* SAI floods to groups it has.
GroupsExist == \A b \in bridges, k \in Packet : grp[b][k] \in groups \cup {None}

\* Between its calls the record of a bridge is SAI's group.
Settled == \A b \in bridges \ moved : call.br # b => bcast[b] = grp[b]["broadcast"]

FloodType ==
    /\ bridges \subseteq Bridge
    /\ grp \in [Bridge -> [Packet -> Group \cup {None}]]
    /\ bcast \in [Bridge -> Group \cup {None}]
    /\ groups \subseteq Group

FloodInv ==
    /\ FloodType
    /\ CallState
    /\ GoneBridges
    /\ GroupsExist
    /\ Settled

\* There are no bridges at the start.
LEMMA InitFlood == Init => FloodInv
BY DEF Init, FloodInv, FloodType, CallState, GoneBridges, GroupsExist, Settled

\* Sub-ports and members, and a group that is made.
LEMMA MembersFlood ==
    ASSUME FloodInv, UNCHANGED <<bridges, ctl, grp, bcast, call, moved>>,
           groups \subseteq groups', groups' \subseteq Group
    PROVE  FloodInv'
BY DEF FloodInv, FloodType, CallState, AboutToAgree, StillAgrees, GoneBridges, GroupsExist, Settled

\* SAI keeps a group that is flooded to.
LEMMA DeleteGroupFlood ==
    ASSUME FloodInv, NEW g \in Group, DeleteGroup(g)
    PROVE  FloodInv'
<1> USE DEF FloodInv, DeleteGroup, floodVars
<1>1. FloodType' /\ CallState' /\ GoneBridges' /\ Settled'
    BY DEF FloodType, CallState, AboutToAgree, StillAgrees, GoneBridges, Settled
<1>2. GroupsExist'
    BY DEF GroupsExist, FloodsTo
<1> QED BY <1>1, <1>2

\* A bridge made under an old id floods to no group, and has no record but a
\* stale one.
LEMMA BridgesFlood ==
    ASSUME FloodInv, NEW b \in Bridge, CreateBridge(b) \/ DeleteBridge(b)
    PROVE  FloodInv'
<1> USE DEF FloodInv
<1>1. CASE CreateBridge(b)
  <2>1. /\ b \notin bridges /\ bridges' = bridges \cup {b}
        /\ grp' = [grp EXCEPT ![b] = [k \in Packet |-> None]]
        /\ UNCHANGED <<groups, bcast, call, moved>>
    BY <1>1 DEF CreateBridge
  <2>2. FloodType' /\ GoneBridges' /\ GroupsExist'
    BY <2>1, FloodAssumption DEF FloodType, GoneBridges, GroupsExist
  <2>3. Settled'
    BY <2>1, FloodAssumption DEF FloodType, GoneBridges, Settled
  <2>4. CallState'
    <3>1. call # Idle => call.br # b /\ call.br \in Bridge
      BY <2>1 DEF CallState, FloodType
    <3> QED BY <2>1, <3>1 DEF CallState, FloodType, AboutToAgree, StillAgrees
  <2> QED BY <2>2, <2>3, <2>4
<1>2. CASE DeleteBridge(b)
  <2>1. /\ call.br # b /\ bridges' = bridges \ {b}
        /\ moved' = IF bcast[b] = None THEN moved ELSE moved \cup {b}
        /\ UNCHANGED <<groups, grp, bcast, call>>
    BY <1>2 DEF DeleteBridge
  <2>2. FloodType' /\ GoneBridges' /\ GroupsExist' /\ Settled'
    BY <2>1 DEF FloodType, GoneBridges, GroupsExist, Settled
  <2>3. CallState'
    BY <2>1 DEF CallState, AboutToAgree, StillAgrees
  <2> QED BY <2>2, <2>3
<1> QED BY <1>1, <1>2

\* A call starts with the record as SAI's group, and with steps in order.
LEMMA StartFlood ==
    ASSUME FloodInv, NEW b \in Bridge, NEW steps \in StepSeq, Whole(steps), steps # <<>>,
           NEW asks, Start(b, steps, asks)
    PROVE  FloodInv'
<1> USE DEF FloodInv
<1>1. /\ call = Idle /\ b \in bridges /\ call' = [br |-> b, steps |-> steps]
      /\ UNCHANGED <<bridges, groups, grp, bcast, moved>>
    BY DEF Start, memberVars
<1>2. b # None
    BY FloodAssumption
<1>3. FloodType' /\ GoneBridges' /\ GroupsExist' /\ Settled'
    BY <1>1, FloodAssumption DEF FloodType, GoneBridges, GroupsExist, Settled, Idle
<1>4. b \notin moved => bcast[b] = grp[b]["broadcast"]
    BY <1>1, <1>2 DEF Settled, Idle
<1>5. CallState'
    BY <1>1, <1>4 DEF CallState, AboutToAgree, StillAgrees, Whole
<1> QED BY <1>3, <1>5

\* A call that goes on has the rest of its steps to go.
LEMMA GoOnFacts ==
    ASSUME FloodInv, call # Idle, GoOn
    PROVE  /\ call.br \in bridges /\ call.br \in Bridge /\ call.br # None
           /\ call.steps \in StepSeq /\ call.steps # <<>> /\ Ordered(call.steps)
           /\ Now = call.steps[1] /\ Now \in AnyStep
           /\ \/ Len(call.steps) = 1 /\ call' = Idle
              \/ /\ Len(call.steps) # 1
                 /\ call' = [br |-> call.br, steps |-> Tail(call.steps)]
                 /\ Tail(call.steps) \in StepSeq /\ Tail(call.steps) # <<>>
                 /\ Ordered(Tail(call.steps))
<1> DEFINE q == call.steps
<1>1. /\ call \in [br : bridges, steps : StepSeq]
      /\ q \in StepSeq /\ q # <<>> /\ Ordered(q)
    BY DEF FloodInv, CallState
<1>2. call.br \in bridges /\ call.br \in Bridge /\ call.br # None
    BY <1>1, FloodAssumption DEF FloodInv, FloodType
<1>3. call' = IF Len(q) = 1 THEN Idle ELSE [br |-> call.br, steps |-> Tail(q)]
  <2>1. [call EXCEPT !.steps = Tail(q)] = [br |-> call.br, steps |-> Tail(q)]
    BY <1>1
  <2> QED BY <2>1 DEF GoOn
<1>4. Now = q[1] /\ q[1] \in AnyStep
    BY <1>1, TailOrdered DEF Now
<1> HIDE DEF q
<1>5. Len(q) # 1 => Tail(q) \in StepSeq /\ Tail(q) # <<>> /\ Ordered(Tail(q))
    BY <1>1, TailOrdered
<1> QED BY <1>1, <1>2, <1>3, <1>4, <1>5 DEF q

\* The record changes: the group of broadcasts comes next, and is that group.
LEMMA RecordFlood ==
    ASSUME FloodInv, RecordStep
    PROVE  FloodInv'
<1> DEFINE q == call.steps
           t == Tail(call.steps)
           b == call.br
<1>1. /\ call # Idle /\ GoOn /\ Now.what = "record"
      /\ bcast' = [bcast EXCEPT ![b] = Recorded(b, Now.to)]
      /\ moved' = IF Now.to = None THEN moved \ {b}
                  ELSE IF bcast[b] \notin {None, Now.to} THEN moved \cup {b} ELSE moved
      /\ UNCHANGED <<bridges, groups, grp>>
    BY DEF RecordStep, memberVars
<1>2. /\ b \in bridges /\ b \in Bridge /\ b # None
      /\ q \in StepSeq /\ q # <<>> /\ Ordered(q)
      /\ Now = q[1]
    BY <1>1, GoOnFacts
<1>3. /\ Len(q) \in Nat /\ Len(q) >= 1 /\ IsRecord(q[1])
      /\ \A i \in 1 .. Len(t) : i + 1 \in 1 .. Len(q) /\ t[i] = q[i + 1]
      /\ \A i \in 1 .. Len(q) : i # 1 => i - 1 \in 1 .. Len(t) /\ t[i - 1] = q[i]
    BY <1>1, <1>2, TailOrdered DEF IsRecord
<1>4. /\ q[1].to \in Group \cup {None}
      /\ 2 \in 1 .. Len(q) /\ SetsBroadcast(q[2]) /\ q[2].to = q[1].to
    BY <1>2, <1>3 DEF Ordered
<1>5. 1 \in 1 .. Len(t) /\ t[1] = q[2] /\ Len(q) # 1
    BY <1>3, <1>4
<1>6. /\ call' = [br |-> b, steps |-> t]
      /\ t \in StepSeq /\ t # <<>> /\ Ordered(t)
    BY <1>1, <1>5, GoOnFacts
<1> HIDE DEF q, t, b
<1>7. /\ bcast' \in [Bridge -> Group \cup {None}]
      /\ \A c \in Bridge \ {b} : bcast'[c] = bcast[c]
      /\ b \notin moved' => bcast'[b] = q[1].to
    BY <1>1, <1>2, <1>4 DEF FloodInv, FloodType, Recorded
<1>8. FloodType' /\ GroupsExist'
    BY <1>1, <1>7 DEF FloodInv, FloodType, GroupsExist
<1>9. GoneBridges' /\ Settled'
  <2>1. \A c \in Bridge \ {b} : c \in moved' <=> c \in moved
    BY <1>1
  <2> QED BY <1>1, <1>2, <1>6, <1>7, <2>1 DEF FloodInv, FloodType, GoneBridges, Settled, b
<1>10. CallState'
    BY <1>1, <1>2, <1>4, <1>5, <1>6, <1>7 DEF CallState, AboutToAgree
<1> QED BY <1>8, <1>9, <1>10 DEF FloodInv

\* What a step that is not about broadcasts leaves: what was true of the call.
LEMMA GroupFlood ==
    ASSUME FloodInv, GroupStep \/ ControlStep
    PROVE  FloodInv'
<1> DEFINE q == call.steps
           t == Tail(call.steps)
           b == call.br
<1>1. /\ call # Idle /\ GoOn /\ Now.what \in {"group", "control"}
      /\ UNCHANGED <<bridges, groups, bcast, moved>>
    BY DEF GroupStep, ControlStep, memberVars
<1>2. /\ b \in bridges /\ b \in Bridge /\ b # None
      /\ q \in StepSeq /\ q # <<>> /\ Ordered(q)
      /\ Now = q[1] /\ Now \in AnyStep
      /\ \/ Len(q) = 1 /\ call' = Idle
         \/ /\ Len(q) # 1 /\ call' = [br |-> b, steps |-> t]
            /\ t \in StepSeq /\ t # <<>> /\ Ordered(t)
    BY <1>1, GoOnFacts
<1>3. /\ Len(q) \in Nat /\ Len(q) >= 1 /\ ~IsRecord(q[1])
      /\ \A i \in 1 .. Len(t) : i + 1 \in 1 .. Len(q) /\ t[i] = q[i + 1]
      /\ \A i \in 1 .. Len(q) : i # 1 => i - 1 \in 1 .. Len(t) /\ t[i - 1] = q[i]
    BY <1>1, <1>2, TailOrdered DEF IsRecord
<1>4. /\ grp' \in [Bridge -> [Packet -> Group \cup {None}]]
      /\ \A c \in Bridge \ {b} : grp'[c] = grp[c]
      /\ \A k \in Packet : grp'[b][k] \in groups \cup {None}
      /\ SetsBroadcast(q[1]) => grp'[b]["broadcast"] = q[1].to
      /\ ~SetsBroadcast(q[1]) => grp'[b]["broadcast"] = grp[b]["broadcast"]
  <2>1. CASE GroupStep
    <3>1. /\ q[1].to \in groups \cup {None} /\ q[1].k \in Packet /\ q[1].what = "group"
          /\ grp' = [grp EXCEPT ![b] = [grp[b] EXCEPT ![q[1].k] = q[1].to]]
      BY <1>2, <2>1 DEF GroupStep, AnyStep
    <3>2. grp \in [Bridge -> [Packet -> Group \cup {None}]] /\ groups \subseteq Group
      BY DEF FloodInv, FloodType
    <3>3. \A k \in Packet : grp[b][k] \in groups \cup {None}
      BY <1>2 DEF FloodInv, GroupsExist
    <3> HIDE DEF q, t, b
    <3> QED BY <1>2, <3>1, <3>2, <3>3, FloodAssumption DEF SetsBroadcast
  <2>2. CASE ControlStep
    <3>1. grp' = grp /\ ~SetsBroadcast(q[1])
      BY <1>2, <2>2 DEF ControlStep, memberVars, SetsBroadcast
    <3> QED BY <1>2, <3>1 DEF FloodInv, FloodType, GroupsExist
  <2> QED BY <2>1, <2>2
<1> HIDE DEF q, t, b
<1>5. FloodType' /\ GroupsExist'
    BY <1>1, <1>2, <1>4 DEF FloodInv, FloodType, GroupsExist
<1>6. GoneBridges'
    BY <1>1 DEF FloodInv, GoneBridges
<1>7. ASSUME b \notin moved
      PROVE  /\ bcast[b] = grp'[b]["broadcast"]
             /\ \A i \in 1 .. Len(t) : SetsBroadcast(t[i]) => \E j \in 1 .. Len(t) : IsRecord(t[j])
  <2>1. AboutToAgree(q, b) \/ StillAgrees(q, b)
    BY <1>1, <1>7 DEF FloodInv, CallState, q, b
  <2>2. CASE SetsBroadcast(q[1])
    <3>1. \A j \in 1 .. Len(q) : ~IsRecord(q[j])
      BY <1>2, <1>3, <2>2 DEF Ordered
    <3>2. bcast[b] = q[1].to
      BY <1>3, <2>1, <2>2, <3>1 DEF AboutToAgree, StillAgrees
    <3>3. \A i \in 1 .. Len(t) : ~SetsBroadcast(t[i])
      BY <1>2, <1>3, <2>2 DEF Ordered
    <3> QED BY <1>4, <2>2, <3>2, <3>3
  <2>3. CASE ~SetsBroadcast(q[1])
    <3>1. StillAgrees(q, b)
      BY <2>1, <2>3 DEF AboutToAgree
    <3>2. ASSUME NEW i \in 1 .. Len(t), SetsBroadcast(t[i])
          PROVE  \E j \in 1 .. Len(t) : IsRecord(t[j])
      <4>1. PICK j \in 1 .. Len(q) : IsRecord(q[j])
        BY <1>3, <3>1, <3>2 DEF StillAgrees
      <4> QED BY <1>3, <4>1
    <3> QED BY <1>4, <2>3, <3>1, <3>2 DEF StillAgrees
  <2> QED BY <2>2, <2>3
<1>8. CallState'
    BY <1>1, <1>2, <1>7 DEF CallState, StillAgrees
<1>9. Settled'
    BY <1>1, <1>2, <1>4, <1>7 DEF FloodInv, FloodType, Settled, Idle, b
<1> QED BY <1>5, <1>6, <1>8, <1>9 DEF FloodInv

\* A call that is refused leaves the record as SAI's group, or marks the bridge.
LEMMA RefusedFlood ==
    ASSUME FloodInv, StepRefused
    PROVE  FloodInv'
<1> DEFINE q == call.steps
           b == call.br
<1>1. /\ call # Idle /\ call' = Idle /\ Now.what \in {"group", "control"}
      /\ moved' = IF Now.k = "broadcast" /\ Now.what = "group" THEN moved \cup {b} ELSE moved
      /\ UNCHANGED <<bridges, groups, grp, bcast>>
    BY DEF StepRefused, memberVars
<1>2. /\ b \in bridges /\ b \in Bridge
      /\ q \in StepSeq /\ q # <<>> /\ Ordered(q)
      /\ b \notin moved => AboutToAgree(q, b) \/ StillAgrees(q, b)
    BY <1>1 DEF FloodInv, FloodType, CallState
<1>3. Now = q[1]
    BY <1>2, TailOrdered DEF Now
<1> HIDE DEF q, b
<1>4. FloodType' /\ GroupsExist' /\ GoneBridges' /\ CallState'
    BY <1>1 DEF FloodInv, FloodType, GroupsExist, GoneBridges, CallState
<1>5. b \notin moved' => b \notin moved /\ bcast[b] = grp[b]["broadcast"]
    BY <1>1, <1>2, <1>3 DEF AboutToAgree, StillAgrees, SetsBroadcast
<1>6. Settled'
    BY <1>1, <1>5 DEF FloodInv, Settled, b
<1> QED BY <1>4, <1>6 DEF FloodInv

-----------------------------------------------------------------------------
\* The steps of every call of ndi_flood_control_1d_bridge.
LEMMA CallsWhole ==
    ASSUME NEW g \in Group \cup {None}, NEW on \in BOOLEAN
    PROVE  /\ AllByGroup(g) \in StepSeq /\ AllByGroup(g) # <<>> /\ Whole(AllByGroup(g))
           /\ AllBySubPort(on) \in StepSeq /\ AllBySubPort(on) # <<>> /\ Whole(AllBySubPort(on))
           /\ \A k \in Packet :
                 /\ McastSteps(k, g) \in StepSeq /\ McastSteps(k, g) # <<>>
                 /\ Whole(McastSteps(k, g))
                 /\ SubPortSteps(k, on) \in StepSeq /\ SubPortSteps(k, on) # <<>>
                 /\ Whole(SubPortSteps(k, on))
<1>1. ASSUME NEW q \in StepSeq, OfOthers(q)
      PROVE  Whole(q)
    BY <1>1 DEF OfOthers, Whole, Ordered
<1>2. <<>> \in StepSeq /\ OfOthers(<<>>)
    BY DEF StepSeq, OfOthers
<1>3. ASSUME NEW p \in StepSeq, NEW q \in StepSeq, p # <<>> \/ q # <<>>
      PROVE  p \o q # <<>>
  <2>1. Len(p \o q) = Len(p) + Len(q) /\ Len(p) \in Nat /\ Len(q) \in Nat
    BY DEF StepSeq
  <2>2. Len(p) # 0 \/ Len(q) # 0
    BY <1>3 DEF StepSeq
  <2>3. Len(p \o q) # 0
    BY <2>1, <2>2
  <2> QED BY <2>3
<1>4. \A k \in Packet : /\ SubPortSteps(k, on) \in StepSeq /\ SubPortSteps(k, on) # <<>>
                        /\ OfOthers(SubPortSteps(k, on))
    BY DEF SubPortSteps, Step, StepSeq, AnyStep, Control, OfOthers, IsRecord, SetsBroadcast
<1>5. \A k \in Packet : McastSteps(k, g) \in StepSeq /\ McastSteps(k, g) # <<>> /\ Whole(McastSteps(k, g))
    BY <1>1, UnrelatedSteps, BroadcastSteps
<1>6. \A k \in {"unicast", "multicast"} :
          /\ Followed(k, McastSteps(k, g)) \in StepSeq /\ OfOthers(Followed(k, McastSteps(k, g)))
          /\ Followed(k, SubPortSteps(k, on)) \in StepSeq /\ OfOthers(Followed(k, SubPortSteps(k, on)))
    BY <1>2, <1>4, UnrelatedSteps DEF Followed
<1>7. ASSUME NEW p \in StepSeq, NEW q \in StepSeq, OfOthers(p), OfOthers(q)
      PROVE  p \o q \in StepSeq /\ OfOthers(p \o q)
  <2>1. /\ p \o q \in StepSeq /\ Len(p) \in Nat /\ Len(q) \in Nat /\ Len(p \o q) = Len(p) + Len(q)
        /\ \A i \in 1 .. Len(p) : (p \o q)[i] = p[i]
        /\ \A i \in 1 .. Len(q) : (p \o q)[i + Len(p)] = q[i]
    BY DEF StepSeq
  <2>2. ASSUME NEW i \in 1 .. Len(p \o q)
        PROVE  ~SetsBroadcast((p \o q)[i]) /\ ~IsRecord((p \o q)[i])
    <3>1. CASE i \in 1 .. Len(p)
      BY <1>7, <2>1, <3>1 DEF OfOthers
    <3>2. CASE i \notin 1 .. Len(p)
      <4>1. i - Len(p) \in 1 .. Len(q) /\ (i - Len(p)) + Len(p) = i
        BY <2>1, <3>2
      <4>2. (p \o q)[i] = q[i - Len(p)]
        BY <2>1, <4>1
      <4> QED BY <1>7, <4>1, <4>2 DEF OfOthers
    <3> QED BY <3>1, <3>2
  <2> QED BY <2>1, <2>2 DEF OfOthers
<1>8. AllByGroup(g) \in StepSeq /\ AllByGroup(g) # <<>> /\ Whole(AllByGroup(g))
  <2> DEFINE u == Followed("unicast", McastSteps("unicast", g))
             m == Followed("multicast", McastSteps("multicast", g))
             c == McastSteps("broadcast", g)
  <2>1. /\ u \in StepSeq /\ OfOthers(u) /\ m \in StepSeq /\ OfOthers(m)
        /\ c \in StepSeq /\ c # <<>> /\ Whole(c)
    BY <1>5, <1>6, FloodAssumption
  <2> HIDE DEF u, m, c
  <2>2. u \o m \in StepSeq /\ OfOthers(u \o m)
    BY <1>7, <2>1
  <2>3. (u \o m) \o c \in StepSeq /\ (u \o m) \o c # <<>> /\ Whole((u \o m) \o c)
    BY <1>3, <2>1, <2>2, OthersBefore
  <2> QED BY <2>3 DEF AllByGroup, u, m, c
<1>9. AllBySubPort(on) \in StepSeq /\ AllBySubPort(on) # <<>> /\ Whole(AllBySubPort(on))
  <2> DEFINE m == Followed("multicast", SubPortSteps("multicast", on))
             c == SubPortSteps("broadcast", on)
             u == Followed("unicast", SubPortSteps("unicast", on))
  <2>1. /\ u \in StepSeq /\ OfOthers(u) /\ m \in StepSeq /\ OfOthers(m)
        /\ c \in StepSeq /\ c # <<>> /\ OfOthers(c)
    BY <1>4, <1>6, FloodAssumption
  <2> HIDE DEF u, m, c
  <2>2. m \o c \in StepSeq /\ OfOthers(m \o c) /\ m \o c # <<>>
    BY <1>3, <1>7, <2>1
  <2>3. (m \o c) \o u \in StepSeq /\ OfOthers((m \o c) \o u) /\ (m \o c) \o u # <<>>
    BY <1>3, <1>7, <2>1, <2>2
  <2>4. Whole((m \o c) \o u)
    BY <1>1, <2>3
  <2> QED BY <2>3, <2>4 DEF AllBySubPort, u, m, c
<1> QED BY <1>1, <1>4, <1>5, <1>8, <1>9

\* Every step preserves FloodInv.
LEMMA FloodNext == FloodInv /\ [Next]_vars => FloodInv'
<1> SUFFICES ASSUME FloodInv, [Next]_vars PROVE FloodInv'
    OBVIOUS
<1>0. groups \subseteq Group
    BY DEF FloodInv, FloodType
<1>1. CASE \E b \in Bridge : CreateBridge(b) \/ DeleteBridge(b)
    BY <1>1, BridgesFlood
<1>2. CASE \E b \in Bridge, s \in SubPort : AddSubPort(s, b) \/ AddSubPortStops(s, b)
    BY <1>0, <1>2, MembersFlood DEF AddSubPort, AddSubPortStops, floodVars
<1>3. CASE \E b \in Bridge, g \in Group \cup {None} :
              FloodAllToGroup(b, g) \/ \E k \in Packet : FloodToGroup(b, k, g)
    BY <1>3, CallsWhole, StartFlood DEF FloodAllToGroup, FloodToGroup
<1>4. CASE \E b \in Bridge, on \in BOOLEAN :
              FloodAllToSubPorts(b, on) \/ \E k \in Packet : FloodToSubPorts(b, k, on)
    BY <1>4, CallsWhole, StartFlood DEF FloodAllToSubPorts, FloodToSubPorts
<1>5. CASE RecordStep \/ GroupStep \/ ControlStep \/ StepRefused
    BY <1>5, RecordFlood, GroupFlood, RefusedFlood
<1>6. CASE \E s \in SubPort : DeleteSubPort(s)
    BY <1>0, <1>6, MembersFlood DEF DeleteSubPort, floodVars
<1>7. CASE \E g \in Group : CreateGroup(g) \/ DeleteGroup(g)
    BY <1>0, <1>7, MembersFlood, DeleteGroupFlood DEF CreateGroup, floodVars
<1>8. CASE \E g \in Group, s \in SubPort : AddMember(g, s) \/ DeleteMember(g, s)
    BY <1>0, <1>8, MembersFlood DEF AddMember, DeleteMember, floodVars
<1>9. CASE UNCHANGED vars
    BY <1>0, <1>9, MembersFlood DEF vars
<1> QED BY <1>1, <1>2, <1>3, <1>4, <1>5, <1>6, <1>7, <1>8, <1>9 DEF Next

-----------------------------------------------------------------------------
(* Flooding: what SAI does with broadcasts, and what was asked.            *)

\* The steps of a call that set an attribute of broadcasts all set it to the same;
\* when there is none, it has that value already.
Is(x, what) == x.what = what /\ x.k = "broadcast"
Never(q, what) == \A i \in 1 .. Len(q) : ~Is(q[i], what)
Sets(q, what, to) == \A i \in 1 .. Len(q) : Is(q[i], what) => q[i].to = to
Final(q, what, to, now) == Sets(q, what, to) /\ (Never(q, what) => now = to)

\* The steps to go lead to what was asked.
Flooded(control, group) == IF control = "l2mc_group" THEN group ELSE control
LeadsTo(q, asks, control, group) ==
    \E c, g : /\ Final(q, "control", c, control)
             /\ Final(q, "group", g, group)
             /\ asks = Flooded(c, g)
Leads(q, b) == LeadsTo(q, asked[b], ctl[b]["broadcast"], grp[b]["broadcast"])

AskType ==
    /\ ctl \in [Bridge -> [Packet -> Group \cup {None} \cup Control]]
    /\ asked \in [Bridge -> Group \cup {None, "sub_ports", "none", "refused"}]

AskInv ==
    /\ AskType
    /\ call # Idle /\ asked[call.br] # "refused" => Leads(call.steps, call.br)
    /\ \A b \in bridges : call.br # b /\ asked[b] # "refused" => Flooding(b) = asked[b]

LEMMA InitAsk == Init => AskInv
BY DEF Init, AskInv, AskType, Control, Idle

\* Sub-ports, members, groups, the record.
LEMMA OthersAsk ==
    ASSUME AskInv, UNCHANGED <<bridges, ctl, grp, call, asked>>
    PROVE  AskInv'
BY DEF AskInv, AskType, Leads, Flooding

\* A new bridge floods broadcasts to its sub-ports.
LEMMA BridgesAsk ==
    ASSUME FloodInv, AskInv, NEW b \in Bridge, CreateBridge(b) \/ DeleteBridge(b)
    PROVE  AskInv'
<1>1. call # Idle => call.br \in bridges
    BY DEF FloodInv, CallState
<1>2. CASE CreateBridge(b)
  <2>1. /\ b \notin bridges /\ bridges' = bridges \cup {b} /\ call' = call
        /\ ctl' = [ctl EXCEPT ![b] = [k \in Packet |-> "sub_ports"]]
        /\ grp' = [grp EXCEPT ![b] = [k \in Packet |-> None]]
        /\ asked' = [asked EXCEPT ![b] = "sub_ports"]
    BY <1>2 DEF CreateBridge
  <2>2. AskType'
    BY <2>1 DEF AskInv, AskType, Control
  <2>3. \A c \in Bridge \ {b} : ctl'[c] = ctl[c] /\ grp'[c] = grp[c] /\ asked'[c] = asked[c]
    BY <2>1 DEF AskInv, AskType, FloodInv, FloodType
  <2>4. ctl'[b]["broadcast"] = "sub_ports" /\ asked'[b] = "sub_ports"
    BY <2>1, FloodAssumption DEF AskInv, AskType
  <2>5. ASSUME call' # Idle, asked'[call.br] # "refused"
        PROVE  Leads(call.steps, call.br)'
    <3>1. call.br \in Bridge \ {b}
      BY <1>1, <2>1, <2>5 DEF FloodInv, FloodType
    <3> QED BY <2>1, <2>3, <2>5, <3>1 DEF AskInv, Leads
  <2>6. ASSUME NEW c \in bridges', call'.br # c, asked'[c] # "refused"
        PROVE  Flooding(c)' = asked'[c]
    <3>1. CASE c = b
      BY <2>4, <3>1 DEF Flooding
    <3>2. CASE c # b
      <4>1. c \in bridges /\ c \in Bridge \ {b}
        BY <2>1, <2>6, <3>2 DEF FloodInv, FloodType
      <4>2. Flooding(c) = asked[c]
        BY <2>1, <2>3, <2>6, <4>1 DEF AskInv
      <4> QED BY <2>3, <4>1, <4>2 DEF Flooding
    <3> QED BY <3>1, <3>2
  <2> QED BY <2>1, <2>2, <2>5, <2>6 DEF AskInv
<1>3. CASE DeleteBridge(b)
  <2>1. bridges' \subseteq bridges /\ UNCHANGED <<ctl, grp, call, asked>>
    BY <1>3 DEF DeleteBridge
  <2> QED BY <2>1 DEF AskInv, AskType, Leads, Flooding
<1> QED BY <1>2, <1>3

\* Steps about other packets lead to what is there.
LEMMA OthersLead ==
    ASSUME NEW q \in StepSeq, ~OfBroadcasts(q), NEW control, NEW group
    PROVE  \A asks : LeadsTo(q, asks, control, group) <=> asks = Flooded(control, group)
<1>1. DOMAIN q = 1 .. Len(q)
    BY DEF StepSeq
<1>2. Never(q, "control") /\ Never(q, "group")
    BY <1>1 DEF OfBroadcasts, Never, Is
<1>3. /\ \A c : Final(q, "control", c, control) <=> control = c
      /\ \A g : Final(q, "group", g, group) <=> group = g
    BY <1>2 DEF Final, Sets, Never
<1> QED BY <1>3 DEF LeadsTo

\* A step done, the rest sets an attribute as the whole did.
LEMMA FinalStep ==
    ASSUME NEW q \in StepSeq, q # <<>>, Ordered(q), NEW what, NEW to, NEW now,
           Final(q, what, to, now)
    PROVE  LET after == IF Is(q[1], what) THEN q[1].to ELSE now
           IN  Final(Tail(q), what, to, after) /\ (Len(q) = 1 => after = to)
<1> DEFINE t == Tail(q)
           after == IF Is(q[1], what) THEN q[1].to ELSE now
<1>1. /\ Len(q) \in Nat /\ Len(q) >= 1
      /\ \A i \in 1 .. Len(t) : i + 1 \in 1 .. Len(q) /\ t[i] = q[i + 1]
      /\ \A i \in 1 .. Len(q) : i # 1 => i - 1 \in 1 .. Len(t) /\ t[i - 1] = q[i]
    BY TailOrdered
<1> HIDE DEF t
<1>2. Is(q[1], what) => q[1].to = to
    BY <1>1 DEF Final, Sets
<1>3. Sets(t, what, to)
    BY <1>1 DEF Final, Sets
<1>4. ASSUME Never(t, what), ~Is(q[1], what)
      PROVE  now = to
  <2>1. Never(q, what)
    BY <1>1, <1>4 DEF Never
  <2> QED BY <2>1 DEF Final
<1>5. Len(q) = 1 => Never(t, what)
    BY <1>1 DEF Never
<1> QED BY <1>2, <1>3, <1>4, <1>5 DEF Final, t

\* A step done, the rest leads where the whole did.
LEMMA LeadsOn ==
    ASSUME NEW q \in StepSeq, q # <<>>, Ordered(q), NEW asks, NEW control, NEW group,
           LeadsTo(q, asks, control, group),
           NEW control2, control2 = IF Is(q[1], "control") THEN q[1].to ELSE control,
           NEW group2, group2 = IF Is(q[1], "group") THEN q[1].to ELSE group
    PROVE  /\ LeadsTo(Tail(q), asks, control2, group2)
           /\ Len(q) = 1 => asks = Flooded(control2, group2)
<1>1. PICK c, g : /\ Final(q, "control", c, control)
                  /\ Final(q, "group", g, group)
                  /\ asks = Flooded(c, g)
    BY DEF LeadsTo
<1>2. Final(Tail(q), "control", c, control2) /\ (Len(q) = 1 => control2 = c)
    BY <1>1, FinalStep
<1>3. Final(Tail(q), "group", g, group2) /\ (Len(q) = 1 => group2 = g)
    BY <1>1, FinalStep
<1> QED BY <1>1, <1>2, <1>3 DEF LeadsTo

\* A call about broadcasts asks for what its steps lead to; any other call leaves
\* what was asked, and how SAI floods broadcasts.
LEMMA StartAsk ==
    ASSUME FloodInv, AskInv, NEW b \in Bridge, NEW steps \in StepSeq,
           NEW asks \in Group \cup {None, "sub_ports", "none"}, Start(b, steps, asks),
           OfBroadcasts(steps) =>
              LeadsTo(steps, asks, ctl[b]["broadcast"], grp[b]["broadcast"])
    PROVE  AskInv'
<1>1. /\ call = Idle /\ b \in bridges /\ call' = [br |-> b, steps |-> steps]
      /\ asked' = IF OfBroadcasts(steps) THEN [asked EXCEPT ![b] = asks] ELSE asked
      /\ UNCHANGED <<bridges, ctl, grp>>
    BY DEF Start, memberVars
<1>2. call.br # b /\ None \notin Bridge
    BY <1>1, FloodAssumption DEF Idle
<1>3. AskType'
    BY <1>1 DEF AskInv, AskType
<1>4. ASSUME asked'[b] # "refused"
      PROVE  Leads(steps, b)'
  <2>1. CASE OfBroadcasts(steps)
    <3>1. asked'[b] = asks
      BY <1>1, <2>1 DEF AskInv, AskType
    <3> QED BY <1>1, <2>1, <3>1 DEF Leads
  <2>2. CASE ~OfBroadcasts(steps)
    <3>1. Flooding(b) = asked[b] /\ asked' = asked
      BY <1>1, <1>2, <1>4, <2>2 DEF AskInv
    <3>2. LeadsTo(steps, Flooding(b), ctl[b]["broadcast"], grp[b]["broadcast"])
      BY <2>2, OthersLead DEF Flooding, Flooded
    <3> QED BY <1>1, <3>1, <3>2 DEF Leads
  <2> QED BY <2>1, <2>2
<1>5. ASSUME NEW c \in bridges', call'.br # c, asked'[c] # "refused"
      PROVE  Flooding(c)' = asked'[c]
  <2>1. c \in bridges /\ c # b /\ c \in Bridge /\ c # None
    BY <1>1, <1>2, <1>5 DEF FloodInv, FloodType
  <2>2. asked'[c] = asked[c]
    BY <1>1, <2>1 DEF AskInv, AskType
  <2>3. Flooding(c) = asked[c]
    BY <1>1, <1>5, <2>1, <2>2 DEF AskInv, Idle
  <2> QED BY <1>1, <2>2, <2>3 DEF Flooding
<1> QED BY <1>1, <1>3, <1>4, <1>5 DEF AskInv

LEMMA StepAsk ==
    ASSUME FloodInv, AskInv, RecordStep \/ GroupStep \/ ControlStep
    PROVE  AskInv'
<1> DEFINE q == call.steps
           t == Tail(call.steps)
           b == call.br
<1>1. call # Idle /\ GoOn /\ UNCHANGED <<bridges, asked>>
    BY DEF RecordStep, GroupStep, ControlStep, memberVars
<1>2. /\ b \in bridges /\ b \in Bridge /\ b # None
      /\ q \in StepSeq /\ q # <<>> /\ Ordered(q)
      /\ Now = q[1] /\ q[1] \in AnyStep
      /\ \/ Len(q) = 1 /\ call' = Idle
         \/ Len(q) # 1 /\ call' = [br |-> b, steps |-> t]
    BY <1>1, GoOnFacts
<1>3. /\ AskType'
      /\ \A c \in Bridge \ {b} : ctl'[c] = ctl[c] /\ grp'[c] = grp[c]
      /\ ctl'[b]["broadcast"] = IF Is(q[1], "control") THEN q[1].to ELSE ctl[b]["broadcast"]
      /\ grp'[b]["broadcast"] = IF Is(q[1], "group") THEN q[1].to ELSE grp[b]["broadcast"]
  <2>1. /\ q[1].k \in Packet /\ q[1].to \in Group \cup {None} \cup Control
        /\ q[1].what \in {"record", "group", "control"}
        /\ ctl \in [Bridge -> [Packet -> Group \cup {None} \cup Control]]
        /\ grp \in [Bridge -> [Packet -> Group \cup {None}]]
        /\ AskType /\ asked' = asked
    BY <1>1, <1>2 DEF AnyStep, AskInv, AskType, FloodInv, FloodType
  <2>2. CASE RecordStep
    <3>1. ctl' = ctl /\ grp' = grp /\ q[1].what = "record"
      BY <1>2, <2>2 DEF RecordStep
    <3> HIDE DEF q, t, b
    <3> QED BY <2>1, <3>1 DEF AskType, Is
  <2>3. CASE GroupStep
    <3>1. /\ ctl' = ctl /\ q[1].what = "group"
          /\ grp' = [grp EXCEPT ![b] = [grp[b] EXCEPT ![q[1].k] = q[1].to]]
      BY <1>2, <2>3 DEF GroupStep
    <3> HIDE DEF q, t, b
    <3> QED BY <1>2, <2>1, <3>1, FloodAssumption DEF AskType, Is
  <2>4. CASE ControlStep
    <3>1. /\ grp' = grp /\ q[1].what = "control"
          /\ ctl' = [ctl EXCEPT ![b] = [ctl[b] EXCEPT ![q[1].k] = q[1].to]]
      BY <1>2, <2>4 DEF ControlStep
    <3> HIDE DEF q, t, b
    <3> QED BY <1>2, <2>1, <3>1, FloodAssumption DEF AskType, Is
  <2> QED BY <2>2, <2>3, <2>4
<1>4. ASSUME asked[b] # "refused"
      PROVE  /\ LeadsTo(t, asked[b], ctl'[b]["broadcast"], grp'[b]["broadcast"])
             /\ Len(q) = 1 => asked[b] = Flooded(ctl'[b]["broadcast"], grp'[b]["broadcast"])
  <2>1. LeadsTo(q, asked[b], ctl[b]["broadcast"], grp[b]["broadcast"])
    BY <1>1, <1>4 DEF AskInv, Leads
  <2> HIDE DEF q, b
  <2> QED BY <1>2, <1>3, <2>1, LeadsOn DEF q
<1> HIDE DEF q, t, b
<1>5. ASSUME call' # Idle, asked'[call'.br] # "refused"
      PROVE  Leads(call.steps, call.br)'
  <2>1. call'.br = b /\ call'.steps = t
    BY <1>2, <1>5
  <2>2. asked'[b] = asked[b] /\ asked[b] # "refused"
    BY <1>1, <1>5, <2>1
  <2>3. LeadsTo(t, asked[b], ctl'[b]["broadcast"], grp'[b]["broadcast"])
    BY <1>4, <2>2
  <2> QED BY <2>1, <2>2, <2>3 DEF Leads
<1>6. ASSUME NEW c \in bridges', call'.br # c, asked'[c] # "refused"
      PROVE  Flooding(c)' = asked'[c]
  <2>1. c \in bridges /\ c \in Bridge /\ asked'[c] = asked[c]
    BY <1>1, <1>6 DEF FloodInv, FloodType
  <2>2. CASE c = b
    <3>1. Len(q) = 1
      BY <1>2, <1>6, <2>2
    <3>2. asked[b] = Flooded(ctl'[b]["broadcast"], grp'[b]["broadcast"])
      BY <1>4, <1>6, <2>1, <2>2, <3>1
    <3> QED BY <2>1, <2>2, <3>2 DEF Flooding, Flooded
  <2>3. CASE c # b
    <3>1. Flooding(c) = asked[c]
      BY <1>6, <2>1, <2>3 DEF AskInv, b
    <3> QED BY <1>3, <2>1, <2>3, <3>1 DEF Flooding
  <2> QED BY <2>2, <2>3
<1> QED BY <1>3, <1>5, <1>6 DEF AskInv

\* A call that is refused with no step about broadcasts to go has done those it had.
LEMMA RefusedAsk ==
    ASSUME FloodInv, AskInv, StepRefused
    PROVE  AskInv'
<1> DEFINE q == call.steps
           b == call.br
<1>1. /\ call # Idle /\ call' = Idle
      /\ asked' = IF OfBroadcasts(q) THEN [asked EXCEPT ![b] = "refused"] ELSE asked
      /\ UNCHANGED <<bridges, ctl, grp>>
    BY DEF StepRefused, memberVars
<1>2. b \in bridges /\ b \in Bridge /\ q \in StepSeq
    BY <1>1 DEF FloodInv, FloodType, CallState
<1>3. asked[b] # "refused" => Leads(q, b)
    BY <1>1 DEF AskInv
<1> HIDE DEF q, b
<1>4. AskType'
    BY <1>1 DEF AskInv, AskType
<1>5. ASSUME NEW c \in bridges, asked'[c] # "refused"
      PROVE  Flooding(c) = asked'[c]
  <2>1. c \in Bridge
    BY DEF FloodInv, FloodType
  <2>2. CASE c = b
    <3>1. ~OfBroadcasts(q) /\ asked'[b] = asked[b]
      BY <1>1, <1>2, <1>5, <2>2 DEF AskInv, AskType
    <3>2. LeadsTo(q, asked[b], ctl[b]["broadcast"], grp[b]["broadcast"])
      BY <1>3, <1>5, <2>2, <3>1 DEF Leads
    <3> QED BY <1>2, <2>2, <3>1, <3>2, OthersLead DEF Flooding, Flooded
  <2>3. CASE c # b
    BY <1>1, <1>5, <2>1, <2>3 DEF AskInv, AskType, b
  <2> QED BY <2>2, <2>3
<1> QED BY <1>1, <1>4, <1>5 DEF AskInv, Flooding, Idle

-----------------------------------------------------------------------------
\* Steps put together set an attribute to a value when each part does.
LEMMA SetsTogether ==
    ASSUME NEW p \in StepSeq, NEW q \in StepSeq, NEW what, NEW to,
           Sets(p, what, to), Sets(q, what, to)
    PROVE  /\ p \o q \in StepSeq
           /\ Sets(p \o q, what, to)
           /\ Never(p \o q, what) => Never(p, what) /\ Never(q, what)
<1>1. /\ p \o q \in StepSeq /\ Len(p) \in Nat /\ Len(q) \in Nat /\ Len(p \o q) = Len(p) + Len(q)
      /\ \A i \in 1 .. Len(p) : (p \o q)[i] = p[i]
      /\ \A i \in 1 .. Len(q) : (p \o q)[i + Len(p)] = q[i]
    BY DEF StepSeq
<1> DEFINE c == p \o q
<1> HIDE DEF c
<1>2. ASSUME NEW i \in 1 .. Len(c), Is(c[i], what)
      PROVE  c[i].to = to
  <2>1. CASE i \in 1 .. Len(p)
    BY <1>1, <1>2, <2>1 DEF Sets, c
  <2>2. CASE i \notin 1 .. Len(p)
    <3>1. i - Len(p) \in 1 .. Len(q) /\ (i - Len(p)) + Len(p) = i
      BY <1>1, <2>2 DEF c
    <3>2. c[i] = q[i - Len(p)]
      BY <1>1, <3>1 DEF c
    <3> QED BY <1>2, <3>1, <3>2 DEF Sets
  <2> QED BY <2>1, <2>2
<1>3. ASSUME Never(c, what)
      PROVE  Never(p, what) /\ Never(q, what)
  <2>1. \A i \in 1 .. Len(p) : i \in 1 .. Len(c) /\ c[i] = p[i]
    BY <1>1 DEF c
  <2>2. \A i \in 1 .. Len(q) : i + Len(p) \in 1 .. Len(c) /\ c[i + Len(p)] = q[i]
    BY <1>1 DEF c
  <2> QED BY <1>3, <2>1, <2>2 DEF Never
<1> QED BY <1>1, <1>2, <1>3 DEF c, Sets

\* What the steps about a kind set of broadcasts.
LEMMA StepsSet ==
    ASSUME NEW k \in Packet, NEW g \in Group \cup {None}, NEW on \in BOOLEAN
    PROVE  LET to == IF on THEN "sub_ports" ELSE "none"
               m == McastSteps(k, g)
               s == SubPortSteps(k, on)
           IN  /\ m \in StepSeq /\ Sets(m, "control", "l2mc_group") /\ Sets(m, "group", g)
               /\ s \in StepSeq /\ Sets(s, "control", to) /\ \A x : Sets(s, "group", x)
               /\ k = "broadcast" => /\ ~Never(m, "control") /\ ~Never(m, "group")
                                     /\ ~Never(s, "control")
<1> DEFINE to == IF on THEN "sub_ports" ELSE "none"
           m == McastSteps(k, g)
           s == SubPortSteps(k, on)
<1>1. /\ s = <<[k |-> k, what |-> "control", to |-> to]>> /\ s \in StepSeq
    BY CallsWhole DEF SubPortSteps, Step
<1>2. Sets(s, "control", to) /\ \A x : Sets(s, "group", x)
    BY <1>1 DEF Sets, Is
<1>3. k = "broadcast" => ~Never(s, "control")
  <2>1. Len(s) = 1 /\ s[1] = [k |-> k, what |-> "control", to |-> to]
    BY <1>1
  <2>2. 1 \in 1 .. Len(s)
    BY <2>1
  <2> HIDE DEF s
  <2> QED BY <2>1, <2>2 DEF Never, Is
<1>4. CASE k = "broadcast"
  <2> DEFINE a == Step(k, "record", g)
             b == Step(k, "group", g)
             c == Step(k, "control", "l2mc_group")
  <2>1. a \in AnyStep /\ b \in AnyStep /\ c \in AnyStep
    BY DEF Step, AnyStep, Control
  <2>2. m = <<a>> \o <<b, c>>
    BY <1>4 DEF McastSteps
  <2>3. m \in StepSeq /\ Len(m) = 3 /\ m[1] = a /\ m[2] = b /\ m[3] = c
    <3> HIDE DEF a, b, c, m
    <3> QED BY <2>1, <2>2, ThreeSteps
  <2> HIDE DEF m
  <2>4. 1 .. Len(m) = {1, 2, 3}
    BY <2>3
  <2>5. Sets(m, "control", "l2mc_group") /\ Sets(m, "group", g)
    BY <2>3, <2>4 DEF Sets, Is, Step
  <2>6. ~Never(m, "control") /\ ~Never(m, "group")
    BY <1>4, <2>3, <2>4 DEF Never, Is, Step
  <2> QED BY <1>1, <1>2, <1>3, <2>3, <2>5, <2>6 DEF m
<1>5. CASE k # "broadcast"
  <2>1. m = <<Step(k, "group", g), Step(k, "control", "l2mc_group")>>
    BY <1>5 DEF McastSteps, Step
  <2>4. m \in StepSeq
    BY CallsWhole
  <2>2. \A i \in 1 .. Len(m) : m[i].k # "broadcast"
    BY <1>5, <2>1 DEF Step
  <2> HIDE DEF m
  <2>3. \A what, x : Sets(m, what, x)
    BY <2>2 DEF Sets, Is
  <2> QED BY <1>1, <1>2, <1>3, <1>5, <2>3, <2>4 DEF m
<1> QED BY <1>4, <1>5

\* The steps of every call that asks for something of broadcasts lead to it.
LEMMA CallsLead ==
    ASSUME NEW g \in Group \cup {None}, NEW on \in BOOLEAN
    PROVE  LET to == IF on THEN "sub_ports" ELSE "none"
               m == AllByGroup(g)
               s == AllBySubPort(on)
           IN  /\ Sets(m, "control", "l2mc_group") /\ Sets(m, "group", g)
               /\ ~Never(m, "control") /\ ~Never(m, "group")
               /\ Sets(s, "control", to) /\ \A x : Sets(s, "group", x)
               /\ ~Never(s, "control")
<1> DEFINE to == IF on THEN "sub_ports" ELSE "none"
<1>1. <<>> \in StepSeq /\ \A what, x : Sets(<<>>, what, x)
    BY DEF StepSeq, Sets
<1>2. ASSUME NEW k \in {"unicast", "multicast"}
      PROVE  /\ Followed(k, McastSteps(k, g)) \in StepSeq
             /\ Sets(Followed(k, McastSteps(k, g)), "control", "l2mc_group")
             /\ Sets(Followed(k, McastSteps(k, g)), "group", g)
             /\ Followed(k, SubPortSteps(k, on)) \in StepSeq
             /\ Sets(Followed(k, SubPortSteps(k, on)), "control", to)
             /\ \A x : Sets(Followed(k, SubPortSteps(k, on)), "group", x)
    BY <1>1, StepsSet DEF Followed
<1>3. /\ Sets(AllByGroup(g), "control", "l2mc_group") /\ Sets(AllByGroup(g), "group", g)
      /\ ~Never(AllByGroup(g), "control") /\ ~Never(AllByGroup(g), "group")
  <2> DEFINE u == Followed("unicast", McastSteps("unicast", g))
             m == Followed("multicast", McastSteps("multicast", g))
             c == McastSteps("broadcast", g)
  <2>1. /\ u \in StepSeq /\ Sets(u, "control", "l2mc_group") /\ Sets(u, "group", g)
        /\ m \in StepSeq /\ Sets(m, "control", "l2mc_group") /\ Sets(m, "group", g)
        /\ c \in StepSeq /\ Sets(c, "control", "l2mc_group") /\ Sets(c, "group", g)
        /\ ~Never(c, "control") /\ ~Never(c, "group")
    BY <1>2, StepsSet, FloodAssumption
  <2> HIDE DEF u, m, c
  <2>2. u \o m \in StepSeq /\ Sets(u \o m, "control", "l2mc_group") /\ Sets(u \o m, "group", g)
    BY <2>1, SetsTogether
  <2>3. /\ Sets((u \o m) \o c, "control", "l2mc_group") /\ ~Never((u \o m) \o c, "control")
        /\ Sets((u \o m) \o c, "group", g) /\ ~Never((u \o m) \o c, "group")
    BY <2>1, <2>2, SetsTogether
  <2> QED BY <2>3 DEF AllByGroup, u, m, c
<1>4. /\ Sets(AllBySubPort(on), "control", to) /\ \A x : Sets(AllBySubPort(on), "group", x)
      /\ ~Never(AllBySubPort(on), "control")
  <2> DEFINE m == Followed("multicast", SubPortSteps("multicast", on))
             c == SubPortSteps("broadcast", on)
             u == Followed("unicast", SubPortSteps("unicast", on))
  <2>1. /\ u \in StepSeq /\ Sets(u, "control", to) /\ \A x : Sets(u, "group", x)
        /\ m \in StepSeq /\ Sets(m, "control", to) /\ \A x : Sets(m, "group", x)
        /\ c \in StepSeq /\ Sets(c, "control", to) /\ \A x : Sets(c, "group", x)
        /\ ~Never(c, "control")
    BY <1>2, StepsSet, FloodAssumption
  <2> HIDE DEF u, m, c, to
  <2>2. /\ m \o c \in StepSeq /\ Sets(m \o c, "control", to) /\ ~Never(m \o c, "control")
        /\ \A x : Sets(m \o c, "group", x)
    BY <2>1, SetsTogether
  <2>3. /\ Sets((m \o c) \o u, "control", to) /\ ~Never((m \o c) \o u, "control")
        /\ \A x : Sets((m \o c) \o u, "group", x)
    BY <2>1, <2>2, SetsTogether
  <2> QED BY <2>3 DEF AllBySubPort, u, m, c
<1> QED BY <1>3, <1>4

\* Every flooding call, made while none is under way.
LEMMA FloodAsk ==
    ASSUME FloodInv, AskInv, NEW b \in Bridge, NEW g \in Group \cup {None}, NEW on \in BOOLEAN,
           NEW k \in Packet,
           FloodAllToGroup(b, g) \/ FloodToGroup(b, k, g)
             \/ FloodAllToSubPorts(b, on) \/ FloodToSubPorts(b, k, on)
    PROVE  AskInv'
<1> DEFINE to == IF on THEN "sub_ports" ELSE "none"
           now == ctl[b]["broadcast"]
           cur == grp[b]["broadcast"]
<1>1. to # "l2mc_group" /\ to \in {"sub_ports", "none"}
    OBVIOUS
<1>2. CASE FloodAllToGroup(b, g)
  <2>1. AllByGroup(g) \in StepSeq /\ Start(b, AllByGroup(g), g)
    BY <1>2, CallsWhole DEF FloodAllToGroup
  <2>2. Final(AllByGroup(g), "control", "l2mc_group", now) /\ Final(AllByGroup(g), "group", g, cur)
    BY CallsLead DEF Final
  <2> QED BY <2>1, <2>2, StartAsk DEF LeadsTo, Flooded
<1>3. CASE FloodToGroup(b, k, g)
  <2>1. McastSteps(k, g) \in StepSeq /\ Start(b, McastSteps(k, g), g)
    BY <1>3, CallsWhole DEF FloodToGroup
  <2>2. CASE k = "broadcast"
    <3>1. Final(McastSteps(k, g), "control", "l2mc_group", now) /\ Final(McastSteps(k, g), "group", g, cur)
      BY <2>2, StepsSet DEF Final
    <3> QED BY <2>1, <3>1, StartAsk DEF LeadsTo, Flooded
  <2>3. CASE k # "broadcast"
    <3>1. McastSteps(k, g) = <<Step(k, "group", g), Step(k, "control", "l2mc_group")>>
      BY <2>3 DEF McastSteps, Step
    <3>2. ~OfBroadcasts(McastSteps(k, g))
      BY <2>3, <3>1 DEF OfBroadcasts, Step
    <3> QED BY <2>1, <3>2, StartAsk
  <2> QED BY <2>2, <2>3
<1>4. CASE FloodAllToSubPorts(b, on)
  <2>1. AllBySubPort(on) \in StepSeq /\ Start(b, AllBySubPort(on), to)
    BY <1>4, CallsWhole DEF FloodAllToSubPorts
  <2>2. Final(AllBySubPort(on), "control", to, now) /\ Final(AllBySubPort(on), "group", cur, cur)
    BY CallsLead DEF Final
  <2> QED BY <1>1, <2>1, <2>2, StartAsk DEF LeadsTo, Flooded
<1>5. CASE FloodToSubPorts(b, k, on)
  <2>1. SubPortSteps(k, on) \in StepSeq /\ Start(b, SubPortSteps(k, on), to)
    BY <1>5, CallsWhole DEF FloodToSubPorts
  <2>2. CASE k = "broadcast"
    <3>1. Final(SubPortSteps(k, on), "control", to, now) /\ Final(SubPortSteps(k, on), "group", cur, cur)
      BY <2>2, StepsSet DEF Final
    <3> QED BY <1>1, <2>1, <3>1, StartAsk DEF LeadsTo, Flooded
  <2>3. CASE k # "broadcast"
    <3>1. SubPortSteps(k, on) = <<Step(k, "control", to)>>
      BY DEF SubPortSteps
    <3>2. ~OfBroadcasts(SubPortSteps(k, on))
      BY <2>3, <3>1 DEF OfBroadcasts, Step
    <3> QED BY <2>1, <3>2, StartAsk
  <2> QED BY <2>2, <2>3
<1> QED BY <1>2, <1>3, <1>4, <1>5

\* Every step preserves AskInv.
LEMMA AskNext == FloodInv /\ AskInv /\ [Next]_vars => AskInv'
<1> SUFFICES ASSUME FloodInv, AskInv, [Next]_vars PROVE AskInv'
    OBVIOUS
<1> USE DEF floodVars
<1>1. CASE \E b \in Bridge : CreateBridge(b) \/ DeleteBridge(b)
    BY <1>1, BridgesAsk
<1>2. CASE \E b \in Bridge, s \in SubPort : AddSubPort(s, b) \/ AddSubPortStops(s, b)
    BY <1>2, OthersAsk DEF AddSubPort, AddSubPortStops
<1>3. CASE \E b \in Bridge, g \in Group \cup {None} :
              FloodAllToGroup(b, g) \/ \E k \in Packet : FloodToGroup(b, k, g)
    BY <1>3, FloodAsk, FloodAssumption
<1>4. CASE \E b \in Bridge, on \in BOOLEAN :
              FloodAllToSubPorts(b, on) \/ \E k \in Packet : FloodToSubPorts(b, k, on)
    BY <1>4, FloodAsk, FloodAssumption
<1>5. CASE RecordStep \/ GroupStep \/ ControlStep
    BY <1>5, StepAsk
<1>6. CASE StepRefused
    BY <1>6, RefusedAsk
<1>7. CASE \E s \in SubPort : DeleteSubPort(s)
    BY <1>7, OthersAsk DEF DeleteSubPort
<1>8. CASE \E g \in Group : CreateGroup(g) \/ DeleteGroup(g)
    BY <1>8, OthersAsk DEF CreateGroup, DeleteGroup
<1>9. CASE \E g \in Group, s \in SubPort : AddMember(g, s) \/ DeleteMember(g, s)
    BY <1>9, OthersAsk DEF AddMember, DeleteMember
<1>10. CASE UNCHANGED vars
    BY <1>10, OthersAsk DEF vars
<1> QED BY <1>1, <1>2, <1>3, <1>4, <1>5, <1>6, <1>7, <1>8, <1>9, <1>10 DEF Next

\* For every set of kinds followed, and wherever SAI refuses a step of a call:
\* between the flooding calls of a bridge SAI does with broadcasts what the last
\* call about them asked for, unless a step of it was refused; and the packets
\* the CPU floods go to the group SAI has for broadcasts, which exists, used by
\* SAI or not, unless a refused call, a deletion of the bridge or a second group
\* is known to have left another on record.
THEOREM BroadcastsAlwaysAsAsked == Spec => []BroadcastsAsAsked
<1>1. FloodInv /\ AskInv => BroadcastsAsAsked
    BY FloodAssumption DEF FloodInv, AskInv, GroupsExist, Settled, BroadcastsAsAsked, PacketGroup
<1>2. Init => FloodInv /\ AskInv
    BY InitFlood, InitAsk
<1>3. FloodInv /\ AskInv /\ [Next]_vars => (FloodInv /\ AskInv)'
    BY FloodNext, AskNext
<1> QED BY <1>1, <1>2, <1>3, PTL DEF Spec
=============================================================================
