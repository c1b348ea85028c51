------------------------------- MODULE NdiQos -------------------------------
(***************************************************************************)
(* The QoS of a port: its queues, its scheduler groups and its profiles    *)
(* (nas_ndi_qos_queue.cpp, nas_ndi_qos_scheduler_group.cpp,                *)
(* nas_ndi_qos_priority_group.cpp, nas_ndi_qos_port.cpp).                  *)
(*                                                                         *)
(* NDI keeps nothing of these.  What it can get wrong is two profiles that *)
(* are one attribute of SAI, and an answer that takes several calls of     *)
(* SAI: a port's queues are listed by one call and counted by type by one  *)
(* for each of them, while queues come and go and SAI refuses.             *)
(***************************************************************************)
EXTENDS Integers, Sequences, SequencesExt, Functions, NdiPortIds

CONSTANTS
    Nodes,   \* every queue and scheduler group, in SAI's order
    KindOf,  \* the type of each: a queue's, or "group"
    LevelOf, \* the level of each: a parent is of a lower one
    Profile  \* values of the profile attributes

VARIABLES
    node,    \* nodes in SAI: their port and parent
    profile, \* the profile attributes SAI has of a port
    named,   \* history: the same, as the NAS was told under its names
    latest,  \* history: the name each attribute was last set by
    egress,  \* a caller's struct: a port's queues and their numbers
    reading, \* the counting of those queues: which is next, and what was counted
    counted, \* history: the list that was last counted to its end
    unread   \* history: the last call met a queue it could not read

profileVars == <<profile, named, latest>>
readerVars == <<egress, reading, counted, unread>>
qosVars == <<node, profileVars, readerVars>>

Node == ToSet(Nodes)

\* No node is in SAI's order twice; a queue is SAI_QUEUE_TYPE_UNICAST,
\* _MULTICAST or _ALL.
ASSUME QosAssumption ==
    /\ Nodes \in Seq(Node) /\ IsInjective(Nodes)
    /\ KindOf \in [Node -> {"ucast", "mcast", "all", "group"}]

IsGroup(n) == KindOf[n] = "group"

-----------------------------------------------------------------------------
(* Queues and scheduler groups.                                            *)

\* ndi_qos_fill_queue_attr: of its attributes, the port must be mapped.
QueueFills(p) == PortIdGet(p)

\* ndi_qos_fill_sg_attr.
GroupFills(p) == PortIdGet(p)

\* SAI takes a parent that exists and is of a lower level.
SaiTakesParent(n, parent) ==
    parent # None => IsGroup(parent) /\ node[parent] # None /\ LevelOf[parent] < LevelOf[n]

\* ndi_qos_create_queue.
CreateQueue(q, p, parent) ==
    /\ node[q] = None /\ ~IsGroup(q)
    /\ \/ /\ QueueFills(p) /\ SaiTakesParent(q, parent)
          /\ node' = [node EXCEPT ![q] = [port |-> p, parent |-> parent]]
       \/ UNCHANGED node
    /\ UNCHANGED <<profileVars, readerVars>>

\* ndi_qos_create_scheduler_group.
CreateGroup(g, p, parent) ==
    /\ node[g] = None /\ IsGroup(g)
    /\ \/ /\ GroupFills(p) /\ SaiTakesParent(g, parent)
          /\ node' = [node EXCEPT ![g] = [port |-> p, parent |-> parent]]
       \/ UNCHANGED node
    /\ UNCHANGED <<profileVars, readerVars>>

\* ndi_qos_set_queue_attr, the queue's parent.
SetQueueParent(q, parent) ==
    /\ node[q] # None /\ ~IsGroup(q)
    /\ \/ /\ SaiTakesParent(q, parent)
          /\ node' = [node EXCEPT ![q].parent = parent]
       \/ UNCHANGED node
    /\ UNCHANGED <<profileVars, readerVars>>

\* ndi_qos_set_scheduler_group_attr, the group's parent.
SetGroupParent(g, parent) ==
    /\ node[g] # None /\ IsGroup(g)
    /\ \/ /\ SaiTakesParent(g, parent)
          /\ node' = [node EXCEPT ![g].parent = parent]
       \/ UNCHANGED node
    /\ UNCHANGED <<profileVars, readerVars>>

ChildrenOf(g) == Only(Nodes, {n \in Node : node[n] # None /\ node[n].parent = g})

\* ndi_qos_delete_queue.
DeleteQueue(q) ==
    /\ node[q] # None /\ ~IsGroup(q)
    /\ node' = [node EXCEPT ![q] = None] \/ UNCHANGED node
    /\ UNCHANGED <<profileVars, readerVars>>

\* ndi_qos_delete_scheduler_group: SAI refuses a group with children.
DeleteGroup(g) ==
    /\ node[g] # None /\ IsGroup(g)
    /\ \/ ChildrenOf(g) = <<>> /\ node' = [node EXCEPT ![g] = None]
       \/ UNCHANGED node
    /\ UNCHANGED <<profileVars, readerVars>>

-----------------------------------------------------------------------------
(* Profiles.                                                               *)

\* ndi2sai_port_ing_attr_id_get: two of the names of an ingress profile.
IngressField == [ING_TC_TO_QUEUE |-> "TC_TO_QUEUE", ING_DSCP_TO_TC |-> "DSCP_TO_TC"]

\* ndi2sai_port_egr_attr_id_get: two of an egress profile.  Its map of traffic
\* classes is the ingress profile's.
EgressField == [EGR_TC_TO_QUEUE |-> "TC_TO_QUEUE", EGR_SCHEDULER |-> "SCHEDULER"]

\* ndi_qos_set_port_ing_profile_attr: that SAI has the value already counts as
\* a success.
SetIngress(p, name, v) ==
    /\ \/ /\ PortIdGet(p)
          /\ profile' = [profile EXCEPT ![p][IngressField[name]] = v]
          /\ named' = [named EXCEPT ![p][name] = v]
          /\ latest' = [latest EXCEPT ![p][IngressField[name]] = name]
       \/ UNCHANGED profileVars
    /\ UNCHANGED <<node, readerVars>>

\* Mutant: what an ingress profile has set is not set again by an egress one.
SetEgressOnce(p, name, v) ==
    /\ \/ /\ PortIdGet(p)
          /\ profile' = IF latest[p][EgressField[name]] \in DOMAIN IngressField
                        THEN profile ELSE [profile EXCEPT ![p][EgressField[name]] = v]
          /\ named' = [named EXCEPT ![p][name] = v]
          /\ latest' = [latest EXCEPT ![p][EgressField[name]] = name]
       \/ UNCHANGED profileVars
    /\ UNCHANGED <<node, readerVars>>

\* ndi_qos_set_port_egr_profile_attr.
SetEgress(p, name, v) ==
    /\ \/ /\ PortIdGet(p)
          /\ profile' = [profile EXCEPT ![p][EgressField[name]] = v]
          /\ named' = [named EXCEPT ![p][name] = v]
          /\ latest' = [latest EXCEPT ![p][EgressField[name]] = name]
       \/ UNCHANGED profileVars
    /\ UNCHANGED <<node, readerVars>>

\* ndi_qos_get_port_ing_profile.
GetIngress(p, names) == [n \in names |-> profile[p][IngressField[n]]]

\* ndi_qos_get_port_egr_profile, the profiles.
GetEgress(p, names) == [n \in names |-> profile[p][EgressField[n]]]

-----------------------------------------------------------------------------
(* The queues of a port and their numbers, of a caller that asks for the   *)
(* list.  SAI is called once for the list and once for each queue; a       *)
(* refused first call changes nothing and is a stuttering step.            *)

\* The queues SAI lists.
QueuesOf(p) == Only(Nodes, {n \in Node : node[n] # None /\ node[n].port = p /\ ~IsGroup(n)})

CountOf(kind, queues) == Cardinality({i \in DOMAIN queues : KindOf[queues[i]] = kind})

\* The numbers the struct has of a list: a queue of SAI_QUEUE_TYPE_ALL is in the
\* first alone.
QueueNumbers(queues) ==
    [all |-> Len(queues), ucast |-> CountOf("ucast", queues), mcast |-> CountOf("mcast", queues)]

\* No call is counting.
NotReading == [at |-> 0, ucast |-> 0, mcast |-> 0]

\* ndi_qos_get_port_egr_profile up to the counting.  SAI gives the list, and its
\* length if the number is asked for too; an empty list is not counted.
ListQueues(p, numberToo) ==
    /\ reading = NotReading /\ PortIdGet(p)
    /\ egress' = [egress EXCEPT !.queues = QueuesOf(p),
                                !.all = IF numberToo THEN Len(QueuesOf(p)) ELSE @]
    /\ reading' = IF QueuesOf(p) = <<>> THEN NotReading ELSE [at |-> 1, ucast |-> 0, mcast |-> 0]
    /\ unread' = FALSE
    /\ UNCHANGED <<node, profileVars, counted>>

\* ndi_qos_get_queue and the switch on its type.
Tallied(q) ==
    [at |-> reading.at + 1,
     ucast |-> reading.ucast + (IF KindOf[q] = "ucast" THEN 1 ELSE 0),
     mcast |-> reading.mcast + (IF KindOf[q] = "mcast" THEN 1 ELSE 0)]

Told(tally) ==
    [queues |-> egress.queues, all |-> tally.at - 1, ucast |-> tally.ucast, mcast |-> tally.mcast]

\* One round of ndi_qos_update_port_queue_number; the numbers are given to the
\* caller after the last.
CountQueue ==
    /\ reading # NotReading
    /\ LET q == egress.queues[reading.at]
           last == reading.at = Len(egress.queues)
       IN  /\ node[q] # None
           /\ reading' = IF last THEN NotReading ELSE Tallied(q)
           /\ egress' = IF last THEN Told(Tallied(q)) ELSE egress
           /\ counted' = IF last THEN egress.queues ELSE counted
    /\ UNCHANGED <<node, profileVars, unread>>

\* Mutant: a queue that cannot be read gives what was counted before it.
CountStopsTelling ==
    /\ reading # NotReading
    /\ reading' = NotReading /\ unread' = TRUE
    /\ egress' = Told(reading)
    /\ UNCHANGED <<node, profileVars, counted>>

\* A queue that is gone by now, or that SAI does not give the type of: the
\* counting stops, its error is not looked at, and the numbers stay.
CountStops ==
    /\ reading # NotReading
    /\ reading' = NotReading /\ unread' = TRUE
    /\ UNCHANGED <<node, profileVars, egress, counted>>

-----------------------------------------------------------------------------
NoProfile == [f \in Range(IngressField) \cup Range(EgressField) |-> None]
NotSet == [f \in DOMAIN NoProfile |-> "not set"]
NoNames == [n \in DOMAIN IngressField \cup DOMAIN EgressField |-> None]

QosInit ==
    /\ node = [n \in Node |-> None]
    /\ profile = [p \in Port |-> NoProfile]
    /\ named = [p \in Port |-> NoNames]
    /\ latest = [p \in Port |-> NotSet]
    /\ egress = [queues |-> <<>>, all |-> 0, ucast |-> 0, mcast |-> 0]
    /\ reading = NotReading /\ counted = <<>> /\ unread = FALSE

\* A port's nodes and profiles go with it.
QosPortGone(p) ==
    /\ node' = [n \in Node |-> IF node[n] # None /\ node[n].port = p THEN None ELSE node[n]]
    /\ profile' = [profile EXCEPT ![p] = NoProfile]
    /\ named' = [named EXCEPT ![p] = NoNames]
    /\ latest' = [latest EXCEPT ![p] = NotSet]
    /\ UNCHANGED readerVars

QosNext ==
    \/ \E n \in Node, p \in Port, parent \in Node \cup {None} :
          CreateQueue(n, p, parent) \/ CreateGroup(n, p, parent)
    \/ \E n \in Node, parent \in Node \cup {None} :
          SetQueueParent(n, parent) \/ SetGroupParent(n, parent)
    \/ \E n \in Node : DeleteQueue(n) \/ DeleteGroup(n)
    \/ \E p \in Port, v \in Profile :
          \/ \E name \in DOMAIN IngressField : SetIngress(p, name, v)
          \/ \E name \in DOMAIN EgressField : SetEgress(p, name, v)
    \/ \E p \in Port, numberToo \in BOOLEAN : ListQueues(p, numberToo)
    \/ CountQueue \/ CountStops

-----------------------------------------------------------------------------
(* Properties.                                                             *)

\* The attribute of SAI that a name of the NAS is for.
FieldNamed(n) == IF n \in DOMAIN IngressField THEN IngressField[n] ELSE EgressField[n]

\* Read back under any of its names, a profile of a port is what the NAS set
\* last under any of them: the ingress and the egress map of traffic classes to
\* queues are one attribute of SAI, where the later of two sets wins, and one
\* the NAS has not set since the port came is none.
ProfilesAsTold ==
    \A p \in Port :
        LET ingress == GetIngress(p, DOMAIN IngressField)
            egr == GetEgress(p, DOMAIN EgressField)
            lastSet(n) == LET m == latest[p][FieldNamed(n)]
                          IN  IF m = "not set" THEN None ELSE named[p][m]
        IN  /\ \A n \in DOMAIN ingress : ingress[n] = lastSet(n)
            /\ \A n \in DOMAIN egr : egr[n] = lastSet(n)

\* The numbers of a port's queues by type are those of one whole list SAI gave,
\* the last that was counted to its end, and never of half a list, although
\* queues come and go and calls stop while it is counted.  When the last call
\* listed queues and could read each of them, that list is the one the caller
\* has beside the numbers, and the number of all queues is its length.
QueueNumbersCounted ==
    /\ egress.ucast = QueueNumbers(counted).ucast
    /\ egress.mcast = QueueNumbers(counted).mcast
    /\ reading = NotReading /\ egress.queues # <<>> /\ ~unread =>
          counted = egress.queues /\ egress.all = QueueNumbers(counted).all

\* What a caller would take the struct for, and the program does not give: the
\* numbers of every answered call are those of the list beside them.  An error in
\* the counting is not returned and an empty list is not counted, so that the
\* numbers of an earlier call stay beside a list of other queues.
NumbersOfTheList ==
    reading = NotReading =>
        egress = [queues |-> egress.queues] @@ QueueNumbers(egress.queues)
=============================================================================
