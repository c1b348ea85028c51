------------------------------- MODULE NdiFdb -------------------------------
(***************************************************************************)
(* LAGs and MAC entries over the bridge ports of the 1Q bridge             *)
(* (nas_ndi_lag.cpp, nas_ndi_mac.cpp, nas_ndi_bridge.cpp).                 *)
(*                                                                         *)
(* A port or a LAG forwards through its bridge port; a port gives its      *)
(* bridge port up when it joins a LAG and gets another when it leaves.     *)
(* MAC entries name bridge ports.  The switch learns and ages entries and  *)
(* tells NDI in batches of events, which wait until SAI's thread calls     *)
(* ndi_fdb_event_cb: the callback translates the bridge port and the VLAN  *)
(* of each event by what the caches hold by then, and tells the NAS.       *)
(*                                                                         *)
(* Calls come one at a time from the NAS.  An action is one call with      *)
(* every outcome SAI's refusals give it; an object is named by what it is  *)
(* for, since SAI refuses a second one and refuses to remove one in use.   *)
(***************************************************************************)
EXTENDS Integers, Sequences, FiniteSets, SequencesExt

CONSTANTS
    Port, Lag, Vlan, Mac,
    None,
    MaxEvents, \* bound: the events that wait
    MaxHurt    \* bound: the ports and LAGs a stopped call has changed

Target == Port \cup Lag
Entry == Vlan \X Mac
VlanOf(e) == e[1]

BridgePort == [up : BOOLEAN, filtering : BOOLEAN, stp : BOOLEAN]

ASSUME FdbAssumption ==
    /\ Port \cap Lag = {}
    /\ None \notin Target \cup BridgePort
    /\ MaxEvents \in Nat /\ MaxHurt \in Nat
    /\ IsFiniteSet(Vlan) /\ IsFiniteSet(Mac)

FdbEntry == [on : Target \cup {None}, static : BOOLEAN]
ASSUME NoneAssumption == None \notin FdbEntry

EventKind == {"learned", "aged", "moved", "flushed"}
Event == [kind : EventKind, entry : Entry, on : Target \cup {None}]

VARIABLES
    bp,     \* 1Q bridge ports in SAI
    cached, \* the ports and LAGs with a bridge port in _port_to_brport_blk
    lags,   \* LAGs in SAI
    member, \* LAG members in SAI: the LAG of a port
    lagmap, \* lag_member_to_port_map: the ports of the members
    vlans,  \* VLANs in the cache of virtual objects
    fdb,    \* MAC entries in SAI
    events, \* events the callback has not been given
    nas,    \* what the NAS has been told of each entry
    astray, \* history: entries whose events were lost or overtaken
    hurt    \* history: ports and LAGs that a call stopped half way has changed

lagVars == <<bp, cached, lags, member, lagmap, hurt>>
fdbVars == <<vlans, fdb, events, nas, astray>>
vars == <<lagVars, fdbVars>>

Whole == [up |-> TRUE, filtering |-> TRUE, stp |-> TRUE]

Init ==
    /\ bp = [t \in Target |-> IF t \in Port THEN Whole ELSE None]
    /\ cached = Port
    /\ lags = {}
    /\ member = [p \in Port |-> None]
    /\ lagmap = {}
    /\ vlans = Vlan
    /\ fdb = [e \in Entry |-> None]
    /\ events = <<>>
    /\ nas = [e \in Entry |-> None]
    /\ astray = {}
    /\ hurt = {}

-----------------------------------------------------------------------------
(* Events.                                                                 *)

On(t) == {e \in Entry : fdb[e] # None /\ fdb[e].on = t}
Waiting(e) == \E i \in DOMAIN events : events[i].entry = e

\* The switch tells of each of the entries it removes.
Removed(es, kind) ==
    /\ Len(events) + Cardinality(es) <= MaxEvents
    /\ fdb' = [e \in Entry |-> IF e \in es THEN None ELSE fdb[e]]
    /\ \E order \in SetToSeqs(es) :
          /\ events' = events \o [i \in DOMAIN order |->
                [kind |-> kind, entry |-> order[i], on |-> fdb[order[i]].on]]

\* The switch learns an entry, moves a dynamic one or ages it.
Tells(kind, e, t) == events' = Append(events, [kind |-> kind, entry |-> e, on |-> t])

Forwards(t) == bp[t] # None /\ bp[t].up /\ bp[t].stp /\ bp[t].filtering

Learn(e, t) ==
    /\ fdb[e] = None /\ Forwards(t) /\ VlanOf(e) \in vlans
    /\ Len(events) < MaxEvents
    /\ fdb' = [fdb EXCEPT ![e] = [on |-> t, static |-> FALSE]]
    /\ Tells("learned", e, t)
    /\ UNCHANGED <<lagVars, vlans, nas, astray>>

Move(e, t) ==
    /\ fdb[e] # None /\ ~fdb[e].static /\ fdb[e].on # t /\ Forwards(t)
    /\ Len(events) < MaxEvents
    /\ fdb' = [fdb EXCEPT ![e].on = t]
    /\ Tells("moved", e, t)
    /\ UNCHANGED <<lagVars, vlans, nas, astray>>

Age(e) ==
    /\ fdb[e] # None /\ ~fdb[e].static
    /\ Removed({e}, "aged")
    /\ UNCHANGED <<lagVars, vlans, nas, astray>>

\* _fill_mac_entry_from_brport: the bridge port must be in the cache.
Translates(ev) == ev.on \in cached

\* Mutant: a move is not a kind of event NDI knows.
NoMoves(ev) == CASE ev.kind = "learned"             -> ev.on
                 [] ev.kind \in {"aged", "flushed"} -> None
                 [] OTHER                           -> nas[ev.entry]

\* ndi_mac_event_type_get, and what the NAS makes of it.
Told(ev) == IF ev.kind \in {"learned", "moved"} THEN ev.on ELSE None

\* The events of a batch the callback gets to: an event it cannot translate ends
\* the batch.  One of a VLAN that is gone is told of as one of a 1D bridge.
Reached(batch) == {i \in DOMAIN batch : \A j \in 1 .. i : Translates(batch[j])}
Heard(batch) == {i \in Reached(batch) : VlanOf(batch[i].entry) \in vlans}

LastOf(batch, is, e) ==
    CHOOSE i \in is : /\ batch[i].entry = e
                      /\ \A j \in is : batch[j].entry = e => j <= i

\* ndi_fdb_event_cb.
FdbEvents(n) ==
    /\ n \in 1 .. Len(events)
    /\ LET batch == SubSeq(events, 1, n)
           heard == Heard(batch)
           told  == {batch[i].entry : i \in heard}
       IN  /\ nas' = [e \in Entry |-> IF e \in told THEN Told(batch[LastOf(batch, heard, e)])
                                                    ELSE nas[e]]
           /\ astray' = astray \cup {batch[i].entry : i \in DOMAIN batch \ heard}
    /\ events' = SubSeq(events, n + 1, Len(events))
    /\ UNCHANGED <<lagVars, vlans, fdb>>

-----------------------------------------------------------------------------
(* MAC entries of the NAS.                                                 *)

\* The NAS's own change of an entry is overtaken by the events that wait.
Overtaken(es) == astray' = astray \cup {e \in es : Waiting(e)}

\* ndi_create_mac_entry: an entry that traps has no bridge port.
CreateMac(e, t, static) ==
    /\ fdb[e] = None
    /\ VlanOf(e) \in vlans
    /\ t \in cached \cup {None}
    /\ fdb' = [fdb EXCEPT ![e] = [on |-> t, static |-> static]]
    /\ nas' = [nas EXCEPT ![e] = t]
    /\ Overtaken({e})
    /\ UNCHANGED <<lagVars, vlans, events>>

\* ndi_update_mac_entry of the port.
UpdateMac(e, t) ==
    /\ fdb[e] # None
    /\ VlanOf(e) \in vlans
    /\ t \in cached
    /\ fdb' = [fdb EXCEPT ![e].on = t]
    /\ nas' = [nas EXCEPT ![e] = t]
    /\ Overtaken({e})
    /\ UNCHANGED <<lagVars, vlans, events>>

\* ndi_delete_mac_entry of a single entry.
DeleteMac(e) ==
    /\ fdb[e] # None
    /\ VlanOf(e) \in vlans
    /\ fdb' = [fdb EXCEPT ![e] = None]
    /\ nas' = [nas EXCEPT ![e] = None]
    /\ Overtaken({e})
    /\ UNCHANGED <<lagVars, vlans, events>>

\* The entries a flush by port, by VLAN or by both is about; the port and the
\* VLAN must be in the caches.  Types is given when the caller sets the type.
Matching(ts, vs, types) ==
    {e \in Entry : fdb[e] # None /\ fdb[e].on \in ts /\ VlanOf(e) \in vs /\ fdb[e].static \in types}

Flush(ts, vs, types) ==
    /\ Removed(Matching(ts, vs, types), "flushed")
    /\ UNCHANGED <<lagVars, vlans, nas, astray>>

FlushPort(t, types) == t \in cached /\ Flush({t}, Vlan, types)
FlushVlan(v, types) == v \in vlans /\ Flush(Target \cup {None}, {v}, types)
FlushPortVlan(t, v, types) == t \in cached /\ v \in vlans /\ Flush({t}, {v}, types)
FlushAll(types) == Flush(Target \cup {None}, Vlan, types)

\* ndi_delete_vlan flushes the dynamic entries; SAI refuses to remove a VLAN with
\* others.  The VLAN leaves the cache before the callback hears of the flush.
DeleteVlan(v) ==
    /\ v \in vlans
    /\ \A e \in Entry : VlanOf(e) = v /\ fdb[e] # None => ~fdb[e].static
    /\ Removed(Matching(Target \cup {None}, {v}, {FALSE}), "flushed")
    /\ vlans' = vlans \ {v}
    /\ UNCHANGED <<lagVars, nas, astray>>

\* ndi_create_vlan.
CreateVlan(v) ==
    /\ v \notin vlans
    /\ vlans' = vlans \cup {v}
    /\ UNCHANGED <<lagVars, fdb, events, nas, astray>>

-----------------------------------------------------------------------------
(* Bridge ports: ndi_create_bridge_port and ndi_delete_bridge_port.        *)

\* Mutant: the STP port is not created.
WholeNoStp(t) == bp' = [bp EXCEPT ![t] = [Whole EXCEPT !.stp = FALSE]]

Made(t) == bp' = [bp EXCEPT ![t] = Whole]

\* What a creation that is refused leaves: nothing, or a bridge port whose
\* roll-back, filtering or STP port was refused.
Leftovers ==
    {None, [up |-> FALSE, filtering |-> FALSE, stp |-> FALSE],
           [up |-> TRUE, filtering |-> FALSE, stp |-> FALSE],
           [up |-> TRUE, filtering |-> TRUE, stp |-> FALSE]}

NotMade(t) ==
    IF bp[t] # None THEN UNCHANGED bp
    ELSE \E left \in Leftovers : bp' = [bp EXCEPT ![t] = left]

\* The entries of a bridge port that is removed are flushed before.
Unmade(t) ==
    /\ bp' = [bp EXCEPT ![t] = None]
    /\ cached' = cached \ {t}
    /\ Removed(On(t), "flushed")
    /\ UNCHANGED <<vlans, nas, astray>>

\* A removal SAI stops: the bridge port is down, and its entries and its STP port
\* may be gone.
NotUnmade(t) ==
    \/ UNCHANGED bp /\ UNCHANGED fdbVars
    \/ bp' = [bp EXCEPT ![t].up = FALSE] /\ UNCHANGED fdbVars
    \/ /\ \E stp \in {bp[t].stp, FALSE} : bp' = [bp EXCEPT ![t].up = FALSE, ![t].stp = stp]
       /\ Removed(On(t), "flushed")
       /\ UNCHANGED <<vlans, nas, astray>>

Hurt(t) == hurt' = hurt \cup {t} /\ Cardinality(hurt') <= MaxHurt

-----------------------------------------------------------------------------
(* LAGs.                                                                   *)

CreateLag(l) ==
    /\ l \notin lags /\ bp[l] = None
    /\ Made(l)
    /\ lags' = lags \cup {l}
    /\ cached' = cached \cup {l}
    /\ UNCHANGED <<member, lagmap, hurt, fdbVars>>

\* The LAG stays, without a bridge port that anyone finds.
CreateLagStops(l) ==
    /\ l \notin lags /\ bp[l] = None
    /\ NotMade(l)
    /\ lags' = lags \cup {l}
    /\ Hurt(l)
    /\ UNCHANGED <<cached, member, lagmap, fdbVars>>

HasMembers(l) == \E p \in Port : member[p] = l

DeleteLag(l) ==
    /\ l \in lags \cap cached
    /\ ~HasMembers(l)
    /\ Unmade(l)
    /\ lags' = lags \ {l}
    /\ hurt' = hurt \ {l}
    /\ UNCHANGED <<member, lagmap>>

\* The bridge port goes first: a LAG with members loses it, and SAI keeps the LAG.
DeleteLagStops(l) ==
    /\ l \in lags \cap cached
    /\ \/ Unmade(l)
       \/ NotUnmade(l) /\ UNCHANGED cached
    /\ Hurt(l)
    /\ UNCHANGED <<lags, member, lagmap>>

\* Mutant: the port keeps its bridge port.
JoinKeepsBridgePort(l, p) ==
    /\ l \in lags /\ member[p] = None /\ p \in cached
    /\ member' = [member EXCEPT ![p] = l]
    /\ lagmap' = lagmap \cup {p}
    /\ UNCHANGED <<bp, cached, lags, hurt, fdbVars>>

\* ndi_add_ports_to_lag.
AddPort(l, p) ==
    /\ l \in lags /\ member[p] = None /\ p \in cached
    /\ Unmade(p)
    /\ member' = [member EXCEPT ![p] = l]
    /\ lagmap' = lagmap \cup {p}
    /\ hurt' = hurt \ {p}
    /\ UNCHANGED lags

\* SAI stops at the bridge port, or takes it and refuses the member.
AddPortStops(l, p) ==
    /\ l \in lags /\ member[p] = None /\ p \in cached
    /\ \/ Unmade(p)
       \/ NotUnmade(p) /\ UNCHANGED cached
    /\ Hurt(p)
    /\ UNCHANGED <<lags, member, lagmap>>

\* ndi_del_ports_from_lag.
DelPort(p) ==
    /\ member[p] # None
    /\ member' = [member EXCEPT ![p] = None]
    /\ p \in lagmap
    /\ lagmap' = lagmap \ {p}
    /\ Made(p)
    /\ cached' = cached \cup {p}
    /\ UNCHANGED <<lags, hurt, fdbVars>>

\* The member is gone and the port does not get its bridge port back.
DelPortStops(p) ==
    /\ member[p] # None
    /\ member' = [member EXCEPT ![p] = None]
    /\ lagmap' = lagmap \ {p}
    /\ NotMade(p)
    /\ Hurt(p)
    /\ UNCHANGED <<cached, lags, fdbVars>>

-----------------------------------------------------------------------------
Next ==
    \/ \E e \in Entry, t \in Target :
          Learn(e, t) \/ Move(e, t) \/ UpdateMac(e, t)
    \/ \E e \in Entry : Age(e) \/ DeleteMac(e)
    \/ \E e \in Entry, t \in Target \cup {None}, static \in BOOLEAN : CreateMac(e, t, static)
    \/ \E n \in 1 .. MaxEvents : FdbEvents(n)
    \/ \E types \in {{TRUE}, {FALSE}, BOOLEAN}, t \in Target, v \in Vlan :
          \/ FlushPort(t, types) \/ FlushVlan(v, types)
          \/ FlushPortVlan(t, v, types) \/ FlushAll(types)
    \/ \E v \in Vlan : DeleteVlan(v) \/ CreateVlan(v)
    \/ \E l \in Lag :
          \/ CreateLag(l) \/ CreateLagStops(l)
          \/ DeleteLag(l) \/ DeleteLagStops(l)
          \/ \E p \in Port : AddPort(l, p) \/ AddPortStops(l, p)
    \/ \E p \in Port : DelPort(p) \/ DelPortStops(p)

Spec == Init /\ [][Next]_vars

-----------------------------------------------------------------------------
(* Properties.                                                             *)

\* A port never forwards on its own and as a member of a LAG at once, not even
\* after calls that SAI stopped half way (the order of the steps in
\* ndi_add_ports_to_lag and ndi_del_ports_from_lag).
OneForwarder == \A p \in Port : member[p] # None => bp[p] = None

\* A LAG or a port that no stopped call has changed has either its bridge port,
\* set up and found by lookups, or, a port, a LAG it is a member of.
Served ==
    \A t \in (Port \cup lags) \ hurt :
        IF t \in Port /\ member[t] # None THEN t \notin cached /\ t \in lagmap
        ELSE t \in cached /\ bp[t] = Whole

\* Once the callback has been given all events, the NAS knows the entries the
\* switch has, unless events were dropped with their batch, were told of under
\* another name, or were overtaken by calls of the NAS.
NasAgrees ==
    events = <<>> =>
        \A e \in Entry \ astray : nas[e] = IF fdb[e] = None THEN None ELSE fdb[e].on

\* Bridge ports, LAGs and their members are of their types, and
\* lag_member_to_port_map has exactly the ports SAI has members for.
LagTypeOK ==
    /\ bp \in [Target -> BridgePort \cup {None}]
    /\ cached \subseteq {t \in Target : bp[t] # None}
    /\ lags \subseteq Lag
    /\ member \in [Port -> lags \cup {None}]
    /\ lagmap = {p \in Port : member[p] # None}
    /\ hurt \subseteq Target

\* So are VLANs, entries and events.
TypeOK ==
    /\ LagTypeOK
    /\ vlans \subseteq Vlan
    /\ fdb \in [Entry -> FdbEntry \cup {None}]
    /\ events \in Seq(Event) /\ Len(events) <= MaxEvents
    /\ nas \in [Entry -> Target \cup {None}]
    /\ astray \subseteq Entry
=============================================================================
