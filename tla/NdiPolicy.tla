----------------------------- MODULE NdiPolicy -----------------------------
(***************************************************************************)
(* Mirroring, ACL and QoS together, on ports that come and go.  They meet  *)
(* in SAI only: an ACL entry holds the session it mirrors to and the ports *)
(* it names, and a port takes its QoS and its mirroring with it.           *)
(***************************************************************************)
EXTENDS NdiAcl, NdiQos, NdiQosStats

vars == <<mapped, mirrorVars, aclVars, qosVars, statVars>>

Init ==
    /\ mapped = Port
    /\ MirrorInit
    /\ AclInit
    /\ QosInit
    /\ StatsInit

\* The NAS deletes a port; SAI refuses while something names it.
PortGone(p) ==
    /\ PortIdGet(p) /\ ~PortInAcl(p)
    /\ mapped' = mapped \ {p}
    /\ MirrorPortGone(p)
    /\ QosPortGone(p)
    /\ UNCHANGED <<aclVars, statVars>>

PortBack(p) ==
    /\ ~PortIdGet(p)
    /\ mapped' = mapped \cup {p}
    /\ UNCHANGED <<mirrorVars, aclVars, qosVars, statVars>>

Next ==
    \/ \E p \in Port : PortGone(p) \/ PortBack(p)
    \/ MirrorNext(SessionsInAcl) /\ UNCHANGED <<mapped, aclVars, qosVars, statVars>>
    \/ AclNext({s \in Session : session[s] # None}) /\ UNCHANGED <<mapped, mirrorVars, qosVars, statVars>>
    \/ QosNext /\ UNCHANGED <<mapped, mirrorVars, aclVars, statVars>>
    \/ StatsNext /\ UNCHANGED <<mapped, mirrorVars, aclVars, qosVars>>

Spec == Init /\ [][Next]_vars

-----------------------------------------------------------------------------
\* What SAI has of entries, tables and profiles is what the NAS was told.
AttributesAsTold == EntriesAsTold /\ ProfilesAsTold
=============================================================================
