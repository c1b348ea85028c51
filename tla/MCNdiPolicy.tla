---------------------------- MODULE MCNdiPolicy ----------------------------
EXTENDS NdiPolicy

CONSTANTS p1, s1, s2, l1, t1, e1, c1, q1, q2, q3, g1, g2, good

MCFilterLists == {{"IN_INTF", "UDF"}, {"IP_TYPE"}, {"OTHER"}}
MCActionLists == {{}, {"REDIRECT_INTF", "SET_COUNTER"}}
MCEntryLists ==
    {<<>>,
     <<"UDF", 1>> :> good @@ <<"SET_COUNTER", 0>> :> c1,
     <<"IN_PORT", 0>> :> p1 @@ <<"MIRROR_INGRESS", 0>> :> s1}
MCNodes == <<q1, g1, q2, q3, g2>>
MCKindOf == q1 :> "ucast" @@ q2 :> "mcast" @@ q3 :> "all" @@ g1 :> "group" @@ g2 :> "group"
MCLevelOf == q1 :> 2 @@ q2 :> 2 @@ q3 :> 2 @@ g1 :> 0 @@ g2 :> 1

\* The parts that are away from where they began.
InUse ==
    (IF session[s1] = None THEN {} ELSE {"session"})
    \cup (IF /\ session[s2] = None /\ session[s1] # p1
             /\ \A k \in MirrorKey : list[k] = <<>> /\ mirrored[k] = {}
          THEN {} ELSE {"mirror"})
    \cup (IF \A t \in Table : table[t] = None THEN {} ELSE {"acl"})
    \cup (IF \A n \in Node : node[n] = None THEN {} ELSE {"nodes"})
    \cup (IF /\ reading = NotReading /\ counted = <<>> /\ ~unread
             /\ egress = [queues |-> <<>>, all |-> 0, ucast |-> 0, mcast |-> 0]
          THEN {} ELSE {"reader"})
    \cup (IF \A p \in Port : named[p] = NoNames THEN {} ELSE {"profiles"})
    \cup {o \in Polled : \E s \in SaiStat : stat[o][s] # 0}

\* One part at a time is explored beside the ports, but mirroring and the ACL
\* beside the first session, and the reader beside two queues; an
\* entry has two filters and actions, and the counts are set without entries.
OneAtATime ==
    /\ Cardinality(InUse \ {"session", "reader"}) <= 1
    /\ "session" \in InUse => InUse \subseteq {"session", "mirror", "acl"}
    /\ "reader" \in InUse =>
          /\ InUse \subseteq {"nodes", "reader"}
          /\ node[g1] = None /\ node[g2] = None
          /\ Cardinality({n \in Node : node[n] # None}) <= 2
    /\ \A e \in Entry : entry[e] # None =>
          /\ Cardinality(DOMAIN entry[e].attrs) <= 2
          /\ \A c \in Counter : counter[c] # None => counter[c].bytes = 0 /\ counter[c].packets = 0
=============================================================================
