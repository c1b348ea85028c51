-------------------------- MODULE NdiServicesProofs --------------------------
(***************************************************************************)
(* The safety of the services on top of ports and bridges, for every set   *)
(* of keys, endpoints, object ids, sessions and nodes, and every choice of *)
(* failing SAI calls: router interfaces (NdiRif), VXLAN endpoints          *)
(* (NdiTunnel), and mirroring, ACL, QoS and statistics (NdiPolicy).  They  *)
(* share the lemmas about picking from a list.                             *)
(***************************************************************************)
EXTENDS NdiRif, NdiTunnel, NdiPolicy, FiniteSetTheorems, SequenceTheorems, WellFoundedInduction, TLAPS

-----------------------------------------------------------------------------
(* Numbers and lists.                                                      *)

\* A set of natural numbers has a least one.
LEMMA LeastExists ==
    ASSUME NEW S \in SUBSET Nat, S # {}
    PROVE  \E x \in S : \A y \in S : x <= y
<1> DEFINE R == OpToRel(<, Nat)
<1>1. IsWellFoundedOn(R, Nat)
    BY NatLessThanWellFounded
<1>2. \E x \in S : \A y \in S : ~ (<<y, x>> \in R)
  <2> HIDE DEF R
  <2> QED BY <1>1, WFMin
<1>3. \A x, y \in Nat : y < x => <<y, x>> \in R
    BY DEF OpToRel
<1>4. ASSUME NEW x \in S, NEW y \in S, ~ (<<y, x>> \in R)
      PROVE  x <= y
  <2> HIDE DEF R
  <2>1. x \in Int /\ y \in Int
      OBVIOUS
  <2> QED BY <1>3, <1>4, <2>1
<1> HIDE DEF R
<1> QED BY <1>2, <1>4

\* A set of natural numbers with 0 and each one's successor has all of them.
LEMMA AllNumbers ==
    ASSUME NEW S \in SUBSET Nat, 0 \in S, \A n \in S : n + 1 \in S
    PROVE  S = Nat
<1> SUFFICES ASSUME Nat \ S # {} PROVE FALSE
    OBVIOUS
<1>1. PICK x \in Nat \ S : \A y \in Nat \ S : x <= y
    BY LeastExists
<1>2. x # 0 /\ x - 1 \in Nat
    BY <1>1
<1>3. x - 1 \in S
    BY <1>1, <1>2
<1> QED BY <1>1, <1>3

\* A list after one more element.
LEMMA Appended ==
    ASSUME NEW T, NEW s \in Seq(T), NEW e \in T
    PROVE  /\ Append(s, e) \in Seq(T) /\ Len(Append(s, e)) = Len(s) + 1
           /\ DOMAIN Append(s, e) = 1 .. Len(s) + 1
           /\ \A i \in 1 .. Len(s) : Append(s, e)[i] = s[i]
           /\ Append(s, e)[Len(s) + 1] = e
OBVIOUS

\* The i-th step of Only.
Picked(f, s, S, i) ==
    IF i = 0 THEN <<>> ELSE IF s[i] \in S THEN Append(f[i - 1], s[i]) ELSE f[i - 1]

\* Only goes through the list from its start.
LEMMA OnlyUnfolds ==
    ASSUME NEW s, NEW S, Len(s) \in Nat
    PROVE  \E f : /\ Only(s, S) = f[Len(s)]
                  /\ f[0] = <<>>
                  /\ \A i \in 1 .. Len(s) :
                        f[i] = IF s[i] \in S THEN Append(f[i - 1], s[i]) ELSE f[i - 1]
<1> DEFINE Fun(f, n) == f = [i \in 0 .. n |-> Picked(f, s, S, i)]
           T == {n \in Nat : \E f : Fun(f, n)}
           pick == CHOOSE f : Fun(f, Len(s))
<1>1. 0 \in T
  <2>1. Fun([i \in 0 .. 0 |-> <<>>], 0)
      BY DEF Picked
  <2> QED BY <2>1
<1>2. ASSUME NEW n \in T
      PROVE  n + 1 \in T
  <2>1. PICK f : Fun(f, n)
      OBVIOUS
  <2> DEFINE h == [i \in 0 .. n + 1 |-> IF i <= n THEN f[i] ELSE Picked(f, s, S, i)]
  <2>2. ASSUME NEW i \in 0 .. n + 1
        PROVE  h[i] = Picked(h, s, S, i)
    <3>1. CASE i = 0
        BY <2>1, <3>1 DEF Picked
    <3>2. CASE i # 0
      <4>1. i - 1 \in 0 .. n /\ h[i - 1] = f[i - 1]
          BY <3>2
      <4>2. Picked(h, s, S, i) = Picked(f, s, S, i)
          BY <4>1, <3>2 DEF Picked
      <4>3. h[i] = Picked(f, s, S, i)
          BY <2>1
      <4> QED BY <4>2, <4>3
    <3> QED BY <3>1, <3>2
  <2>3. Fun(h, n + 1)
      BY <2>2
  <2> QED BY <2>3
<1>3. T = Nat
  <2> HIDE DEF T
  <2>1. T \in SUBSET Nat
      BY DEF T
  <2> QED BY <1>1, <1>2, <2>1, AllNumbers
<1>4. Fun(pick, Len(s))
    BY <1>3
<1>5. Only(s, S) = pick[Len(s)]
    BY DEF Only, Picked
<1>6. \A i \in 0 .. Len(s) : pick[i] = Picked(pick, s, S, i)
  <2> HIDE DEF pick
  <2> QED BY <1>4
<1> HIDE DEF pick
<1>7. pick[0] = <<>>
    BY <1>6 DEF Picked
<1>8. ASSUME NEW i \in 1 .. Len(s)
      PROVE  pick[i] = IF s[i] \in S THEN Append(pick[i - 1], s[i]) ELSE pick[i - 1]
  <2>1. i \in 0 .. Len(s) /\ i # 0
      OBVIOUS
  <2> QED BY <1>6, <2>1 DEF Picked
<1> QED BY <1>5, <1>7, <1>8

\* What Only picks of the first elements of a list, one more at a time.
OneByOne(s, S) ==
    /\ Only(SubSeq(s, 1, 0), S) = <<>>
    /\ \A n \in 1 .. Len(s) :
          Only(SubSeq(s, 1, n), S) =
              IF s[n] \in S THEN Append(Only(SubSeq(s, 1, n - 1), S), s[n])
                            ELSE Only(SubSeq(s, 1, n - 1), S)
    /\ SubSeq(s, 1, Len(s)) = s

LEMMA OnlyPrefixes ==
    ASSUME NEW T, NEW s \in Seq(T), NEW S
    PROVE  OneByOne(s, S)
<1>1. Len(s) \in Nat
    OBVIOUS
<1>2. PICK f : /\ Only(s, S) = f[Len(s)]
               /\ f[0] = <<>>
               /\ \A i \in 1 .. Len(s) :
                     f[i] = IF s[i] \in S THEN Append(f[i - 1], s[i]) ELSE f[i - 1]
    BY <1>1, OnlyUnfolds
<1>3. ASSUME NEW n \in 0 .. Len(s)
      PROVE  Only(SubSeq(s, 1, n), S) = f[n]
  <2> DEFINE sub == SubSeq(s, 1, n)
  <2>1. Len(sub) = n /\ \A i \in 1 .. n : sub[i] = s[i]
      OBVIOUS
  <2>2. PICK g : /\ Only(sub, S) = g[n]
                 /\ g[0] = <<>>
                 /\ \A i \in 1 .. n :
                       g[i] = IF sub[i] \in S THEN Append(g[i - 1], sub[i]) ELSE g[i - 1]
    <3>1. Len(sub) \in Nat
        BY <2>1
    <3> HIDE DEF sub
    <3> QED BY <2>1, <3>1, OnlyUnfolds
  <2> HIDE DEF sub
  <2> DEFINE A == {j \in Nat : j <= n => g[j] = f[j]}
  <2>3. 0 \in A
      BY <1>2, <2>2
  <2>4. ASSUME NEW j \in A, j + 1 <= n
        PROVE  g[j + 1] = f[j + 1]
    <3>1. j \in Nat /\ g[j] = f[j] /\ j + 1 \in 1 .. n /\ j + 1 \in 1 .. Len(s) /\ (j + 1) - 1 = j
        BY <1>1, <2>4
    <3> QED BY <1>2, <2>1, <2>2, <3>1
  <2>5. A = Nat
    <3>1. A \in SUBSET Nat /\ \A j \in A : j + 1 \in A
        BY <2>4
    <3> HIDE DEF A
    <3> QED BY <2>3, <3>1, AllNumbers
  <2>6. g[n] = f[n]
      BY <2>5
  <2> QED BY <2>2, <2>6 DEF sub
<1>4. Only(SubSeq(s, 1, 0), S) = <<>>
    BY <1>1, <1>2, <1>3
<1>5. ASSUME NEW n \in 1 .. Len(s)
      PROVE  Only(SubSeq(s, 1, n), S) =
                 IF s[n] \in S THEN Append(Only(SubSeq(s, 1, n - 1), S), s[n])
                               ELSE Only(SubSeq(s, 1, n - 1), S)
  <2>1. n \in 0 .. Len(s) /\ n - 1 \in 0 .. Len(s)
      BY <1>1
  <2>2. Only(SubSeq(s, 1, n), S) = f[n] /\ Only(SubSeq(s, 1, n - 1), S) = f[n - 1]
      BY <1>3, <2>1
  <2> QED BY <1>2, <2>2
<1>6. SubSeq(s, 1, Len(s)) = s
    OBVIOUS
<1> QED BY <1>4, <1>5, <1>6 DEF OneByOne

\* Only picks a list of the elements in S, none of them twice if none was.
LEMMA OnlyFacts ==
    ASSUME NEW T, NEW s \in Seq(T), NEW S
    PROVE  /\ Only(s, S) \in Seq(T)
           /\ ToSet(Only(s, S)) = ToSet(s) \cap S
           /\ IsInjective(s) => IsInjective(Only(s, S))
<1>0. OneByOne(s, S)
    BY OnlyPrefixes
<1> DEFINE P(n) == Only(SubSeq(s, 1, n), S)
           From(n) == {s[i] : i \in 1 .. n} \cap S
           Ok(n) == /\ P(n) \in Seq(T)
                    /\ ToSet(P(n)) = From(n)
                    /\ IsInjective(s) => IsInjective(P(n))
           A == {n \in Nat : n <= Len(s) => Ok(n)}
<1>1. Len(s) \in Nat /\ DOMAIN s = 1 .. Len(s) /\ \A i \in 1 .. Len(s) : s[i] \in T
    OBVIOUS
<1>2. /\ P(0) = <<>>
      /\ \A n \in 1 .. Len(s) : P(n) = IF s[n] \in S THEN Append(P(n - 1), s[n]) ELSE P(n - 1)
      /\ P(Len(s)) = Only(s, S)
  <2>1. /\ P(0) = <<>>
        /\ \A n \in 1 .. Len(s) : P(n) = IF s[n] \in S THEN Append(P(n - 1), s[n]) ELSE P(n - 1)
        /\ SubSeq(s, 1, Len(s)) = s
      BY <1>0 DEF OneByOne
  <2>2. P(Len(s)) = Only(s, S)
      BY <2>1
  <2> QED BY <2>1, <2>2
<1> HIDE DEF P
<1>3. 0 \in A
  <2>0. P(0) = <<>>
      BY <1>2
  <2>1. P(0) \in Seq(T) /\ DOMAIN P(0) = {}
    <3>1. <<>> \in Seq(T) /\ DOMAIN <<>> = {}
        OBVIOUS
    <3> QED BY <2>0, <3>1
  <2>2. ToSet(P(0)) = {} /\ From(0) = {} /\ IsInjective(P(0))
      BY <2>1 DEF ToSet, IsInjective
  <2> QED BY <2>1, <2>2
<1>4. ASSUME NEW n \in A, n + 1 <= Len(s)
      PROVE  Ok(n + 1)
  <2>1. n \in Nat /\ n + 1 \in 1 .. Len(s) /\ Ok(n) /\ (n + 1) - 1 = n
      BY <1>1, <1>4
  <2> DEFINE x == s[n + 1]
  <2>2. x \in T /\ 1 .. n + 1 = (1 .. n) \cup {n + 1}
      BY <1>1, <2>1
  <2>3. CASE x \notin S
    <3>1. P(n + 1) = P(n)
        BY <1>2, <2>1, <2>3
    <3>2. From(n + 1) = From(n)
        BY <2>2, <2>3
    <3> HIDE DEF From
    <3> QED BY <2>1, <3>1, <3>2
  <2>4. CASE x \in S
    <3>1. P(n + 1) = Append(P(n), x)
        BY <1>2, <2>1, <2>4
    <3>2. From(n + 1) = From(n) \cup {x}
        BY <2>2, <2>4
    <3>3. P(n) \in Seq(T) /\ ToSet(P(n)) = From(n) /\ (IsInjective(s) => IsInjective(P(n)))
        BY <2>1
    <3>4. ASSUME IsInjective(s) PROVE x \notin From(n)
      <4> SUFFICES ASSUME NEW j \in 1 .. n, s[j] = x PROVE FALSE
          OBVIOUS
      <4>1. j \in DOMAIN s /\ n + 1 \in DOMAIN s /\ j # n + 1
          BY <1>1, <2>1
      <4> QED BY <4>1, <3>4 DEF IsInjective
    <3> HIDE DEF From, x
    <3>5. /\ Append(P(n), x) \in Seq(T) /\ Len(P(n)) \in Nat
          /\ DOMAIN P(n) = 1 .. Len(P(n))
          /\ DOMAIN Append(P(n), x) = 1 .. Len(P(n)) + 1
          /\ \A i \in 1 .. Len(P(n)) : Append(P(n), x)[i] = P(n)[i]
          /\ Append(P(n), x)[Len(P(n)) + 1] = x
        BY <2>2, <3>3, Appended
    <3>6. DOMAIN Append(P(n), x) = (DOMAIN P(n)) \cup {Len(P(n)) + 1}
        BY <3>5
    <3>7. ToSet(Append(P(n), x)) = ToSet(P(n)) \cup {x}
        BY <3>5, <3>6 DEF ToSet
    <3>8. ASSUME IsInjective(s) PROVE IsInjective(Append(P(n), x))
      <4>1. IsInjective(P(n)) /\ x \notin ToSet(P(n))
          BY <3>3, <3>4, <3>8
      <4>2. ASSUME NEW a \in DOMAIN Append(P(n), x), NEW b \in DOMAIN Append(P(n), x),
                   Append(P(n), x)[a] = Append(P(n), x)[b]
            PROVE  a = b
        <5>1. CASE a \in DOMAIN P(n) /\ b \in DOMAIN P(n)
            BY <5>1, <4>1, <4>2, <3>5 DEF IsInjective
        <5>2. CASE a \notin DOMAIN P(n) /\ b \in DOMAIN P(n)
            BY <5>2, <4>1, <4>2, <3>5, <3>6 DEF ToSet
        <5>3. CASE a \in DOMAIN P(n) /\ b \notin DOMAIN P(n)
            BY <5>3, <4>1, <4>2, <3>5, <3>6 DEF ToSet
        <5>4. CASE a \notin DOMAIN P(n) /\ b \notin DOMAIN P(n)
            BY <5>4, <3>6
        <5> QED BY <5>1, <5>2, <5>3, <5>4
      <4> QED BY <4>2 DEF IsInjective
    <3> QED BY <3>1, <3>2, <3>3, <3>5, <3>7, <3>8
  <2> QED BY <2>3, <2>4
<1>5. A = Nat
  <2> HIDE DEF Ok
  <2>1. A \in SUBSET Nat /\ \A n \in A : n + 1 \in A
      BY <1>4
  <2> HIDE DEF A
  <2> QED BY <1>3, <2>1, AllNumbers
<1>6. Ok(Len(s))
    BY <1>1, <1>5
<1>7. From(Len(s)) = ToSet(s) \cap S
    BY <1>1 DEF ToSet
<1> QED BY <1>2, <1>6, <1>7

-----------------------------------------------------------------------------
(* Tunnels.                                                                *)

Maps == {"encap_map", "decap_map"}
Entries == {"encap_entry", "decap_entry"}
MapOf(m) == IF m = "encap_entry" THEN "encap_map" ELSE "decap_map"

\* An object is recorded under its kind, and a call knows it by its kind.
OidsOfKind ==
    /\ \A e \in Endpoint : objs[e] # None =>
          /\ \A k \in Basic : objs[e].oid[k][1] = k
          /\ \A m \in Member, b \in Bridge : At(e, m, b) # None => At(e, m, b).oid[1] = m
    /\ \A k \in Kind : call.made[k] # None => call.made[k][1] = k

\* No object is on record twice: what one endpoint removes is not another's.
RecordedOnce ==
    \A e, f \in Endpoint : objs[e] # None /\ objs[f] # None =>
        /\ \A k \in Basic : objs[e].oid[k] = objs[f].oid[k] => e = f
        /\ \A m \in Member, b, c \in Bridge :
              At(e, m, b) # None /\ At(f, m, c) # None /\ At(e, m, b).oid = At(f, m, c).oid
              => e = f /\ b = c

\* What an object in SAI uses is in SAI, is a map or a tunnel, and a tunnel
\* that is used is on record.
UsesLive ==
    \A x \in Oid : sai[x] # None => \A u \in sai[x].uses :
        /\ sai[u] # None
        /\ u[1] \in Maps \cup {"tunnel"}
        /\ u[1] = "tunnel" => OnRecord(u)

\* The recorded objects that are still in SAI are those of their endpoint.
RecordsHold ==
    \A e \in Endpoint : objs[e] # None =>
        /\ sai[objs[e].oid["tunnel"]] # None =>
             Holds(objs[e].oid["tunnel"],
                   {objs[e].oid["encap_map"], objs[e].oid["decap_map"]}, None, None)
        /\ e \notin broken /\ ~(call.pc = "remove_basic" /\ call.ep = e) =>
             Holds(objs[e].oid["term"], {objs[e].oid["tunnel"]}, None, None)
        /\ \A m \in Entries, b \in Bridge :
             At(e, m, b) # None /\ sai[At(e, m, b).oid] # None =>
                 sai[At(e, m, b).oid].uses = {objs[e].oid[MapOf(m)]}

\* Where a call that makes the tunnel is: what it has made is in SAI and not
\* on record yet.
Done(pc) == CASE pc = "encap_map" -> {}
              [] pc = "decap_map" -> {"encap_map"}
              [] pc = "tunnel"    -> Maps
              [] pc = "term"      -> Maps \cup {"tunnel"}

Making ==
    call.pc \in Basic =>
        /\ call.ep \in Endpoint /\ call.bridge \in Bridge /\ call.vni \in Vni
        /\ objs[call.ep] = None
        /\ \A k \in Done(call.pc) :
              call.made[k] # None /\ sai[call.made[k]] # None /\ ~OnRecord(call.made[k])
        /\ \A k \in Kind \ Done(call.pc) : call.made[k] = None
        /\ call.pc = "term" =>
              Holds(call.made["tunnel"], {call.made["encap_map"], call.made["decap_map"]}, None, None)

\* Where a call that joins a bridge is: past its first entry the bridge had no
\* entry and so no port, and each entry it has made is recorded as it is in SAI.
Entered(m) ==
    /\ call.made[m] # None
    /\ At(call.ep, m, call.bridge) = [vni |-> call.vni, oid |-> call.made[m]]
    /\ Holds(call.made[m], {objs[call.ep].oid[MapOf(m)]}, call.bridge, call.vni)

Joining ==
    call.pc \in Member =>
        /\ call.ep \in Endpoint /\ call.bridge \in Bridge /\ call.vni \in Vni
        /\ objs[call.ep] # None
        /\ call.pc = "decap_entry" => call.made["decap_entry"] = None
        /\ call.pc \in {"decap_entry", "encap_entry"} => call.made["encap_entry"] = None
        /\ call.pc \in {"encap_entry", "port"} =>
              Entered("decap_entry") /\ At(call.ep, "port", call.bridge) = None
        /\ call.pc = "port" => Entered("encap_entry")

\* Where a roll-back is: what it is to remove is not on record, or is an entry
\* of a bridge without a port.
MayGo(u) ==
    \/ ~OnRecord(call.made[u])
    \/ /\ u \in Entries
       /\ objs[call.ep] # None
       /\ At(call.ep, u, call.bridge) # None
       /\ At(call.ep, u, call.bridge).oid = call.made[u]
       /\ At(call.ep, "port", call.bridge) = None

Undoing ==
    call.pc = "rollback" =>
        /\ call.ep \in Endpoint /\ call.bridge \in Bridge
        /\ call.todo # <<>>
        /\ \A u \in ToSet(call.todo) :
              /\ u \in Maps \cup {"tunnel"} \cup Entries
              /\ call.made[u] # None
              /\ MayGo(u)

\* Where a removal is: the objects of the endpoint that are not to be removed
\* any more are gone.
Removing ==
    call.pc \in {"remove", "remove_basic"} =>
        /\ call.ep \in Endpoint /\ call.bridge \in Bridge
        /\ objs[call.ep] # None
        /\ \A k \in Basic : call.made[k] = objs[call.ep].oid[k]

RemovingEntries ==
    call.pc = "remove" =>
        /\ At(call.ep, "port", call.bridge) = None
        /\ \A m \in Entries : /\ At(call.ep, m, call.bridge) # None
                              /\ call.made[m] = At(call.ep, m, call.bridge).oid
        /\ \/ call.todo = <<"encap_entry", "decap_entry">>
           \/ call.todo = <<"decap_entry">> /\ sai[call.made["encap_entry"]] = None

RemovingTunnel ==
    call.pc = "remove_basic" =>
        /\ LastPort(call.ep)
        /\ \/ call.todo = <<"term", "tunnel", "decap_map", "encap_map">>
           \/ /\ call.todo = <<"tunnel", "decap_map", "encap_map">>
              /\ sai[call.made["term"]] = None
           \/ /\ call.todo = <<"decap_map", "encap_map">>
              /\ sai[call.made["term"]] = None /\ sai[call.made["tunnel"]] = None
           \/ /\ call.todo = <<"encap_map">>
              /\ sai[call.made["term"]] = None /\ sai[call.made["tunnel"]] = None
              /\ sai[call.made["decap_map"]] = None

\* NothingStray while a call is under way: what is not on record the call has.
AllKnown ==
    \A o \in Oid \ left : sai[o] # None /\ o[1] \notin Maps =>
        \/ OnRecord(o)
        \/ call.pc = "term" /\ o = call.made["tunnel"]
        \/ call.pc = "rollback" /\ \E u \in ToSet(call.todo) : o = call.made[u]

\* The inductive invariant.
TunnelInv ==
    /\ TunnelTypeOK /\ OidsOfKind /\ RecordedOnce
    /\ UsesLive /\ RecordsHold /\ PortsCarryTraffic
    /\ Making /\ Joining /\ Undoing
    /\ Removing /\ RemovingEntries /\ RemovingTunnel
    /\ AllKnown

-----------------------------------------------------------------------------
(* The tunnel's state, taken apart.                                        *)

\* What TunnelTypeOK says of one object, one endpoint and the call.
LEMMA TunnelTypes ==
    ASSUME TunnelTypeOK
    PROVE  /\ \A o \in Oid : sai[o] # None => sai[o] \in SaiObject
           /\ \A e \in Endpoint : objs[e] # None =>
                 /\ objs[e] \in TunnelObj
                 /\ \A k \in Basic : objs[e].oid[k] \in Oid
                 /\ \A m \in Member, b \in Bridge :
                       At(e, m, b) # None => At(e, m, b) \in TunnelEntry /\ At(e, m, b).oid \in Oid
           /\ call.pc \in Kind \cup {"idle", "rollback", "remove", "remove_basic"}
           /\ call.made \in [Kind -> Oid \cup {None}]
           /\ call.todo \in Seq(Kind)
<1>1. \A o \in Oid : sai[o] # None => sai[o] \in SaiObject
    BY DEF TunnelTypeOK
<1>2. ASSUME NEW e \in Endpoint, objs[e] # None
      PROVE  /\ objs[e] \in TunnelObj
             /\ \A k \in Basic : objs[e].oid[k] \in Oid
             /\ \A m \in Member, b \in Bridge :
                   At(e, m, b) # None => At(e, m, b) \in TunnelEntry /\ At(e, m, b).oid \in Oid
  <2>1. objs[e] \in TunnelObj
      BY <1>2 DEF TunnelTypeOK
  <2>2. objs[e].oid \in [Basic -> Oid] /\ objs[e].at \in [Member -> [Bridge -> {None} \cup TunnelEntry]]
      BY <2>1 DEF TunnelObj
  <2>3. ASSUME NEW m \in Member, NEW b \in Bridge, At(e, m, b) # None
        PROVE  At(e, m, b) \in TunnelEntry /\ At(e, m, b).oid \in Oid
    <3>1. At(e, m, b) \in {None} \cup TunnelEntry
        BY <2>2 DEF At
    <3> QED BY <2>3, <3>1 DEF TunnelEntry
  <2> QED BY <2>1, <2>2, <2>3
<1>3. /\ call.pc \in Kind \cup {"idle", "rollback", "remove", "remove_basic"}
      /\ call.made \in [Kind -> Oid \cup {None}]
      /\ call.todo \in Seq(Kind)
    BY DEF TunnelTypeOK
<1> QED BY <1>1, <1>2, <1>3

\* A new object is in room SAI has, under its kind, and not on record.
LEMMA NewOidFacts ==
    ASSUME NEW k \in Kind, FreeOids(k) # {}
    PROVE  /\ NewOid(k) \in Oid /\ NewOid(k)[1] = k
           /\ sai[NewOid(k)] = None
           /\ ~OnRecord(NewOid(k))
<1>1. FreeOids(k) \in SUBSET Nat /\ FreeOids(k) \subseteq 1 .. MaxOid
    BY TunnelAssumption DEF FreeOids
<1>2. \E x \in FreeOids(k) : \A y \in FreeOids(k) : x <= y
    BY <1>1, LeastExists
<1>3. Min(FreeOids(k)) \in FreeOids(k)
    BY <1>2 DEF Min
<1>4. PICK n \in FreeOids(k) : NewOid(k) = <<k, n>>
    BY <1>3 DEF NewOid
<1>5. n \in 1 .. MaxOid /\ sai[<<k, n>>] = None /\ ~OnRecord(<<k, n>>)
    BY <1>4 DEF FreeOids
<1> QED BY <1>4, <1>5 DEF Oid

\* What a roll-back is left to do after a call of kind k made these objects.
Rollable(k) == IF k \in Basic THEN Maps \cup {"tunnel", "term"} ELSE Entries

LEMMA RollBackFacts ==
    ASSUME TunnelTypeOK, NEW k \in Kind, NEW made \in [Kind -> Oid \cup {None}], RollBack(k, made)
    PROVE  \/ /\ call' = Idle
              /\ \A u \in Rollable(k) : made[u] = None
           \/ /\ call' = [call EXCEPT !.pc = "rollback", !.made = made, !.todo = call'.todo]
              /\ call'.todo \in Seq(Kind) /\ call'.todo # <<>>
              /\ ToSet(call'.todo) = {u \in Rollable(k) : made[u] # None}
<1> DEFINE S == {u \in Kind : made[u] # None}
           todo == Only(RollbackOrder(k), S)
<1>1. RollbackOrder(k) \in Seq(Kind) /\ ToSet(RollbackOrder(k)) = Rollable(k) /\ Rollable(k) \subseteq Kind
  <2>1. CASE k \in Basic
    <3>1. RollbackOrder(k) = <<"encap_map", "decap_map", "term", "tunnel">>
        BY <2>1 DEF RollbackOrder
    <3> QED BY <2>1, <3>1 DEF Rollable, ToSet, Maps, Kind, Basic
  <2>2. CASE k \notin Basic
    <3>1. RollbackOrder(k) = <<"encap_entry", "decap_entry">>
        BY <2>2 DEF RollbackOrder
    <3> QED BY <2>2, <3>1 DEF Rollable, ToSet, Entries, Kind, Member
  <2> QED BY <2>1, <2>2
<1>2. todo \in Seq(Kind) /\ ToSet(todo) = Rollable(k) \cap S
  <2>1. PICK all \in Seq(Kind) : all = RollbackOrder(k) /\ ToSet(all) = Rollable(k)
      BY <1>1
  <2>2. Only(all, S) \in Seq(Kind) /\ ToSet(Only(all, S)) = ToSet(all) \cap S
    <3> HIDE DEF S
    <3> QED BY OnlyFacts
  <2> QED BY <2>1, <2>2
<1>3. ToSet(todo) = {u \in Rollable(k) : made[u] # None}
    BY <1>1, <1>2
<1>4. call' = IF todo = <<>> THEN Idle
              ELSE [call EXCEPT !.pc = "rollback", !.made = made, !.todo = todo]
    BY DEF RollBack
<1> HIDE DEF todo
<1>5. CASE todo = <<>>
  <2>1. ToSet(todo) = {}
      BY <1>5 DEF ToSet
  <2> QED BY <1>3, <1>4, <1>5, <2>1
<1>6. CASE todo # <<>>
  <2>1. call'.todo = todo
      BY <1>4, <1>6 DEF TunnelTypeOK
  <2> QED BY <1>2, <1>3, <1>4, <1>6, <2>1
<1> QED BY <1>5, <1>6

-----------------------------------------------------------------------------
(* Steps that change neither SAI nor what is on record.                    *)

LEMMA TunnelInitInv == TunnelInit => TunnelInv
<1> SUFFICES ASSUME TunnelInit PROVE TunnelInv
    OBVIOUS
<1> USE TunnelAssumption
<1>1. TunnelTypeOK
    BY DEF TunnelInit, TunnelTypeOK, Idle
<1>2. OidsOfKind /\ RecordedOnce /\ UsesLive /\ RecordsHold /\ PortsCarryTraffic
    BY DEF TunnelInit, Idle, OidsOfKind, RecordedOnce, UsesLive, RecordsHold, PortsCarryTraffic
<1>3. call.pc = "idle"
    BY DEF TunnelInit, Idle
<1>4. Making /\ Joining /\ Undoing /\ Removing /\ RemovingEntries /\ RemovingTunnel
    BY <1>3 DEF Making, Joining, Undoing, Removing, RemovingEntries, RemovingTunnel, Basic, Member
<1>5. AllKnown
    BY DEF TunnelInit, AllKnown
<1> QED BY <1>1, <1>2, <1>4, <1>5 DEF TunnelInv

\* The records and their objects are as they were.
LEMMA SameRecords ==
    ASSUME TunnelInv, UNCHANGED <<sai, objs>>, broken \subseteq broken',
           call'.made \in [Kind -> Oid \cup {None}],
           \A k \in Kind : call'.made[k] # None => call'.made[k][1] = k,
           \A e \in Endpoint : e \notin broken' /\ call.pc = "remove_basic" /\ call.ep = e
                                  => call'.pc = "remove_basic" /\ call'.ep = e
    PROVE  /\ OidsOfKind' /\ RecordedOnce' /\ UsesLive' /\ RecordsHold' /\ PortsCarryTraffic'
           /\ \A o : OnRecord(o)' <=> OnRecord(o)
           /\ \A o, u, b, v : Holds(o, u, b, v)' <=> Holds(o, u, b, v)
           /\ \A e, m, b : At(e, m, b)' = At(e, m, b)
<1> USE DEF TunnelInv
<1>1. \A e, m, b : At(e, m, b)' = At(e, m, b)
    BY DEF At
<1>2. \A o : OnRecord(o)' <=> OnRecord(o)
    BY DEF OnRecord, At
<1>3. \A o, u, b, v : Holds(o, u, b, v)' <=> Holds(o, u, b, v)
    BY DEF Holds
<1>4. OidsOfKind'
    BY <1>1 DEF OidsOfKind
<1>5. RecordedOnce'
    BY <1>1 DEF RecordedOnce
<1>6. UsesLive'
    BY <1>2 DEF UsesLive
<1>7. RecordsHold'
  <2> SUFFICES ASSUME NEW e \in Endpoint, objs[e] # None
               PROVE  /\ (sai[objs[e].oid["tunnel"]] # None =>
                            Holds(objs[e].oid["tunnel"],
                                  {objs[e].oid["encap_map"], objs[e].oid["decap_map"]}, None, None))'
                      /\ (e \notin broken /\ ~(call.pc = "remove_basic" /\ call.ep = e) =>
                            Holds(objs[e].oid["term"], {objs[e].oid["tunnel"]}, None, None))'
                      /\ (\A m \in Entries, b \in Bridge :
                            At(e, m, b) # None /\ sai[At(e, m, b).oid] # None =>
                                sai[At(e, m, b).oid].uses = {objs[e].oid[MapOf(m)]})'
      BY DEF RecordsHold
  <2> QED BY <1>1, <1>3 DEF RecordsHold
<1>8. PortsCarryTraffic'
    BY <1>1, <1>3 DEF PortsCarryTraffic
<1> QED BY <1>1, <1>2, <1>3, <1>4, <1>5, <1>6, <1>7, <1>8

\* A call to add an endpoint begins.
LEMMA AddStep ==
    ASSUME TunnelInv, NEW e \in Endpoint, NEW b \in Bridge, NEW v \in Vni, AddEndpoint(e, b, v)
    PROVE  TunnelInv'
<1> USE TunnelAssumption
<1>1. /\ call = Idle
      /\ call'.pc = IF objs[e] = None THEN "encap_map" ELSE "decap_entry"
      /\ call'.ep = e /\ call'.bridge = b /\ call'.vni = v
      /\ call'.made = [k \in Kind |-> None] /\ call'.todo = <<>>
      /\ UNCHANGED <<sai, objs, left, broken>>
    BY DEF AddEndpoint, Idle
<1>2. call.pc = "idle"
    BY <1>1 DEF Idle
<1>3. TunnelTypeOK'
  <2>1. "encap_map" \in Kind /\ "decap_entry" \in Kind
      BY DEF Kind, Basic, Member
  <2>2. call' \in [pc : Kind \cup {"idle", "rollback", "remove", "remove_basic"},
                 ep : Endpoint \cup {None}, bridge : Bridge \cup {None},
                 vni : Vni \cup {None}, made : [Kind -> Oid \cup {None}], todo : Seq(Kind)]
    <3> DEFINE pc == IF objs[e] = None THEN "encap_map" ELSE "decap_entry"
               none == [k \in Kind |-> None]
    <3>1. call' = [pc |-> pc, ep |-> e, bridge |-> b, vni |-> v, made |-> none, todo |-> <<>>]
        BY DEF AddEndpoint, Idle
    <3>2. pc \in Kind /\ none \in [Kind -> Oid \cup {None}] /\ <<>> \in Seq(Kind)
        BY <2>1
    <3> HIDE DEF pc, none
    <3> QED BY <3>1, <3>2
  <2> QED BY <1>1, <2>2 DEF TunnelInv, TunnelTypeOK
<1>4. /\ OidsOfKind' /\ RecordedOnce' /\ UsesLive' /\ RecordsHold' /\ PortsCarryTraffic'
      /\ \A o : OnRecord(o)' <=> OnRecord(o)
      /\ \A o, u, c, w : Holds(o, u, c, w)' <=> Holds(o, u, c, w)
      /\ \A f, m, c : At(f, m, c)' = At(f, m, c)
  <2>1. broken \subseteq broken' /\ call'.made \in [Kind -> Oid \cup {None}]
      BY <1>1
  <2>2. \A k \in Kind : call'.made[k] # None => call'.made[k][1] = k
      BY <1>1
  <2> QED BY <1>1, <1>2, <2>1, <2>2, SameRecords
<1>5. Making'
  <2>1. CASE call'.pc = "encap_map"
    <3>1. Done(call'.pc) = {} /\ objs[e] = None
        BY <1>1, <2>1 DEF Done
    <3> QED BY <1>1, <2>1, <3>1 DEF Making
  <2>2. CASE call'.pc = "decap_entry"
      BY <2>2 DEF Making, Basic
  <2> QED BY <1>1, <2>1, <2>2
<1>6. Joining'
  <2>1. CASE call'.pc = "encap_map"
      BY <2>1 DEF Joining, Member
  <2>2. CASE call'.pc = "decap_entry"
    <3>1. objs'[e] # None /\ call'.made["decap_entry"] = None /\ call'.made["encap_entry"] = None
        BY <1>1, <2>2 DEF Kind, Member
    <3> QED BY <1>1, <2>2, <3>1 DEF Joining
  <2> QED BY <1>1, <2>1, <2>2
<1>7. (Undoing /\ Removing /\ RemovingEntries /\ RemovingTunnel)'
    BY <1>1 DEF Undoing, Removing, RemovingEntries, RemovingTunnel
<1>8. AllKnown'
    BY <1>1, <1>2, <1>4 DEF AllKnown, TunnelInv
<1> QED BY <1>3, <1>4, <1>5, <1>6, <1>7, <1>8 DEF TunnelInv

\* The call is over, with nothing of its own in SAI.
LEMMA CallEnds ==
    ASSUME TunnelInv, UNCHANGED <<sai, objs, left>>, broken \subseteq broken', broken' \subseteq Endpoint,
           call' = Idle,
           call.pc = "remove_basic" => call.ep \in broken',
           call.pc = "term" => call.made["tunnel"] = None,
           call.pc # "rollback"
    PROVE  TunnelInv'
<1> USE TunnelAssumption
<1>1. call'.pc = "idle" /\ call'.made = [k \in Kind |-> None]
    BY DEF Idle
<1>2. TunnelTypeOK'
    BY DEF TunnelInv, TunnelTypeOK, Idle
<1>3. /\ OidsOfKind' /\ RecordedOnce' /\ UsesLive' /\ RecordsHold' /\ PortsCarryTraffic'
      /\ \A o : OnRecord(o)' <=> OnRecord(o)
      /\ \A o, u, c, w : Holds(o, u, c, w)' <=> Holds(o, u, c, w)
      /\ \A f, m, c : At(f, m, c)' = At(f, m, c)
    BY <1>1, SameRecords
<1>4. (Making /\ Joining /\ Undoing /\ Removing /\ RemovingEntries /\ RemovingTunnel)'
    BY <1>1 DEF Making, Joining, Undoing, Removing, RemovingEntries, RemovingTunnel, Basic, Member
<1>5. AllKnown'
  <2> SUFFICES ASSUME NEW o \in Oid \ left, sai[o] # None, o[1] \notin Maps
               PROVE  OnRecord(o)
      BY <1>3 DEF AllKnown
  <2>1. o # None
      BY DEF Oid
  <2> QED BY <2>1 DEF AllKnown, TunnelInv
<1> QED BY <1>2, <1>3, <1>4, <1>5 DEF TunnelInv

\* A removal that SAI refuses to go on with.
LEMMA RemoveStuckStep ==
    ASSUME TunnelInv, RemoveStuck
    PROVE  TunnelInv'
<1>1. UNCHANGED <<sai, objs, left>> /\ call' = Idle /\ call.pc \in {"remove", "remove_basic"}
    BY DEF RemoveStuck
<1>2. call.ep \in Endpoint /\ broken \subseteq Endpoint
    BY <1>1 DEF TunnelInv, Removing, TunnelTypeOK
<1>3. broken' = IF call.pc = "remove_basic" THEN broken \cup {call.ep} ELSE broken
    BY DEF RemoveStuck
<1> QED BY <1>1, <1>2, <1>3, CallEnds

\* SAI did not make the object: what was made before is to be removed.
LEMMA CreateFailedStep ==
    ASSUME TunnelInv, NEW k \in Kind, CreateFailed(k)
    PROVE  TunnelInv'
<1> USE TunnelAssumption
<1>1. call.pc = k /\ RollBack(k, call.made) /\ UNCHANGED <<sai, objs, left, broken>>
    BY DEF CreateFailed
<1>2. TunnelTypeOK /\ call.made \in [Kind -> Oid \cup {None}]
    BY TunnelTypes DEF TunnelInv
<1>3. \/ /\ call' = Idle
         /\ \A u \in Rollable(k) : call.made[u] = None
      \/ /\ call' = [call EXCEPT !.pc = "rollback", !.made = call.made, !.todo = call'.todo]
         /\ call'.todo \in Seq(Kind) /\ call'.todo # <<>>
         /\ ToSet(call'.todo) = {u \in Rollable(k) : call.made[u] # None}
    BY <1>1, <1>2, RollBackFacts
<1>4. k # "rollback" /\ k # "remove_basic" /\ (k = "term" => "tunnel" \in Rollable(k))
    BY DEF Kind, Basic, Member, Rollable
<1>5. CASE call' = Idle /\ \A u \in Rollable(k) : call.made[u] = None
    BY <1>1, <1>4, <1>5, <1>2, CallEnds DEF TunnelTypeOK
<1>6. CASE /\ call' = [call EXCEPT !.pc = "rollback", !.made = call.made, !.todo = call'.todo]
           /\ call'.todo \in Seq(Kind) /\ call'.todo # <<>>
           /\ ToSet(call'.todo) = {u \in Rollable(k) : call.made[u] # None}
  <2>1. /\ call'.pc = "rollback" /\ call'.ep = call.ep /\ call'.bridge = call.bridge
        /\ call'.made = call.made
      BY <1>2, <1>6 DEF TunnelTypeOK
  <2>2. TunnelTypeOK'
      BY <1>1, <1>2, <1>6 DEF TunnelTypeOK
  <2>3. /\ OidsOfKind' /\ RecordedOnce' /\ UsesLive' /\ RecordsHold' /\ PortsCarryTraffic'
        /\ \A o : OnRecord(o)' <=> OnRecord(o)
        /\ \A o, u, c, w : Holds(o, u, c, w)' <=> Holds(o, u, c, w)
        /\ \A f, m, c : At(f, m, c)' = At(f, m, c)
    <3>1. \A j \in Kind : call'.made[j] # None => call'.made[j][1] = j
        BY <2>1 DEF TunnelInv, OidsOfKind
    <3> QED BY <1>1, <1>2, <1>4, <2>1, <3>1, SameRecords
  <2>4. (Making /\ Joining /\ Removing /\ RemovingEntries /\ RemovingTunnel)'
      BY <2>1 DEF Making, Joining, Removing, RemovingEntries, RemovingTunnel, Basic, Member
  <2>5. call.ep \in Endpoint /\ call.bridge \in Bridge
      BY <1>1 DEF TunnelInv, Making, Joining, Kind
  <2>6. ASSUME NEW u \in Rollable(k), call.made[u] # None
        PROVE  u \in Maps \cup {"tunnel"} \cup Entries /\ MayGo(u)
    <3>1. CASE k \in Basic
      <4>1. u \in Done(k)
          BY <1>1, <2>6, <3>1 DEF TunnelInv, Making, Rollable, Maps, Kind, Basic
      <4>2. Done(k) \subseteq Maps \cup {"tunnel"}
          BY <3>1 DEF Done, Basic, Maps
      <4> QED BY <1>1, <3>1, <4>1, <4>2 DEF TunnelInv, Making, MayGo
    <3>2. CASE k \in Member
      <4>1. u \in Entries
          BY <3>2 DEF Rollable, Basic, Member
      <4>2. Entered(u) /\ At(call.ep, "port", call.bridge) = None /\ objs[call.ep] # None
          BY <1>1, <2>6, <3>2, <4>1 DEF TunnelInv, Joining, Entries, Member
      <4>3. At(call.ep, u, call.bridge) # None /\ At(call.ep, u, call.bridge).oid = call.made[u]
        <5>1. call.made[u] \in Oid /\ call.vni \in Vni
            BY <1>1, <1>2, <2>6, <3>2, <4>1 DEF TunnelInv, Joining, Entries, Kind, Member
        <5>2. At(call.ep, u, call.bridge) \in TunnelEntry /\ At(call.ep, u, call.bridge).oid = call.made[u]
            BY <4>2, <5>1 DEF Entered, TunnelEntry
        <5> QED BY <5>2
      <4> QED BY <4>1, <4>2, <4>3 DEF MayGo
    <3> QED BY <3>1, <3>2 DEF Kind
  <2>7. Undoing'
    <3> SUFFICES ASSUME NEW u \in ToSet(call'.todo)
                 PROVE  /\ u \in Maps \cup {"tunnel"} \cup Entries
                        /\ call'.made[u] # None
                        /\ MayGo(u)'
        BY <1>6, <2>1, <2>5 DEF Undoing
    <3>1. u \in Rollable(k) /\ call.made[u] # None
        BY <1>6
    <3>2. MayGo(u)' <=> MayGo(u)
        BY <1>1, <2>1, <2>3 DEF MayGo
    <3> QED BY <2>1, <2>6, <3>1, <3>2
  <2>8. AllKnown'
    <3> SUFFICES ASSUME NEW o \in Oid \ left, sai[o] # None, o[1] \notin Maps, ~OnRecord(o)
                 PROVE  \E u \in ToSet(call'.todo) : o = call.made[u]
        BY <1>1, <2>1, <2>3 DEF AllKnown
    <3>1. k = "term" /\ o = call.made["tunnel"] /\ o # None
        BY <1>1, <1>4 DEF AllKnown, TunnelInv, Oid
    <3> QED BY <1>4, <1>6, <3>1
  <2> QED BY <2>2, <2>3, <2>4, <2>7, <2>8 DEF TunnelInv
<1> QED BY <1>3, <1>5, <1>6

-----------------------------------------------------------------------------
(* Steps in which SAI makes an object.                                     *)

\* What SAI has of the new object, and that what it uses is there.
LEMMA NewObject ==
    ASSUME TunnelInv, NEW k \in Kind, call.pc = k, SaiMakes(k)
    PROVE  /\ NewOid(k) \in Oid /\ NewOid(k)[1] = k
           /\ sai[NewOid(k)] = None /\ ~OnRecord(NewOid(k))
           /\ Wanted(k) \in SaiObject /\ Wanted(k) # None
           /\ Wanted(k).uses = Uses(k)
           /\ Wanted(k).bridge = IF k \in Member THEN call.bridge ELSE None
           /\ Wanted(k).vni = IF k \in Entries THEN call.vni ELSE None
           /\ k \in Maps => Uses(k) = {}
           /\ k = "tunnel" => Uses(k) = {call.made["encap_map"], call.made["decap_map"]}
           /\ k = "term" => Uses(k) = {call.made["tunnel"]}
           /\ k = "port" => Uses(k) = {objs[call.ep].oid["tunnel"]}
           /\ k \in Entries => Uses(k) = {objs[call.ep].oid[MapOf(k)]}
           /\ \A u \in Uses(k) : /\ sai[u] # None
                                 /\ u[1] \in Maps \cup {"tunnel"}
                                 /\ u[1] = "tunnel" => OnRecord(u) \/ k = "term"
<1> USE TunnelAssumption
<1>1. /\ NewOid(k) \in Oid /\ NewOid(k)[1] = k
      /\ sai[NewOid(k)] = None /\ ~OnRecord(NewOid(k))
    BY NewOidFacts DEF SaiMakes
<1>2. /\ k \in Maps => Uses(k) = {}
      /\ k = "tunnel" => Uses(k) = {call.made["encap_map"], call.made["decap_map"]}
      /\ k = "term" => Uses(k) = {call.made["tunnel"]}
      /\ k = "port" => Uses(k) = {objs[call.ep].oid["tunnel"]}
      /\ k \in Entries => Uses(k) = {objs[call.ep].oid[MapOf(k)]}
  <2>1. CASE k \in Basic
    <3>1. k \in Maps => Uses(k) = {}
        BY <2>1 DEF Uses, Maps
    <3>2. k = "tunnel" => Uses(k) = {call.made["encap_map"], call.made["decap_map"]}
        BY <2>1 DEF Uses
    <3>3. k = "term" => Uses(k) = {call.made["tunnel"]}
        BY <2>1 DEF Uses
    <3> QED BY <2>1, <3>1, <3>2, <3>3 DEF Basic, Entries
  <2>2. CASE k \in Member
    <3>1. k \notin Basic
        BY <2>2 DEF Basic, Member
    <3>2. k = "port" => Uses(k) = {objs[call.ep].oid["tunnel"]}
        BY <3>1 DEF Uses
    <3>3. k = "encap_entry" => Uses(k) = {objs[call.ep].oid["encap_map"]}
        BY <3>1 DEF Uses
    <3>4. k = "decap_entry" => Uses(k) = {objs[call.ep].oid["decap_map"]}
        BY <3>1 DEF Uses
    <3> QED BY <2>2, <3>2, <3>3, <3>4 DEF Member, Entries, MapOf, Maps
  <2> QED BY <2>1, <2>2 DEF Kind
<1>3. CASE k \in Basic
  <2>1. call.ep \in Endpoint /\ \A u \in Done(k) : call.made[u] # None /\ sai[call.made[u]] # None
      BY <1>3 DEF TunnelInv, Making
  <2>2. \A u \in Kind : call.made[u] # None => call.made[u] \in Oid /\ call.made[u][1] = u
      BY TunnelTypes DEF TunnelInv, OidsOfKind
  <2>3. k = "tunnel" => Done(k) = Maps
      BY DEF Done
  <2>4. k = "term" => Done(k) = Maps \cup {"tunnel"}
      BY DEF Done
  <2>5. \A u \in Uses(k) : u \in Oid /\ sai[u] # None /\ u[1] \in Maps \cup {"tunnel"}
    <3>1. "encap_map" \in Kind /\ "decap_map" \in Kind /\ "tunnel" \in Kind
        BY DEF Kind, Basic
    <3>2. k \in Maps \/ k = "tunnel" \/ k = "term"
        BY <1>3 DEF Basic, Maps
    <3> QED BY <1>2, <2>1, <2>2, <2>3, <2>4, <3>1, <3>2 DEF Maps
  <2>6. k # "term" => \A u \in Uses(k) : u[1] # "tunnel"
    <3>1. k \in Maps \/ k = "tunnel" \/ k = "term"
        BY <1>3 DEF Basic, Maps
    <3> QED BY <1>2, <2>1, <2>2, <2>3, <3>1 DEF Maps, Kind, Basic
  <2>7. Wanted(k) = [ep     |-> IF k = "term" THEN call.ep ELSE None,
                     bridge |-> None, vni |-> None, uses |-> Uses(k)]
      BY <1>3 DEF Wanted, Basic, Member
  <2>8. Wanted(k) \in SaiObject
      BY <2>1, <2>5, <2>7 DEF SaiObject
  <2> QED BY <1>1, <1>2, <1>3, <2>5, <2>6, <2>7, <2>8 DEF Basic, Member, Entries
<1>4. CASE k \in Member
  <2>1. call.ep \in Endpoint /\ call.bridge \in Bridge /\ call.vni \in Vni /\ objs[call.ep] # None
      BY <1>4 DEF TunnelInv, Joining
  <2>2. \A u \in Basic : objs[call.ep].oid[u] \in Oid /\ objs[call.ep].oid[u][1] = u
                         /\ OnRecord(objs[call.ep].oid[u])
      BY <2>1, TunnelTypes DEF TunnelInv, OidsOfKind, OnRecord
  <2>3. \A u \in Uses(k) : u \in Oid /\ u[1] \in Maps \cup {"tunnel"} /\ OnRecord(u)
    <3>1. k \in Entries \/ k = "port"
        BY <1>4 DEF Member, Entries
    <3>2. MapOf(k) \in Maps /\ Maps \subseteq Basic /\ "tunnel" \in Basic
        BY DEF MapOf, Maps, Basic
    <3> QED BY <1>2, <2>2, <3>1, <3>2
  <2>4. Wanted(k) = [ep |-> None, bridge |-> call.bridge,
                     vni |-> IF k \in Entries THEN call.vni ELSE None, uses |-> Uses(k)]
      BY <1>4 DEF Wanted, Member, Entries
  <2>5. Wanted(k) \in SaiObject
      BY <2>1, <2>3, <2>4 DEF SaiObject
  <2>6. \A u \in Uses(k) : sai[u] # None
      BY DEF SaiMakes
  <2> QED BY <1>1, <1>2, <1>4, <2>3, <2>4, <2>5, <2>6
<1> QED BY <1>3, <1>4 DEF Kind

\* One more object in SAI, that is not on record.
LEMMA Grown ==
    ASSUME TunnelInv, NEW o \in Oid, NEW w \in SaiObject,
           sai[o] = None, ~OnRecord(o), sai' = [sai EXCEPT ![o] = w]
    PROVE  /\ \A x \in Oid : sai[x] # None => x # o /\ sai'[x] = sai[x]
           /\ \A x \in Oid : OnRecord(x) => x # o /\ sai'[x] = sai[x]
           /\ sai'[o] = w /\ w # None
           /\ \A x \in Oid : \A u, b, v : Holds(x, u, b, v) => Holds(x, u, b, v)'
           /\ sai' \in [Oid -> SaiObject \cup {None}]
<1> USE TunnelAssumption
<1>1. sai \in [Oid -> SaiObject \cup {None}]
    BY DEF TunnelInv, TunnelTypeOK
<1> QED BY <1>1 DEF Holds

\* It disturbs nothing that is on record.
LEMMA GrownBeside ==
    ASSUME TunnelInv, NEW o \in Oid, NEW w \in SaiObject,
           sai[o] = None, ~OnRecord(o), sai' = [sai EXCEPT ![o] = w],
           UNCHANGED <<objs, broken>>,
           \A u \in w.uses : /\ sai[u] # None
                             /\ u[1] \in Maps \cup {"tunnel"}
                             /\ u[1] = "tunnel" => OnRecord(u),
           \A k \in Kind : call'.made[k] # None => call'.made[k][1] = k,
           call.pc # "remove_basic"
    PROVE  /\ OidsOfKind' /\ RecordedOnce' /\ UsesLive' /\ RecordsHold' /\ PortsCarryTraffic'
           /\ \A x : OnRecord(x)' <=> OnRecord(x)
           /\ \A e, m, b : At(e, m, b)' = At(e, m, b)
<1>1. \A e, m, b : At(e, m, b)' = At(e, m, b)
    BY DEF At
<1>2. \A x : OnRecord(x)' <=> OnRecord(x)
    BY DEF OnRecord, At
<1>3. /\ \A x \in Oid : sai[x] # None => x # o /\ sai'[x] = sai[x]
      /\ \A x \in Oid : OnRecord(x) => x # o /\ sai'[x] = sai[x]
      /\ sai'[o] = w
      /\ \A x \in Oid : \A u, b, v : Holds(x, u, b, v) => Holds(x, u, b, v)'
    BY Grown
<1>4. OidsOfKind'
    BY <1>1 DEF OidsOfKind, TunnelInv
<1>5. RecordedOnce'
    BY <1>1 DEF RecordedOnce, TunnelInv
<1>6. UsesLive'
  <2> SUFFICES ASSUME NEW x \in Oid, sai'[x] # None, NEW u \in sai'[x].uses
               PROVE  /\ sai'[u] # None
                      /\ u[1] \in Maps \cup {"tunnel"}
                      /\ u[1] = "tunnel" => OnRecord(u)'
      BY DEF UsesLive
  <2>1. sai[u] # None /\ u[1] \in Maps \cup {"tunnel"} /\ (u[1] = "tunnel" => OnRecord(u))
    <3>1. CASE x = o
        BY <1>3, <3>1
    <3>2. CASE x # o
      <4>1. sai[x] = sai'[x]
          BY <3>2, <1>3 DEF TunnelInv, TunnelTypeOK
      <4> QED BY <4>1 DEF TunnelInv, UsesLive
    <3> QED BY <3>1, <3>2
  <2>2. u \in Oid
    <3>1. CASE x = o
        BY <1>3, <3>1 DEF SaiObject
    <3>2. CASE x # o
      <4>1. sai[x] = sai'[x]
          BY <3>2, <1>3 DEF TunnelInv, TunnelTypeOK
      <4> QED BY <4>1, TunnelTypes DEF TunnelInv, SaiObject
    <3> QED BY <3>1, <3>2
  <2> QED BY <1>2, <1>3, <2>1, <2>2
<1>7. RecordsHold'
  <2> SUFFICES ASSUME NEW e \in Endpoint, objs[e] # None
               PROVE  /\ (sai[objs[e].oid["tunnel"]] # None =>
                            Holds(objs[e].oid["tunnel"],
                                  {objs[e].oid["encap_map"], objs[e].oid["decap_map"]}, None, None))'
                      /\ (e \notin broken /\ ~(call.pc = "remove_basic" /\ call.ep = e) =>
                            Holds(objs[e].oid["term"], {objs[e].oid["tunnel"]}, None, None))'
                      /\ (\A m \in Entries, b \in Bridge :
                            At(e, m, b) # None /\ sai[At(e, m, b).oid] # None =>
                                sai[At(e, m, b).oid].uses = {objs[e].oid[MapOf(m)]})'
      BY DEF RecordsHold
  <2>1. \A k \in Basic : objs[e].oid[k] \in Oid /\ OnRecord(objs[e].oid[k])
      BY TunnelTypes DEF TunnelInv, OnRecord
  <2>2. "tunnel" \in Basic /\ "term" \in Basic
      BY DEF Basic
  <2>3. (sai[objs[e].oid["tunnel"]] # None =>
            Holds(objs[e].oid["tunnel"],
                  {objs[e].oid["encap_map"], objs[e].oid["decap_map"]}, None, None))'
      BY <1>3, <2>1, <2>2 DEF TunnelInv, RecordsHold
  <2>4. (e \notin broken /\ ~(call.pc = "remove_basic" /\ call.ep = e) =>
            Holds(objs[e].oid["term"], {objs[e].oid["tunnel"]}, None, None))'
      BY <1>3, <2>1, <2>2 DEF TunnelInv, RecordsHold
  <2>5. ASSUME NEW m \in Entries, NEW b \in Bridge, At(e, m, b) # None,
               sai'[At(e, m, b).oid] # None
        PROVE  sai'[At(e, m, b).oid].uses = {objs[e].oid[MapOf(m)]}
    <3>1. m \in Member
        BY DEF Entries, Member
    <3>2. At(e, m, b).oid \in Oid /\ OnRecord(At(e, m, b).oid)
        BY <2>5, <3>1, TunnelTypes DEF TunnelInv, OnRecord
    <3>3. sai'[At(e, m, b).oid] = sai[At(e, m, b).oid]
        BY <1>3, <3>2
    <3>4. sai[At(e, m, b).oid].uses = {objs[e].oid[MapOf(m)]}
        BY <2>5, <3>3 DEF TunnelInv, RecordsHold
    <3> QED BY <3>3, <3>4
  <2> QED BY <1>1, <2>3, <2>4, <2>5
<1>8. PortsCarryTraffic'
  <2> SUFFICES ASSUME NEW e \in Endpoint, NEW b \in Bridge, objs[e] # None, At(e, "port", b) # None
               PROVE  /\ Holds(objs[e].oid["tunnel"],
                               {objs[e].oid["encap_map"], objs[e].oid["decap_map"]}, None, None)'
                      /\ \A m \in Entries : At(e, m, b) # None
                      /\ Holds(At(e, "encap_entry", b).oid, {objs[e].oid["encap_map"]}, b, At(e, "port", b).vni)'
                      /\ Holds(At(e, "decap_entry", b).oid, {objs[e].oid["decap_map"]}, b, At(e, "port", b).vni)'
                      /\ (e \notin broken => Holds(objs[e].oid["term"], {objs[e].oid["tunnel"]}, None, None))'
      BY <1>1 DEF PortsCarryTraffic, Entries
  <2>1. /\ Holds(objs[e].oid["tunnel"],
                 {objs[e].oid["encap_map"], objs[e].oid["decap_map"]}, None, None)
        /\ \A m \in Entries : At(e, m, b) # None
        /\ Holds(At(e, "encap_entry", b).oid, {objs[e].oid["encap_map"]}, b, At(e, "port", b).vni)
        /\ Holds(At(e, "decap_entry", b).oid, {objs[e].oid["decap_map"]}, b, At(e, "port", b).vni)
        /\ e \notin broken => Holds(objs[e].oid["term"], {objs[e].oid["tunnel"]}, None, None)
      BY DEF TunnelInv, PortsCarryTraffic, Entries
  <2>2. /\ objs[e].oid["tunnel"] \in Oid /\ objs[e].oid["term"] \in Oid
        /\ At(e, "encap_entry", b).oid \in Oid /\ At(e, "decap_entry", b).oid \in Oid
      BY <2>1, TunnelTypes DEF TunnelInv, Basic, Member, Entries
  <2> QED BY <1>1, <1>3, <2>1, <2>2
<1> QED BY <1>1, <1>2, <1>4, <1>5, <1>6, <1>7, <1>8

\* A map or the tunnel is made, and not on record yet.
LEMMA CreateFirstStep ==
    ASSUME TunnelInv, NEW k \in Basic \ {"term"}, Create(k)
    PROVE  TunnelInv'
<1> USE TunnelAssumption
<1>0. PICK o : o = NewOid(k)
    OBVIOUS
<1>1. k \in Kind /\ k \in Maps \cup {"tunnel"} /\ k \notin Member
    BY DEF Kind, Basic, Maps, Member
<1>2. /\ call.pc = k /\ SaiMakes(k)
      /\ sai' = [sai EXCEPT ![o] = Wanted(k)]
      /\ UNCHANGED <<objs, left, broken>>
      /\ GoOn(k, [call.made EXCEPT ![k] = o])
    BY <1>0, <1>1 DEF Create, PutOnRecord
<1>3. /\ o \in Oid /\ o[1] = k /\ sai[o] = None /\ ~OnRecord(o)
      /\ Wanted(k) \in SaiObject /\ Wanted(k).uses = Uses(k)
      /\ Wanted(k).bridge = None /\ Wanted(k).vni = None
      /\ k = "tunnel" => Uses(k) = {call.made["encap_map"], call.made["decap_map"]}
      /\ \A u \in Uses(k) : /\ sai[u] # None
                            /\ u[1] \in Maps \cup {"tunnel"}
                            /\ u[1] = "tunnel" => OnRecord(u)
  <2>1. k # "term" /\ k \notin Entries
      BY <1>1 DEF Maps, Entries
  <2> QED BY <1>0, <1>1, <1>2, <2>1, NewObject
<1>4. call.made \in [Kind -> Oid \cup {None}] /\ call.pc # "remove_basic"
    BY <1>1, <1>2, TunnelTypes DEF TunnelInv, Maps
<1>5. /\ After(k) \in Kind \cap Basic
      /\ Done(After(k)) = Done(k) \cup {k} /\ k \notin Done(k)
      /\ Done(After(k)) \subseteq Kind
      /\ After(k) = "term" <=> k = "tunnel"
    BY <1>1 DEF After, Kind, Basic, Done, Maps
<1>6. /\ call'.pc = After(k) /\ call'.made = [call.made EXCEPT ![k] = o]
      /\ call'.ep = call.ep /\ call'.bridge = call.bridge /\ call'.vni = call.vni
      /\ call'.todo = call.todo
  <2>1. call' = [call EXCEPT !.pc = After(k), !.made = [call.made EXCEPT ![k] = o]]
      BY <1>2, <1>5 DEF GoOn, Kind, Basic, Member
  <2> QED BY <2>1 DEF TunnelInv, TunnelTypeOK
<1>7. TunnelTypeOK'
  <2>1. call' = [call EXCEPT !.pc = After(k), !.made = [call.made EXCEPT ![k] = o]]
      BY <1>2, <1>5 DEF GoOn, Kind, Basic, Member
  <2>2. sai' \in [Oid -> SaiObject \cup {None}]
      BY <1>2, <1>3, Grown
  <2> QED BY <1>1, <1>2, <1>3, <1>4, <1>5, <2>1, <2>2 DEF TunnelInv, TunnelTypeOK
<1>8. /\ OidsOfKind' /\ RecordedOnce' /\ UsesLive' /\ RecordsHold' /\ PortsCarryTraffic'
      /\ \A x : OnRecord(x)' <=> OnRecord(x)
  <2>1. \A j \in Kind : call'.made[j] # None => call'.made[j][1] = j
      BY <1>1, <1>3, <1>4, <1>6 DEF TunnelInv, OidsOfKind
  <2>2. \A u \in Wanted(k).uses : /\ sai[u] # None
                                  /\ u[1] \in Maps \cup {"tunnel"}
                                  /\ u[1] = "tunnel" => OnRecord(u)
      BY <1>3
  <2>3. /\ OidsOfKind' /\ RecordedOnce' /\ UsesLive' /\ RecordsHold' /\ PortsCarryTraffic'
        /\ \A x : OnRecord(x)' <=> OnRecord(x)
        /\ \A e, m, b : At(e, m, b)' = At(e, m, b)
    <3> HIDE DEF TunnelInv
    <3> QED BY <1>2, <1>3, <1>4, <2>1, <2>2, GrownBeside
  <2> QED BY <2>3
<1>9. /\ \A x \in Oid : sai[x] # None => x # o /\ sai'[x] = sai[x]
      /\ sai'[o] = Wanted(k) /\ Wanted(k) # None
    BY <1>2, <1>3, Grown
<1>10. Making'
  <2>1. call.ep \in Endpoint /\ call.bridge \in Bridge /\ call.vni \in Vni /\ objs[call.ep] = None
      BY <1>2 DEF TunnelInv, Making
  <2>2. ASSUME NEW j \in Done(After(k))
        PROVE  (call.made[j] # None /\ sai[call.made[j]] # None /\ ~OnRecord(call.made[j]))'
    <3>1. CASE j = k
        BY <1>1, <1>3, <1>4, <1>6, <1>8, <1>9, <3>1
    <3>2. CASE j # k
      <4>1. /\ j \in Kind /\ call'.made[j] = call.made[j]
            /\ call.made[j] # None /\ sai[call.made[j]] # None /\ ~OnRecord(call.made[j])
          BY <1>2, <1>4, <1>5, <1>6, <3>2 DEF TunnelInv, Making
      <4> QED BY <1>4, <1>8, <1>9, <4>1
    <3> QED BY <3>1, <3>2
  <2>3. ASSUME NEW j \in Kind \ Done(After(k))
        PROVE  call'.made[j] = None
    <3>1. j # k /\ j \notin Done(k)
        BY <1>5
    <3> QED BY <1>2, <1>4, <1>6, <3>1 DEF TunnelInv, Making
  <2>4. ASSUME After(k) = "term"
        PROVE  Holds(call.made["tunnel"], {call.made["encap_map"], call.made["decap_map"]}, None, None)'
    <3>1. k = "tunnel" /\ "encap_map" \in Kind /\ "decap_map" \in Kind
        BY <1>5, <2>4 DEF Kind, Basic
    <3>2. /\ call'.made["tunnel"] = o
          /\ call'.made["encap_map"] = call.made["encap_map"]
          /\ call'.made["decap_map"] = call.made["decap_map"]
        BY <1>1, <1>4, <1>6, <3>1
    <3> QED BY <1>3, <1>9, <3>1, <3>2 DEF Holds
  <2> QED BY <1>2, <1>6, <2>1, <2>2, <2>3, <2>4 DEF Making
<1>11. (Joining /\ Undoing /\ Removing /\ RemovingEntries /\ RemovingTunnel)'
    BY <1>5, <1>6 DEF Joining, Undoing, Removing, RemovingEntries, RemovingTunnel, Basic, Member
<1>12. AllKnown'
  <2> SUFFICES ASSUME NEW x \in Oid \ left, sai'[x] # None, x[1] \notin Maps, ~OnRecord(x)
               PROVE  call'.pc = "term" /\ x = call'.made["tunnel"]
      BY <1>2, <1>8 DEF AllKnown
  <2>1. x = o
    <3> SUFFICES ASSUME x # o PROVE FALSE
        OBVIOUS
    <3>1. sai[x] # None
        BY <1>2, <1>3 DEF TunnelInv, TunnelTypeOK
    <3> QED BY <1>1, <1>2, <3>1 DEF TunnelInv, AllKnown, Maps
  <2> QED BY <1>1, <1>3, <1>4, <1>5, <1>6, <2>1
<1> QED BY <1>7, <1>8, <1>10, <1>11, <1>12 DEF TunnelInv

\* The termination entry is made, and the tunnel goes on record with its maps.
LEMMA CreateTermStep ==
    ASSUME TunnelInv, Create("term")
    PROVE  TunnelInv'
<1> USE TunnelAssumption
<1>0. PICK o, made, ep : /\ o = NewOid("term")
                         /\ made = [call.made EXCEPT !["term"] = o]
                         /\ ep = call.ep
    OBVIOUS
<1>1. "term" \in Kind /\ "term" \in Basic /\ Basic \subseteq Kind /\ Basic = Maps \cup {"tunnel", "term"}
    BY DEF Kind, Basic, Maps
<1>2. /\ call.pc = "term" /\ SaiMakes("term")
      /\ sai' = [sai EXCEPT ![o] = Wanted("term")]
      /\ UNCHANGED <<left, broken>>
      /\ GoOn("term", made)
      /\ objs' = [objs EXCEPT ![ep] = NewTunnelObj(made)]
    BY <1>0, <1>1 DEF Create, PutOnRecord, Member
<1>3. /\ o \in Oid /\ o[1] = "term" /\ sai[o] = None /\ ~OnRecord(o)
      /\ Wanted("term") \in SaiObject /\ Wanted("term").uses = {call.made["tunnel"]}
      /\ Wanted("term").bridge = None /\ Wanted("term").vni = None
      /\ \A u \in Uses("term") : sai[u] # None /\ u[1] \in Maps \cup {"tunnel"}
  <2>1. "term" \notin Entries /\ "term" \notin Member
      BY DEF Entries, Member
  <2> QED BY <1>0, <1>1, <1>2, <2>1, NewObject
<1>4. /\ call.made \in [Kind -> Oid \cup {None}]
      /\ ep \in Endpoint /\ call.bridge \in Bridge /\ call.vni \in Vni /\ objs[ep] = None
      /\ \A j \in Maps \cup {"tunnel"} :
            call.made[j] # None /\ sai[call.made[j]] # None /\ ~OnRecord(call.made[j])
      /\ \A j \in Member : call.made[j] = None
      /\ Holds(call.made["tunnel"], {call.made["encap_map"], call.made["decap_map"]}, None, None)
  <2>1. Done("term") = Maps \cup {"tunnel"} /\ Member \subseteq Kind \ Done("term")
      BY DEF Done, Maps, Kind, Member
  <2> QED BY <1>0, <1>1, <1>2, <2>1, TunnelTypes DEF TunnelInv, Making
<1>5. /\ made \in [Kind -> Oid \cup {None}]
      /\ \A j \in Basic : made[j] \in Oid /\ made[j][1] = j /\ ~OnRecord(made[j])
      /\ \A j \in Maps \cup {"tunnel"} : made[j] = call.made[j]
      /\ made["term"] = o
      /\ \A j \in Member : made[j] = None
  <2>1. \A j \in Maps \cup {"tunnel"} : j # "term" /\ j \in Kind
      BY <1>1 DEF Maps
  <2>2. \A j \in Member : j # "term" /\ j \in Kind
      BY DEF Member, Kind
  <2> QED BY <1>0, <1>1, <1>3, <1>4, <2>1, <2>2 DEF TunnelInv, OidsOfKind
<1> DEFINE new == NewTunnelObj(made)
<1>6. /\ new \in TunnelObj /\ new # None
      /\ \A j \in Basic : new.oid[j] = made[j]
      /\ \A m \in Member, b \in Bridge : new.at[m][b] = None
    BY <1>5 DEF NewTunnelObj, TunnelObj
<1> HIDE DEF new
<1>7. /\ objs'[ep] = new
      /\ \A e \in Endpoint : e # ep => objs'[e] = objs[e]
      /\ objs' \in [Endpoint -> {None} \cup TunnelObj]
    BY <1>2, <1>4, <1>6 DEF TunnelInv, TunnelTypeOK, new
<1>8. /\ call'.pc = "decap_entry" /\ call'.made = made
      /\ call'.ep = ep /\ call'.bridge = call.bridge /\ call'.vni = call.vni
      /\ call' = [call EXCEPT !.pc = "decap_entry", !.made = made]
    BY <1>0, <1>2 DEF GoOn, After, TunnelInv, TunnelTypeOK
<1>9. /\ \A x \in Oid : sai[x] # None => x # o /\ sai'[x] = sai[x]
      /\ \A x \in Oid : OnRecord(x) => x # o /\ sai'[x] = sai[x]
      /\ sai'[o] = Wanted("term")
      /\ \A x \in Oid : \A u, b, v : Holds(x, u, b, v) => Holds(x, u, b, v)'
      /\ sai' \in [Oid -> SaiObject \cup {None}]
    BY <1>2, <1>3, Grown
<1>10. TunnelTypeOK'
  <2>1. "decap_entry" \in Kind
      BY DEF Kind, Member
  <2>2. call' \in [pc : Kind \cup {"idle", "rollback", "remove", "remove_basic"},
                  ep : Endpoint \cup {None}, bridge : Bridge \cup {None},
                  vni : Vni \cup {None}, made : [Kind -> Oid \cup {None}], todo : Seq(Kind)]
      BY <1>5, <1>8, <2>1 DEF TunnelInv, TunnelTypeOK
  <2>3. left' \subseteq Oid /\ broken' \subseteq Endpoint
      BY <1>2 DEF TunnelInv, TunnelTypeOK
  <2> QED BY <1>7, <1>9, <2>2, <2>3 DEF TunnelTypeOK
<1>11. /\ \A m \in Member, b \in Bridge : At(ep, m, b)' = None
       /\ \A e \in Endpoint : e # ep => objs'[e] = objs[e] /\ \A m, b : At(e, m, b)' = At(e, m, b)
    BY <1>6, <1>7 DEF At
<1>12. \A x : OnRecord(x)' <=> OnRecord(x) \/ \E j \in Basic : x = made[j]
  <2> SUFFICES ASSUME NEW x
               PROVE  OnRecord(x)' <=> OnRecord(x) \/ \E j \in Basic : x = made[j]
      OBVIOUS
  <2>1. OnRecord(x)' => OnRecord(x) \/ \E j \in Basic : x = made[j]
    <3> SUFFICES ASSUME NEW e \in Endpoint, objs'[e] # None,
                        \/ \E j \in Basic : objs'[e].oid[j] = x
                        \/ \E m \in Member, b \in Bridge : At(e, m, b)' # None /\ (At(e, m, b).oid)' = x
                 PROVE  OnRecord(x) \/ \E j \in Basic : x = made[j]
        BY DEF OnRecord
    <3>1. CASE e = ep
        BY <1>6, <1>7, <1>11, <3>1
    <3>2. CASE e # ep
        BY <1>11, <3>2 DEF OnRecord
    <3> QED BY <3>1, <3>2
  <2>2. OnRecord(x) => OnRecord(x)'
    <3> SUFFICES ASSUME NEW e \in Endpoint, objs[e] # None,
                        \/ \E j \in Basic : objs[e].oid[j] = x
                        \/ \E m \in Member, b \in Bridge : At(e, m, b) # None /\ At(e, m, b).oid = x
                 PROVE  OnRecord(x)'
        BY DEF OnRecord
    <3>1. e # ep
        BY <1>4
    <3> QED BY <1>11, <3>1 DEF OnRecord
  <2>3. ASSUME NEW j \in Basic, x = made[j]
        PROVE  OnRecord(x)'
      BY <1>4, <1>6, <1>7, <2>3 DEF OnRecord
  <2> QED BY <2>1, <2>2, <2>3
<1>13. OidsOfKind'
  <2>1. \A j \in Kind : made[j] # None => made[j][1] = j
      BY <1>1, <1>5 DEF Kind
  <2> QED BY <1>5, <1>6, <1>7, <1>8, <1>11, <2>1 DEF OidsOfKind, TunnelInv
<1>14. RecordedOnce'
  <2> SUFFICES ASSUME NEW e \in Endpoint, NEW f \in Endpoint, objs'[e] # None, objs'[f] # None
               PROVE  /\ \A k \in Basic : objs'[e].oid[k] = objs'[f].oid[k] => e = f
                      /\ \A m \in Member, b, c \in Bridge :
                            (At(e, m, b) # None /\ At(f, m, c) # None /\ At(e, m, b).oid = At(f, m, c).oid)'
                            => e = f /\ b = c
      BY DEF RecordedOnce
  <2>1. \A g \in Endpoint, k \in Basic : g # ep /\ objs[g] # None => objs[g].oid[k] # made[k]
      BY <1>5 DEF OnRecord
  <2> QED BY <1>6, <1>7, <1>11, <2>1 DEF TunnelInv, RecordedOnce
<1>15. UsesLive'
  <2> SUFFICES ASSUME NEW x \in Oid, sai'[x] # None, NEW u \in sai'[x].uses
               PROVE  /\ sai'[u] # None
                      /\ u[1] \in Maps \cup {"tunnel"}
                      /\ u[1] = "tunnel" => OnRecord(u)'
      BY DEF UsesLive
  <2>1. CASE x = o
    <3>1. u = call.made["tunnel"] /\ u = made["tunnel"] /\ u \in Oid /\ u[1] = "tunnel"
        BY <1>1, <1>3, <1>5, <1>9, <2>1
    <3> QED BY <1>1, <1>4, <1>9, <1>12, <3>1
  <2>2. CASE x # o
    <3>1. sai[x] = sai'[x]
        BY <2>2, <1>2, <1>3 DEF TunnelInv, TunnelTypeOK
    <3>2. u \in Oid /\ sai[u] # None /\ u[1] \in Maps \cup {"tunnel"} /\ (u[1] = "tunnel" => OnRecord(u))
        BY <3>1, TunnelTypes DEF TunnelInv, UsesLive, SaiObject
    <3> QED BY <1>9, <1>12, <3>2
  <2> QED BY <2>1, <2>2
<1>16. RecordsHold'
  <2> SUFFICES ASSUME NEW e \in Endpoint, objs'[e] # None
               PROVE  /\ (sai[objs[e].oid["tunnel"]] # None =>
                            Holds(objs[e].oid["tunnel"],
                                  {objs[e].oid["encap_map"], objs[e].oid["decap_map"]}, None, None))'
                      /\ (e \notin broken /\ ~(call.pc = "remove_basic" /\ call.ep = e) =>
                            Holds(objs[e].oid["term"], {objs[e].oid["tunnel"]}, None, None))'
                      /\ (\A m \in Entries, b \in Bridge :
                            At(e, m, b) # None /\ sai[At(e, m, b).oid] # None =>
                                sai[At(e, m, b).oid].uses = {objs[e].oid[MapOf(m)]})'
      BY DEF RecordsHold
  <2>1. CASE e = ep
    <3>1. \A j \in Basic : objs'[e].oid[j] = made[j]
        BY <1>6, <1>7, <2>1
    <3>2. Holds(made["tunnel"], {made["encap_map"], made["decap_map"]}, None, None)'
        BY <1>1, <1>4, <1>5, <1>9 DEF Maps
    <3>3. Holds(made["term"], {made["tunnel"]}, None, None)'
        BY <1>1, <1>3, <1>5, <1>9 DEF Holds
    <3>4. Entries \subseteq Member
        BY DEF Entries, Member
    <3> QED BY <1>1, <1>11, <2>1, <3>1, <3>2, <3>3, <3>4 DEF Maps
  <2>2. CASE e # ep
    <3>1. objs[e] # None /\ objs'[e] = objs[e] /\ \A m, b : At(e, m, b)' = At(e, m, b)
        BY <1>11, <2>2
    <3>2. \A k \in Basic : objs[e].oid[k] \in Oid /\ OnRecord(objs[e].oid[k])
        BY <3>1, TunnelTypes DEF TunnelInv, OnRecord
    <3>3. (sai[objs[e].oid["tunnel"]] # None =>
              Holds(objs[e].oid["tunnel"],
                    {objs[e].oid["encap_map"], objs[e].oid["decap_map"]}, None, None))'
        BY <1>1, <1>9, <3>1, <3>2 DEF TunnelInv, RecordsHold
    <3>4. (e \notin broken /\ ~(call.pc = "remove_basic" /\ call.ep = e) =>
              Holds(objs[e].oid["term"], {objs[e].oid["tunnel"]}, None, None))'
        BY <1>1, <1>2, <1>9, <3>1, <3>2 DEF TunnelInv, RecordsHold
    <3>5. ASSUME NEW m \in Entries, NEW b \in Bridge, At(e, m, b) # None,
                 sai'[At(e, m, b).oid] # None
          PROVE  sai'[At(e, m, b).oid].uses = {objs[e].oid[MapOf(m)]}
      <4>1. m \in Member
          BY DEF Entries, Member
      <4>2. At(e, m, b).oid \in Oid /\ OnRecord(At(e, m, b).oid)
          BY <3>1, <3>5, <4>1, TunnelTypes DEF TunnelInv, OnRecord
      <4>3. sai'[At(e, m, b).oid] = sai[At(e, m, b).oid]
          BY <1>9, <4>2
      <4>4. sai[At(e, m, b).oid].uses = {objs[e].oid[MapOf(m)]}
          BY <3>1, <3>5, <4>3 DEF TunnelInv, RecordsHold
      <4> QED BY <4>3, <4>4
    <3> QED BY <3>1, <3>3, <3>4, <3>5
  <2> QED BY <2>1, <2>2
<1>17. PortsCarryTraffic'
  <2> SUFFICES ASSUME NEW e \in Endpoint, NEW b \in Bridge, objs'[e] # None, At(e, "port", b)' # None
               PROVE  /\ Holds(objs[e].oid["tunnel"],
                               {objs[e].oid["encap_map"], objs[e].oid["decap_map"]}, None, None)'
                      /\ \A m \in Entries : At(e, m, b)' # None
                      /\ Holds(At(e, "encap_entry", b).oid, {objs[e].oid["encap_map"]}, b, At(e, "port", b).vni)'
                      /\ Holds(At(e, "decap_entry", b).oid, {objs[e].oid["decap_map"]}, b, At(e, "port", b).vni)'
                      /\ (e \notin broken => Holds(objs[e].oid["term"], {objs[e].oid["tunnel"]}, None, None))'
      BY DEF PortsCarryTraffic, Entries
  <2>0. e # ep
      BY <1>11 DEF Member
  <2>1. objs[e] # None /\ objs'[e] = objs[e] /\ \A m, c : At(e, m, c)' = At(e, m, c)
      BY <1>11, <2>0
  <2>2. /\ Holds(objs[e].oid["tunnel"],
                 {objs[e].oid["encap_map"], objs[e].oid["decap_map"]}, None, None)
        /\ \A m \in Entries : At(e, m, b) # None
        /\ Holds(At(e, "encap_entry", b).oid, {objs[e].oid["encap_map"]}, b, At(e, "port", b).vni)
        /\ Holds(At(e, "decap_entry", b).oid, {objs[e].oid["decap_map"]}, b, At(e, "port", b).vni)
        /\ e \notin broken => Holds(objs[e].oid["term"], {objs[e].oid["tunnel"]}, None, None)
      BY <2>1 DEF TunnelInv, PortsCarryTraffic, Entries
  <2>3. /\ objs[e].oid["tunnel"] \in Oid /\ objs[e].oid["term"] \in Oid
        /\ At(e, "encap_entry", b).oid \in Oid /\ At(e, "decap_entry", b).oid \in Oid
      BY <2>1, <2>2, TunnelTypes DEF TunnelInv, Basic, Member, Entries
  <2>4. Holds(objs[e].oid["tunnel"],
              {objs[e].oid["encap_map"], objs[e].oid["decap_map"]}, None, None)'
      BY <1>9, <2>1, <2>2, <2>3
  <2>5. \A m \in Entries : At(e, m, b)' # None
      BY <2>1, <2>2
  <2>6. /\ Holds(At(e, "encap_entry", b).oid, {objs[e].oid["encap_map"]}, b, At(e, "port", b).vni)'
        /\ Holds(At(e, "decap_entry", b).oid, {objs[e].oid["decap_map"]}, b, At(e, "port", b).vni)'
    <3>1. /\ At(e, "encap_entry", b)' = At(e, "encap_entry", b)
          /\ At(e, "decap_entry", b)' = At(e, "decap_entry", b)
          /\ At(e, "port", b)' = At(e, "port", b)
        BY <2>1
    <3> QED BY <1>9, <2>1, <2>2, <2>3, <3>1
  <2>7. (e \notin broken => Holds(objs[e].oid["term"], {objs[e].oid["tunnel"]}, None, None))'
      BY <1>2, <1>9, <2>1, <2>2, <2>3
  <2> QED BY <2>4, <2>5, <2>6, <2>7
<1>18. (Making /\ Undoing /\ Removing /\ RemovingEntries /\ RemovingTunnel)'
    BY <1>8 DEF Making, Undoing, Removing, RemovingEntries, RemovingTunnel, Basic
<1>19. Joining'
    BY <1>4, <1>5, <1>6, <1>7, <1>8 DEF Joining, Member
<1>20. AllKnown'
  <2> SUFFICES ASSUME NEW x \in Oid \ left, sai'[x] # None, x[1] \notin Maps
               PROVE  OnRecord(x)'
      BY <1>2 DEF AllKnown
  <2>1. CASE x = o
      BY <1>1, <1>5, <1>12, <2>1
  <2>2. CASE x # o
    <3>1. sai[x] # None
        BY <1>2, <1>3, <2>2 DEF TunnelInv, TunnelTypeOK
    <3>2. OnRecord(x) \/ x = call.made["tunnel"]
        BY <1>2, <3>1 DEF TunnelInv, AllKnown
    <3> QED BY <1>1, <1>5, <1>12, <3>2
  <2> QED BY <2>1, <2>2
<1> QED BY <1>10, <1>13, <1>14, <1>15, <1>16, <1>17, <1>18, <1>19, <1>20 DEF TunnelInv

\* Between calls.
LEMMA IdleType ==
    Idle \in [pc : Kind \cup {"idle", "rollback", "remove", "remove_basic"},
             ep : Endpoint \cup {None}, bridge : Bridge \cup {None},
             vni : Vni \cup {None}, made : [Kind -> Oid \cup {None}], todo : Seq(Kind)]
<1>1. [k \in Kind |-> None] \in [Kind -> Oid \cup {None}] /\ <<>> \in Seq(Kind)
    OBVIOUS
<1> QED BY <1>1 DEF Idle

\* An entry or a port goes on record where there was none.
LEMMA Inserting ==
    ASSUME TunnelTypeOK, NEW ep \in Endpoint, objs[ep] # None, NEW k \in Member, NEW b \in Bridge,
           NEW v \in Vni, NEW o \in Oid, At(ep, k, b) = None, objs' = Inserted(ep, k, b, v, o)
    PROVE  /\ objs' \in [Endpoint -> {None} \cup TunnelObj]
           /\ \A e \in Endpoint : objs'[e] # None <=> objs[e] # None
           /\ \A e \in Endpoint : objs[e] # None => objs'[e].oid = objs[e].oid
           /\ At(ep, k, b)' = [vni |-> v, oid |-> o] /\ At(ep, k, b)' # None
           /\ At(ep, k, b)'.vni = v /\ At(ep, k, b)'.oid = o
           /\ \A e \in Endpoint, m \in Member, c \in Bridge :
                 objs[e] # None /\ ~(e = ep /\ m = k /\ c = b) => At(e, m, c)' = At(e, m, c)
           /\ \A x : OnRecord(x)' <=> OnRecord(x) \/ x = o
<1> USE TunnelAssumption
<1> DEFINE entry1 == [vni |-> v, oid |-> o]
           obj == [objs[ep] EXCEPT !.at[k][b] = entry1]
           row == [objs[ep].at[k] EXCEPT ![b] = entry1]
<1>1. entry1 \in TunnelEntry /\ entry1 # None /\ entry1.vni = v /\ entry1.oid = o
    BY DEF TunnelEntry
<1>2. objs' = [objs EXCEPT ![ep] = obj]
    BY DEF Inserted
<1> HIDE DEF entry1
<1>3. /\ objs[ep] \in TunnelObj
      /\ objs[ep].oid \in [Basic -> Oid]
      /\ objs[ep].at \in [Member -> [Bridge -> {None} \cup TunnelEntry]]
    BY TunnelTypes DEF TunnelObj
<1>4. /\ obj.oid = objs[ep].oid
      /\ obj.at \in [Member -> [Bridge -> {None} \cup TunnelEntry]]
      /\ obj.at[k][b] = entry1
      /\ \A m \in Member, c \in Bridge : ~(m = k /\ c = b) => obj.at[m][c] = objs[ep].at[m][c]
  <2>1. obj.oid = objs[ep].oid /\ obj.at = [objs[ep].at EXCEPT ![k] = row]
      BY <1>3 DEF TunnelObj
  <2>2. /\ row \in [Bridge -> {None} \cup TunnelEntry]
        /\ row[b] = entry1 /\ \A c \in Bridge : c # b => row[c] = objs[ep].at[k][c]
      BY <1>1, <1>3
  <2> HIDE DEF obj, row
  <2> QED BY <1>3, <2>1, <2>2
<1>5. obj \in TunnelObj /\ obj # None
  <2>1. \A at1 \in [Member -> [Bridge -> {None} \cup TunnelEntry]] : [objs[ep] EXCEPT !.at = at1] \in TunnelObj
      BY <1>3 DEF TunnelObj
  <2>2. [objs[ep].at EXCEPT ![k] = row] \in [Member -> [Bridge -> {None} \cup TunnelEntry]]
    <3>1. row \in [Bridge -> {None} \cup TunnelEntry]
        BY <1>1, <1>3
    <3> HIDE DEF row
    <3> QED BY <1>3, <3>1
  <2>3. obj = [objs[ep] EXCEPT !.at = [objs[ep].at EXCEPT ![k] = row]]
      OBVIOUS
  <2> HIDE DEF obj, row
  <2> QED BY <2>1, <2>2, <2>3
<1> HIDE DEF obj
<1>6. /\ objs' \in [Endpoint -> {None} \cup TunnelObj]
      /\ objs'[ep] = obj
      /\ \A e \in Endpoint : e # ep => objs'[e] = objs[e]
    BY <1>2, <1>5 DEF TunnelTypeOK
<1>7. /\ \A e \in Endpoint : objs'[e] # None <=> objs[e] # None
      /\ \A e \in Endpoint : objs[e] # None => objs'[e].oid = objs[e].oid
    BY <1>4, <1>5, <1>6
<1>8. At(ep, k, b)' = entry1
    BY <1>4, <1>6 DEF At
<1>9. \A e \in Endpoint, m \in Member, c \in Bridge :
          ~(e = ep /\ m = k /\ c = b) => At(e, m, c)' = At(e, m, c)
    BY <1>4, <1>6 DEF At
<1>10. ASSUME NEW x
       PROVE  OnRecord(x)' <=> OnRecord(x) \/ x = o
  <2>1. OnRecord(x)' => OnRecord(x) \/ x = o
    <3> SUFFICES ASSUME NEW e \in Endpoint, objs'[e] # None,
                        \/ \E j \in Basic : objs'[e].oid[j] = x
                        \/ \E m \in Member, c \in Bridge : At(e, m, c)' # None /\ (At(e, m, c).oid)' = x
                 PROVE  OnRecord(x) \/ x = o
        BY DEF OnRecord
    <3>1. CASE \E j \in Basic : objs'[e].oid[j] = x
        BY <1>7, <3>1 DEF OnRecord
    <3>2. ASSUME NEW m \in Member, NEW c \in Bridge, At(e, m, c)' # None, (At(e, m, c).oid)' = x
          PROVE  OnRecord(x) \/ x = o
      <4>1. CASE e = ep /\ m = k /\ c = b
          BY <1>1, <1>8, <3>2, <4>1
      <4>2. CASE ~(e = ep /\ m = k /\ c = b)
        <5>1. At(e, m, c)' = At(e, m, c)
            BY <1>9, <4>2
        <5> QED BY <1>7, <3>2, <5>1 DEF OnRecord
      <4> QED BY <4>1, <4>2
    <3> QED BY <3>1, <3>2
  <2>2. OnRecord(x) => OnRecord(x)'
    <3> SUFFICES ASSUME NEW e \in Endpoint, objs[e] # None,
                        \/ \E j \in Basic : objs[e].oid[j] = x
                        \/ \E m \in Member, c \in Bridge : At(e, m, c) # None /\ At(e, m, c).oid = x
                 PROVE  OnRecord(x)'
        BY DEF OnRecord
    <3>1. CASE \E j \in Basic : objs[e].oid[j] = x
        BY <1>7, <3>1 DEF OnRecord
    <3>2. ASSUME NEW m \in Member, NEW c \in Bridge, At(e, m, c) # None, At(e, m, c).oid = x
          PROVE  OnRecord(x)'
      <4>1. At(e, m, c)' = At(e, m, c)
          BY <1>9, <3>2
      <4>2. objs'[e] # None
          BY <1>7
      <4> QED BY <3>2, <4>1, <4>2 DEF OnRecord
    <3> QED BY <3>1, <3>2
  <2>3. x = o => OnRecord(x)'
      BY <1>1, <1>5, <1>6, <1>8 DEF OnRecord
  <2> QED BY <2>1, <2>2, <2>3
<1> QED BY <1>1, <1>6, <1>7, <1>8, <1>9, <1>10 DEF entry1

\* An entry or the port is made, and takes its place on record.
LEMMA CreateMemberStep ==
    ASSUME TunnelInv, NEW k \in Member, Create(k), At(call.ep, k, call.bridge) = None
    PROVE  TunnelInv'
<1> USE TunnelAssumption
<1>0. PICK o, made, ep, b, v : /\ o = NewOid(k) /\ made = [call.made EXCEPT ![k] = o]
                               /\ ep = call.ep /\ b = call.bridge /\ v = call.vni
    OBVIOUS
<1>1. k \in Kind /\ k \notin Basic /\ (k \in Entries \/ k = "port") /\ Entries \subseteq Member
      /\ "port" \in Member /\ "port" \notin Entries
    BY DEF Kind, Basic, Member, Entries
<1>2. /\ call.pc = k /\ SaiMakes(k)
      /\ sai' = [sai EXCEPT ![o] = Wanted(k)]
      /\ UNCHANGED <<left, broken>>
      /\ GoOn(k, made)
      /\ objs' = Inserted(ep, k, b, v, o)
      /\ At(ep, k, b) = None
  <2>1. /\ call.pc = k /\ SaiMakes(k)
        /\ sai' = [sai EXCEPT ![o] = Wanted(k)]
        /\ UNCHANGED <<left, broken>>
        /\ PutOnRecord(k, o)
      BY <1>0, <1>1 DEF Create
  <2>2. k # "term"
      BY <1>1 DEF Basic
  <2>3. GoOn(k, made) /\ objs' = Inserted(call.ep, k, call.bridge, call.vni, o)
      BY <1>0, <1>1, <2>1, <2>2 DEF PutOnRecord
  <2> QED BY <1>0, <2>1, <2>3
<1>3. /\ o \in Oid /\ o[1] = k /\ sai[o] = None /\ ~OnRecord(o)
      /\ Wanted(k) \in SaiObject /\ Wanted(k).uses = Uses(k)
      /\ Wanted(k).bridge = b /\ Wanted(k).vni = IF k \in Entries THEN v ELSE None
      /\ k = "port" => Uses(k) = {objs[ep].oid["tunnel"]}
      /\ k \in Entries => Uses(k) = {objs[ep].oid[MapOf(k)]}
      /\ \A u \in Uses(k) : /\ sai[u] # None
                            /\ u[1] \in Maps \cup {"tunnel"}
                            /\ u[1] = "tunnel" => OnRecord(u)
  <2>1. k # "term"
      BY <1>1 DEF Basic
  <2> QED BY <1>0, <1>1, <1>2, <2>1, NewObject
<1>4. /\ call.made \in [Kind -> Oid \cup {None}] /\ call.made["decap_entry"] \in Oid \cup {None}
      /\ ep \in Endpoint /\ b \in Bridge /\ v \in Vni /\ objs[ep] # None
    BY <1>0, <1>2, TunnelTypes DEF TunnelInv, Joining, Kind, Member
<1>5. /\ objs' \in [Endpoint -> {None} \cup TunnelObj]
      /\ \A e \in Endpoint : objs'[e] # None <=> objs[e] # None
      /\ \A e \in Endpoint : objs[e] # None => objs'[e].oid = objs[e].oid
      /\ At(ep, k, b)' = [vni |-> v, oid |-> o] /\ At(ep, k, b)' # None
      /\ At(ep, k, b)'.vni = v /\ At(ep, k, b)'.oid = o
      /\ \A e \in Endpoint, m \in Member, c \in Bridge :
            objs[e] # None /\ ~(e = ep /\ m = k /\ c = b) => At(e, m, c)' = At(e, m, c)
      /\ \A x : OnRecord(x)' <=> OnRecord(x) \/ x = o
    BY <1>2, <1>3, <1>4, Inserting DEF TunnelInv
<1>6. /\ \A x \in Oid : sai[x] # None => x # o /\ sai'[x] = sai[x]
      /\ \A x \in Oid : OnRecord(x) => x # o /\ sai'[x] = sai[x]
      /\ sai'[o] = Wanted(k) /\ Wanted(k) # None
      /\ \A x \in Oid : \A u, c, w : Holds(x, u, c, w) => Holds(x, u, c, w)'
      /\ sai' \in [Oid -> SaiObject \cup {None}]
    BY <1>2, <1>3, Grown
<1>7. /\ k = "port" => call' = Idle
      /\ k # "port" =>
            /\ call' = [call EXCEPT !.pc = After(k), !.made = made]
            /\ call'.pc = After(k) /\ call'.made = made
            /\ call'.ep = ep /\ call'.bridge = b /\ call'.vni = v
  <2>1. k = "port" => call' = Idle
      BY <1>2 DEF GoOn, After
  <2>2. ASSUME k # "port"
        PROVE  call' = [call EXCEPT !.pc = After(k), !.made = made]
      BY <1>2, <2>2 DEF GoOn, After, Member
  <2> QED BY <1>0, <2>1, <2>2 DEF TunnelInv, TunnelTypeOK
<1>8. /\ After("decap_entry") = "encap_entry" /\ After("encap_entry") = "port"
      /\ k # "port" => k = "decap_entry" \/ k = "encap_entry"
    BY DEF After, Member
<1>9. made \in [Kind -> Oid \cup {None}] /\ made[k] = o /\ (\A j \in Kind : j # k => made[j] = call.made[j])
    BY <1>0, <1>1, <1>3, <1>4
<1>10. TunnelTypeOK'
  <2>1. call' \in [pc : Kind \cup {"idle", "rollback", "remove", "remove_basic"},
                   ep : Endpoint \cup {None}, bridge : Bridge \cup {None},
                   vni : Vni \cup {None}, made : [Kind -> Oid \cup {None}], todo : Seq(Kind)]
    <3>1. CASE k = "port"
        BY <1>7, <3>1, IdleType
    <3>2. CASE k # "port"
      <4>1. After(k) \in Kind
          BY <1>8, <3>2 DEF Kind, Member
      <4>2. call' = [call EXCEPT !.pc = After(k), !.made = made]
          BY <1>7, <3>2
      <4> QED BY <1>9, <4>1, <4>2 DEF TunnelInv, TunnelTypeOK
    <3> QED BY <3>1, <3>2
  <2>2. left' \subseteq Oid /\ broken' \subseteq Endpoint
      BY <1>2 DEF TunnelInv, TunnelTypeOK
  <2> QED BY <1>5, <1>6, <2>1, <2>2 DEF TunnelTypeOK
<1>11. OidsOfKind'
  <2>1. \A j \in Kind : call'.made[j] # None => call'.made[j][1] = j
    <3>1. CASE k = "port"
        BY <1>7, <3>1 DEF Idle
    <3>2. CASE k # "port"
        BY <1>3, <1>7, <1>9, <3>2 DEF TunnelInv, OidsOfKind
    <3> QED BY <3>1, <3>2
  <2>2. ASSUME NEW e \in Endpoint, objs'[e] # None, NEW m \in Member, NEW c \in Bridge, At(e, m, c)' # None
        PROVE  (At(e, m, c).oid)'[1] = m
    <3>1. CASE e = ep /\ m = k /\ c = b
        BY <1>3, <1>5, <3>1
    <3>2. CASE ~(e = ep /\ m = k /\ c = b)
      <4>1. objs[e] # None /\ At(e, m, c)' = At(e, m, c)
          BY <1>5, <2>2, <3>2
      <4> QED BY <2>2, <4>1 DEF TunnelInv, OidsOfKind
    <3> QED BY <3>1, <3>2
  <2>3. \A e \in Endpoint : objs'[e] # None => \A j \in Basic : objs'[e].oid[j][1] = j
      BY <1>5 DEF TunnelInv, OidsOfKind
  <2> QED BY <2>1, <2>2, <2>3 DEF OidsOfKind
<1>12. RecordedOnce'
  <2> SUFFICES ASSUME NEW e \in Endpoint, NEW f \in Endpoint, objs'[e] # None, objs'[f] # None
               PROVE  /\ \A j \in Basic : objs'[e].oid[j] = objs'[f].oid[j] => e = f
                      /\ \A m \in Member, c, d \in Bridge :
                            (At(e, m, c) # None /\ At(f, m, d) # None /\ At(e, m, c).oid = At(f, m, d).oid)'
                            => e = f /\ c = d
      BY DEF RecordedOnce
  <2>1. objs[e] # None /\ objs[f] # None
      BY <1>5
  <2>2. \A j \in Basic : objs'[e].oid[j] = objs'[f].oid[j] => e = f
      BY <1>5, <2>1 DEF TunnelInv, RecordedOnce
  <2>3. ASSUME NEW m \in Member, NEW c \in Bridge, NEW d \in Bridge,
               At(e, m, c)' # None, At(f, m, d)' # None, (At(e, m, c).oid)' = (At(f, m, d).oid)'
        PROVE  e = f /\ c = d
    <3>1. \A g \in Endpoint, a \in Bridge : objs[g] # None /\ At(g, m, a) # None => At(g, m, a).oid # o
        BY <1>3 DEF OnRecord
    <3>2. CASE e = ep /\ m = k /\ c = b
      <4>1. CASE f = ep /\ d = b
          BY <3>2, <4>1
      <4>2. CASE ~(f = ep /\ d = b)
        <5>1. At(f, m, d)' = At(f, m, d)
            BY <1>5, <2>1, <4>2
        <5> QED BY <1>5, <2>1, <2>3, <3>1, <3>2, <5>1
      <4> QED BY <4>1, <4>2
    <3>3. CASE ~(e = ep /\ m = k /\ c = b) /\ f = ep /\ m = k /\ d = b
      <4>1. At(e, m, c)' = At(e, m, c)
          BY <1>5, <2>1, <3>3
      <4> QED BY <1>5, <2>1, <2>3, <3>1, <3>3, <4>1
    <3>4. CASE ~(e = ep /\ m = k /\ c = b) /\ ~(f = ep /\ m = k /\ d = b)
      <4>1. At(e, m, c)' = At(e, m, c) /\ At(f, m, d)' = At(f, m, d)
          BY <1>5, <2>1, <3>4
      <4> QED BY <2>1, <2>3, <4>1 DEF TunnelInv, RecordedOnce
    <3> QED BY <3>2, <3>3, <3>4
  <2> QED BY <2>2, <2>3
<1>13. UsesLive'
  <2> SUFFICES ASSUME NEW x \in Oid, sai'[x] # None, NEW u \in sai'[x].uses
               PROVE  /\ sai'[u] # None
                      /\ u[1] \in Maps \cup {"tunnel"}
                      /\ u[1] = "tunnel" => OnRecord(u)'
      BY DEF UsesLive
  <2>1. u \in Oid /\ sai[u] # None /\ u[1] \in Maps \cup {"tunnel"} /\ (u[1] = "tunnel" => OnRecord(u))
    <3>1. CASE x = o
        BY <1>3, <1>6, <3>1 DEF SaiObject
    <3>2. CASE x # o
      <4>1. sai[x] = sai'[x]
          BY <3>2, <1>2, <1>3 DEF TunnelInv, TunnelTypeOK
      <4> QED BY <4>1, TunnelTypes DEF TunnelInv, UsesLive, SaiObject
    <3> QED BY <3>1, <3>2
  <2> QED BY <1>5, <1>6, <2>1
<1>14. RecordsHold'
  <2> SUFFICES ASSUME NEW e \in Endpoint, objs'[e] # None
               PROVE  /\ (sai[objs[e].oid["tunnel"]] # None =>
                            Holds(objs[e].oid["tunnel"],
                                  {objs[e].oid["encap_map"], objs[e].oid["decap_map"]}, None, None))'
                      /\ (e \notin broken /\ ~(call.pc = "remove_basic" /\ call.ep = e) =>
                            Holds(objs[e].oid["term"], {objs[e].oid["tunnel"]}, None, None))'
                      /\ (\A m \in Entries, c \in Bridge :
                            At(e, m, c) # None /\ sai[At(e, m, c).oid] # None =>
                                sai[At(e, m, c).oid].uses = {objs[e].oid[MapOf(m)]})'
      BY DEF RecordsHold
  <2>0. objs[e] # None /\ objs'[e].oid = objs[e].oid
      BY <1>5
  <2>1. \A j \in Basic : objs[e].oid[j] \in Oid /\ OnRecord(objs[e].oid[j])
      BY <2>0, TunnelTypes DEF TunnelInv, OnRecord
  <2>2. "tunnel" \in Basic /\ "term" \in Basic /\ call.pc # "remove_basic"
      BY <1>2 DEF Basic, Member
  <2>3. (sai[objs[e].oid["tunnel"]] # None =>
            Holds(objs[e].oid["tunnel"],
                  {objs[e].oid["encap_map"], objs[e].oid["decap_map"]}, None, None))'
      BY <1>6, <2>0, <2>1, <2>2 DEF TunnelInv, RecordsHold
  <2>4. (e \notin broken /\ ~(call.pc = "remove_basic" /\ call.ep = e) =>
            Holds(objs[e].oid["term"], {objs[e].oid["tunnel"]}, None, None))'
      BY <1>2, <1>6, <2>0, <2>1, <2>2 DEF TunnelInv, RecordsHold
  <2>5. ASSUME NEW m \in Entries, NEW c \in Bridge, At(e, m, c)' # None, sai'[(At(e, m, c).oid)'] # None
        PROVE  sai'[(At(e, m, c).oid)'].uses = {objs[e].oid[MapOf(m)]}
    <3>1. CASE e = ep /\ m = k /\ c = b
        BY <1>3, <1>5, <1>6, <3>1
    <3>2. CASE ~(e = ep /\ m = k /\ c = b)
      <4>1. m \in Member /\ At(e, m, c)' = At(e, m, c)
          BY <1>1, <1>5, <2>0, <3>2
      <4>2. At(e, m, c) # None /\ At(e, m, c).oid \in Oid /\ OnRecord(At(e, m, c).oid)
          BY <2>0, <2>5, <4>1, TunnelTypes DEF TunnelInv, OnRecord
      <4>3. sai'[At(e, m, c).oid] = sai[At(e, m, c).oid]
          BY <1>6, <4>2
      <4>4. sai[At(e, m, c).oid].uses = {objs[e].oid[MapOf(m)]}
          BY <2>0, <2>5, <4>1, <4>2, <4>3 DEF TunnelInv, RecordsHold
      <4> QED BY <4>1, <4>3, <4>4
    <3> QED BY <3>1, <3>2
  <2> QED BY <2>0, <2>3, <2>4, <2>5
<1>15. PortsCarryTraffic'
  <2> SUFFICES ASSUME NEW e \in Endpoint, NEW c \in Bridge, objs'[e] # None, At(e, "port", c)' # None
               PROVE  /\ Holds(objs[e].oid["tunnel"],
                               {objs[e].oid["encap_map"], objs[e].oid["decap_map"]}, None, None)'
                      /\ \A m \in Entries : At(e, m, c)' # None
                      /\ Holds(At(e, "encap_entry", c).oid, {objs[e].oid["encap_map"]}, c, At(e, "port", c).vni)'
                      /\ Holds(At(e, "decap_entry", c).oid, {objs[e].oid["decap_map"]}, c, At(e, "port", c).vni)'
                      /\ (e \notin broken => Holds(objs[e].oid["term"], {objs[e].oid["tunnel"]}, None, None))'
      BY DEF PortsCarryTraffic, Entries
  <2>0. objs[e] # None /\ objs'[e].oid = objs[e].oid
      BY <1>5
  <2>1. /\ objs[e].oid["tunnel"] \in Oid /\ objs[e].oid["term"] \in Oid
        /\ \A m \in Entries : At(e, m, c) # None => At(e, m, c).oid \in Oid
      BY <1>1, <2>0, TunnelTypes DEF TunnelInv, Basic
  <2>2. CASE e = ep /\ c = b /\ k = "port"
    <3>1. /\ sai[objs[e].oid["tunnel"]] # None
          /\ Holds(objs[e].oid["tunnel"],
                   {objs[e].oid["encap_map"], objs[e].oid["decap_map"]}, None, None)
          /\ e \notin broken => Holds(objs[e].oid["term"], {objs[e].oid["tunnel"]}, None, None)
        BY <1>2, <1>3, <2>0, <2>2 DEF TunnelInv, RecordsHold
    <3>2. Entered("encap_entry") /\ Entered("decap_entry")
        BY <1>2, <2>2 DEF TunnelInv, Joining
    <3>3. \A m \in Entries : At(e, m, c)' = At(e, m, c)
        BY <1>1, <1>5, <2>0, <2>2
    <3>4. ASSUME NEW m \in Entries
          PROVE  /\ At(e, m, c) # None
                 /\ Holds(At(e, m, c).oid, {objs[e].oid[MapOf(m)]}, c, v)
      <4>1. call.made[m] \in Oid
          BY <1>1, <1>4, <3>2 DEF Entered, Entries, Kind
      <4>2. At(e, m, c) = [vni |-> v, oid |-> call.made[m]] /\ [vni |-> v, oid |-> call.made[m]] \in TunnelEntry
          BY <1>0, <1>4, <2>2, <3>2, <4>1 DEF Entered, Entries, TunnelEntry
      <4>3. At(e, m, c) # None /\ At(e, m, c).oid = call.made[m]
          BY <4>2
      <4>4. Holds(call.made[m], {objs[e].oid[MapOf(m)]}, c, v)
          BY <1>0, <2>2, <3>2 DEF Entered, Entries
      <4> QED BY <4>3, <4>4
    <3>5. MapOf("encap_entry") = "encap_map" /\ MapOf("decap_entry") = "decap_map"
        BY DEF MapOf
    <3>6. At(e, "port", c)'.vni = v
        BY <1>5, <2>2
    <3>7. Holds(objs[e].oid["tunnel"],
                {objs[e].oid["encap_map"], objs[e].oid["decap_map"]}, None, None)'
        BY <1>6, <2>0, <2>1, <3>1
    <3>8. (e \notin broken => Holds(objs[e].oid["term"], {objs[e].oid["tunnel"]}, None, None))'
        BY <1>2, <1>6, <2>0, <2>1, <3>1
    <3>9. ASSUME NEW m \in Entries
          PROVE  Holds(At(e, m, c).oid, {objs[e].oid[MapOf(m)]}, c, At(e, "port", c).vni)'
        BY <1>6, <2>0, <2>1, <3>3, <3>4, <3>6
    <3> QED BY <3>3, <3>4, <3>5, <3>7, <3>8, <3>9 DEF Entries
  <2>3. CASE ~(e = ep /\ c = b /\ k = "port")
    <3>1. At(e, "port", c)' = At(e, "port", c)
        BY <1>1, <1>5, <2>0, <2>3
    <3>2. /\ Holds(objs[e].oid["tunnel"],
                   {objs[e].oid["encap_map"], objs[e].oid["decap_map"]}, None, None)
          /\ \A m \in Entries : At(e, m, c) # None
          /\ Holds(At(e, "encap_entry", c).oid, {objs[e].oid["encap_map"]}, c, At(e, "port", c).vni)
          /\ Holds(At(e, "decap_entry", c).oid, {objs[e].oid["decap_map"]}, c, At(e, "port", c).vni)
          /\ e \notin broken => Holds(objs[e].oid["term"], {objs[e].oid["tunnel"]}, None, None)
        BY <2>0, <3>1 DEF TunnelInv, PortsCarryTraffic, Entries
    <3>3. \A m \in Entries : At(e, m, c)' = At(e, m, c)
        BY <1>1, <1>2, <1>5, <2>0, <3>2
    <3>4. Holds(objs[e].oid["tunnel"],
                {objs[e].oid["encap_map"], objs[e].oid["decap_map"]}, None, None)'
        BY <1>6, <2>0, <2>1, <3>2
    <3>5. (e \notin broken => Holds(objs[e].oid["term"], {objs[e].oid["tunnel"]}, None, None))'
        BY <1>2, <1>6, <2>0, <2>1, <3>2
    <3>6. At(e, "encap_entry", c)' = At(e, "encap_entry", c) /\ At(e, "decap_entry", c)' = At(e, "decap_entry", c)
        BY <3>3 DEF Entries
    <3>7. At(e, "encap_entry", c).oid \in Oid /\ At(e, "decap_entry", c).oid \in Oid
        BY <2>1, <3>2 DEF Entries
    <3>8. /\ Holds(At(e, "encap_entry", c).oid, {objs[e].oid["encap_map"]}, c, At(e, "port", c).vni)'
          /\ Holds(At(e, "decap_entry", c).oid, {objs[e].oid["decap_map"]}, c, At(e, "port", c).vni)'
        BY <1>6, <2>0, <3>1, <3>2, <3>6, <3>7
    <3> QED BY <3>2, <3>3, <3>4, <3>5, <3>8
  <2> QED BY <2>2, <2>3
<1>16. call'.pc \in {"idle", "encap_entry", "port"}
    BY <1>7, <1>8 DEF Idle
<1>17. (Making /\ Undoing /\ Removing /\ RemovingEntries /\ RemovingTunnel)'
    BY <1>16 DEF Making, Undoing, Removing, RemovingEntries, RemovingTunnel, Basic
<1>18. Joining'
  <2>1. CASE k = "port"
      BY <1>7, <2>1 DEF Joining, Idle, Member
  <2>2. CASE k # "port"
    <3>1. /\ call'.pc = After(k) /\ call'.made = made
          /\ call'.ep = ep /\ call'.bridge = b /\ call'.vni = v /\ objs'[ep] # None
        BY <1>4, <1>5, <1>7, <2>2
    <3>2. At(ep, "port", b) = None
        BY <1>0, <1>1, <1>2, <1>4, <2>2 DEF TunnelInv, PortsCarryTraffic, Entries
    <3>3. At(ep, "port", b)' = None
        BY <1>1, <1>4, <1>5, <2>2, <3>2
    <3>4. Entered(k)'
      <4>1. call'.made[k] = o /\ o # None
          BY <1>3, <1>9, <3>1 DEF Oid
      <4>2. (Holds(call.made[k], {objs[call.ep].oid[MapOf(k)]}, call.bridge, call.vni))'
          BY <1>1, <1>3, <1>4, <1>5, <1>6, <2>2, <3>1, <4>1 DEF Holds
      <4>3. (At(call.ep, k, call.bridge))' = [vni |-> v, oid |-> o]
          BY <1>5, <3>1
      <4> QED BY <3>1, <4>1, <4>2, <4>3 DEF Entered
    <3>5. CASE k = "decap_entry"
      <4>1. call'.pc = "encap_entry" /\ call'.made["encap_entry"] = None
          BY <1>2, <1>8, <1>9, <3>1, <3>5 DEF TunnelInv, Joining, Kind, Member
      <4> QED BY <1>4, <3>1, <3>3, <3>4, <3>5, <4>1 DEF Joining
    <3>6. CASE k = "encap_entry"
      <4>1. call'.pc = "port" /\ Entered("decap_entry")
          BY <1>2, <1>8, <3>1, <3>6 DEF TunnelInv, Joining
      <4>2. /\ "decap_entry" \in Kind /\ "decap_entry" \in Member
            /\ call'.made["decap_entry"] = call.made["decap_entry"]
            /\ call.made["decap_entry"] # None
            /\ call.made["decap_entry"] \in Oid
          BY <1>4, <1>9, <3>1, <3>6, <4>1 DEF Kind, Member, Entered
      <4>3. At(ep, "decap_entry", b)' = At(ep, "decap_entry", b)
          BY <1>4, <1>5, <3>6, <4>2
      <4>4. (Holds(call.made["decap_entry"], {objs[call.ep].oid[MapOf("decap_entry")]}, call.bridge, call.vni))'
          BY <1>0, <1>4, <1>5, <1>6, <3>1, <4>1, <4>2 DEF Entered
      <4>5. Entered("decap_entry")'
          BY <1>0, <3>1, <4>1, <4>2, <4>3, <4>4 DEF Entered
      <4> QED BY <1>4, <3>1, <3>3, <3>4, <3>6, <4>1, <4>5 DEF Joining
    <3> QED BY <1>8, <2>2, <3>5, <3>6
  <2> QED BY <2>1, <2>2
<1>19. AllKnown'
  <2> SUFFICES ASSUME NEW x \in Oid \ left, sai'[x] # None, x[1] \notin Maps
               PROVE  OnRecord(x)'
      BY <1>2 DEF AllKnown
  <2>1. CASE x = o
      BY <1>5, <2>1
  <2>2. CASE x # o
    <3>1. sai[x] # None
        BY <1>2, <1>3, <2>2 DEF TunnelInv, TunnelTypeOK
    <3>2. OnRecord(x)
        BY <1>2, <3>1 DEF TunnelInv, AllKnown, Member
    <3> QED BY <1>5, <3>2
  <2> QED BY <2>1, <2>2
<1> QED BY <1>10, <1>11, <1>12, <1>13, <1>14, <1>15, <1>17, <1>18, <1>19 DEF TunnelInv

\* A call that joins a bridge gives up after SAI made one more object: the
\* entries it made are to be removed, and the new object is one of them or is
\* left behind.
GivesUp(k, made) ==
    /\ call.pc = k /\ SaiMakes(k) /\ RollBack(k, made)
    /\ sai' = [sai EXCEPT ![NewOid(k)] = Wanted(k)]
    /\ UNCHANGED <<objs, broken>>
    /\ left \subseteq left' /\ left' \subseteq Oid
    /\ made \in [Kind -> Oid \cup {None}]
    /\ \A j \in Kind : made[j] # None => made[j][1] = j
    /\ \A u \in Entries : made[u] = call.made[u] \/ made[u] = NewOid(k)
    /\ \E u \in Entries : made[u] # None
    /\ NewOid(k) \in left' \/ (k \in Entries /\ made[k] = NewOid(k))

LEMMA JoinGivesUp ==
    ASSUME TunnelInv, NEW k \in Member, NEW made, GivesUp(k, made)
    PROVE  TunnelInv'
<1> USE TunnelAssumption DEF GivesUp
<1>0. PICK o : o = NewOid(k)
    OBVIOUS
<1>1. k \in Kind /\ k \notin Basic /\ k # "term" /\ Rollable(k) = Entries
    BY DEF Kind, Basic, Member, Rollable
<1>2. /\ o \in Oid /\ o # None /\ sai[o] = None /\ ~OnRecord(o)
      /\ Wanted(k) \in SaiObject /\ Wanted(k).uses = Uses(k)
      /\ \A u \in Uses(k) : /\ sai[u] # None
                            /\ u[1] \in Maps \cup {"tunnel"}
                            /\ u[1] = "tunnel" => OnRecord(u)
    BY <1>0, <1>1, NewObject DEF Oid
<1>3. /\ call' = [call EXCEPT !.pc = "rollback", !.made = made, !.todo = call'.todo]
      /\ call'.todo \in Seq(Kind) /\ call'.todo # <<>>
      /\ ToSet(call'.todo) = {u \in Entries : made[u] # None}
  <2>1. \/ /\ call' = Idle
           /\ \A u \in Rollable(k) : made[u] = None
        \/ /\ call' = [call EXCEPT !.pc = "rollback", !.made = made, !.todo = call'.todo]
           /\ call'.todo \in Seq(Kind) /\ call'.todo # <<>>
           /\ ToSet(call'.todo) = {u \in Rollable(k) : made[u] # None}
    <3>1. TunnelTypeOK
        BY DEF TunnelInv
    <3>2. k \in Kind /\ made \in [Kind -> Oid \cup {None}] /\ RollBack(k, made)
        BY <1>1
    <3> QED BY <3>1, <3>2, RollBackFacts
  <2> QED BY <1>1, <2>1
<1>4. /\ call'.pc = "rollback" /\ call'.ep = call.ep /\ call'.bridge = call.bridge
      /\ call'.made = made
    BY <1>3 DEF TunnelInv, TunnelTypeOK
<1>5. /\ \A x \in Oid : sai[x] # None => x # o /\ sai'[x] = sai[x]
      /\ sai' \in [Oid -> SaiObject \cup {None}]
    BY <1>0, <1>2, Grown
<1>6. TunnelTypeOK'
  <2>1. call' \in [pc : Kind \cup {"idle", "rollback", "remove", "remove_basic"},
                   ep : Endpoint \cup {None}, bridge : Bridge \cup {None},
                   vni : Vni \cup {None}, made : [Kind -> Oid \cup {None}], todo : Seq(Kind)]
      BY <1>3 DEF TunnelInv, TunnelTypeOK
  <2> QED BY <1>5, <2>1 DEF TunnelInv, TunnelTypeOK
<1>7. /\ OidsOfKind' /\ RecordedOnce' /\ UsesLive' /\ RecordsHold' /\ PortsCarryTraffic'
      /\ \A x : OnRecord(x)' <=> OnRecord(x)
      /\ \A e, m, b : At(e, m, b)' = At(e, m, b)
  <2>1. \A j \in Kind : call'.made[j] # None => call'.made[j][1] = j
      BY <1>4
  <2>2. \A u \in Wanted(k).uses : /\ sai[u] # None
                                  /\ u[1] \in Maps \cup {"tunnel"}
                                  /\ u[1] = "tunnel" => OnRecord(u)
      BY <1>2
  <2>3. call.pc # "remove_basic" /\ sai' = [sai EXCEPT ![o] = Wanted(k)]
      BY <1>0 DEF Member
  <2> HIDE DEF TunnelInv
  <2> QED BY <1>2, <2>1, <2>2, <2>3, GrownBeside
<1>8. (Making /\ Joining /\ Removing /\ RemovingEntries /\ RemovingTunnel)'
    BY <1>4 DEF Making, Joining, Removing, RemovingEntries, RemovingTunnel, Basic, Member
<1>9. /\ call.ep \in Endpoint /\ call.bridge \in Bridge /\ call.vni \in Vni /\ objs[call.ep] # None
    BY DEF TunnelInv, Joining
<1>10. ASSUME NEW u \in Entries, made[u] # None
       PROVE  MayGo(u)'
  <2>1. CASE made[u] = o
      BY <1>2, <1>4, <1>7, <2>1 DEF MayGo
  <2>2. CASE made[u] # o
    <3>1. made[u] = call.made[u] /\ u \in Kind
        BY <1>0, <2>2 DEF Entries, Kind, Member
    <3>2. Entered(u) /\ At(call.ep, "port", call.bridge) = None
        BY <1>10, <3>1 DEF TunnelInv, Joining, Entries, Member
    <3>3. At(call.ep, u, call.bridge) \in TunnelEntry /\ At(call.ep, u, call.bridge).oid = call.made[u]
        BY <1>9, <1>10, <3>1, <3>2 DEF Entered, TunnelEntry
    <3>4. At(call.ep, u, call.bridge) # None
        BY <3>3
    <3> QED BY <1>4, <1>7, <1>9, <3>1, <3>2, <3>3, <3>4 DEF MayGo
  <2> QED BY <2>1, <2>2
<1>11. Undoing'
    BY <1>3, <1>4, <1>9, <1>10 DEF Undoing
<1>12. AllKnown'
  <2> SUFFICES ASSUME NEW x \in Oid \ left', sai'[x] # None, x[1] \notin Maps, ~OnRecord(x)
               PROVE  \E u \in ToSet(call'.todo) : x = call'.made[u]
      BY <1>4, <1>7 DEF AllKnown
  <2>1. x = o
    <3> SUFFICES ASSUME x # o PROVE FALSE
        OBVIOUS
    <3>1. sai[x] # None
        BY <1>0 DEF TunnelInv, TunnelTypeOK
    <3> QED BY <3>1 DEF TunnelInv, AllKnown, Member
  <2>2. PICK u \in Entries : made[u] = o
      BY <1>0, <2>1
  <2> QED BY <1>2, <1>3, <1>4, <2>1, <2>2
<1> QED BY <1>6, <1>7, <1>8, <1>11, <1>12 DEF TunnelInv

\* The bridge has an entry already: the new one is removed again.
LEMMA CreateRefusedStep ==
    ASSUME TunnelInv, NEW k \in Member, Create(k), At(call.ep, k, call.bridge) # None
    PROVE  TunnelInv'
<1> USE TunnelAssumption
<1>1. k \in Kind /\ k \notin Basic /\ k # "term"
    BY DEF Kind, Basic, Member
<1> DEFINE made == [call.made EXCEPT ![k] = NewOid(k)]
<1>3. /\ call.pc = k /\ SaiMakes(k)
      /\ sai' = [sai EXCEPT ![NewOid(k)] = Wanted(k)]
      /\ UNCHANGED <<objs, left, broken>>
      /\ RollBack(k, made)
    BY <1>1 DEF Create, PutOnRecord
<1>4. k \in Entries
    BY <1>3 DEF TunnelInv, Joining, Member, Entries
<1>5. NewOid(k) \in Oid /\ NewOid(k)[1] = k /\ NewOid(k) # None
    BY <1>1, <1>3, NewObject DEF Oid
<1>6. /\ made \in [Kind -> Oid \cup {None}]
      /\ made[k] = NewOid(k)
      /\ \A j \in Kind : j # k => made[j] = call.made[j]
    BY <1>1, <1>5, TunnelTypes DEF TunnelInv
<1> HIDE DEF made
<1>7. \A j \in Kind : made[j] # None => made[j][1] = j
    BY <1>5, <1>6 DEF TunnelInv, OidsOfKind
<1>8. \A u \in Entries : made[u] = call.made[u] \/ made[u] = NewOid(k)
    BY <1>6 DEF Entries, Kind, Member
<1>9. left \subseteq left' /\ left' \subseteq Oid
    BY <1>3 DEF TunnelInv, TunnelTypeOK
<1>10. (\E u \in Entries : made[u] # None) /\ (\E u \in Entries : made[u] = NewOid(k))
    BY <1>4, <1>5, <1>6
<1>12. NewOid(k) \in left' \/ (k \in Entries /\ made[k] = NewOid(k))
    BY <1>4, <1>6
<1>13. made \in [Kind -> Oid \cup {None}] /\ \E u \in Entries : made[u] # None
    BY <1>6, <1>10
<1>14. GivesUp(k, made)
    BY <1>3, <1>7, <1>8, <1>9, <1>12, <1>13 DEF GivesUp
<1> QED BY <1>14, JoinGivesUp

\* A bridge port that SAI made and would not remove is left behind.
LEMMA PortLeftStep ==
    ASSUME TunnelInv, PortLeft
    PROVE  TunnelInv'
<1> USE TunnelAssumption
<1>1. "port" \in Member /\ "port" \in Kind
    BY DEF Member, Kind
<1>2. /\ call.pc = "port" /\ SaiMakes("port")
      /\ sai' = [sai EXCEPT ![NewOid("port")] = Wanted("port")]
      /\ left' = left \cup {NewOid("port")}
      /\ RollBack("port", call.made)
      /\ UNCHANGED <<objs, broken>>
    BY DEF PortLeft
<1>3. NewOid("port") \in Oid
    BY <1>1, <1>2, NewObject
<1>4. /\ call.made \in [Kind -> Oid \cup {None}]
      /\ \A j \in Kind : call.made[j] # None => call.made[j][1] = j
    BY TunnelTypes DEF TunnelInv, OidsOfKind
<1>5. left \subseteq left' /\ left' \subseteq Oid /\ NewOid("port") \in left'
    BY <1>2, <1>3 DEF TunnelInv, TunnelTypeOK
<1>6. \E u \in Entries : call.made[u] # None
    BY <1>2 DEF TunnelInv, Joining, Entered, Member, Entries
<1>7. GivesUp("port", call.made)
    BY <1>2, <1>4, <1>5, <1>6 DEF GivesUp
<1> QED BY <1>1, <1>7, JoinGivesUp

LEMMA CreateStep ==
    ASSUME TunnelInv, NEW k \in Kind, Create(k)
    PROVE  TunnelInv'
<1>1. CASE k \in Basic \ {"term"}
    BY <1>1, CreateFirstStep
<1>2. CASE k = "term"
    BY <1>2, CreateTermStep
<1>3. CASE k \in Member /\ At(call.ep, k, call.bridge) = None
    BY <1>3, CreateMemberStep
<1>4. CASE k \in Member /\ At(call.ep, k, call.bridge) # None
    BY <1>4, CreateRefusedStep
<1> QED BY <1>1, <1>2, <1>3, <1>4 DEF Kind

-----------------------------------------------------------------------------
(* Steps in which SAI loses an object.                                     *)

\* The object t is gone, and with it some of what is on record: no endpoint
\* that has a port on a bridge loses an object it needs there.
Shrinks(t) ==
    /\ sai' = [sai EXCEPT ![t] = None]
    /\ ~InUse(t)
    /\ \A e \in Endpoint : objs'[e] # None =>
          /\ objs[e] # None /\ objs'[e].oid = objs[e].oid
          /\ \A m \in Member, c \in Bridge : At(e, m, c)' # None => At(e, m, c)' = At(e, m, c)
          /\ e \notin broken' =>
                /\ e \notin broken
                /\ objs[e].oid["term"] = t \/ (call.pc = "remove_basic" /\ call.ep = e)
                       => call'.pc = "remove_basic" /\ call'.ep = e
          /\ \A c \in Bridge : At(e, "port", c)' # None =>
                /\ objs[e].oid["tunnel"] # t /\ objs[e].oid["term"] # t
                /\ \A m \in Entries : At(e, m, c)' = At(e, m, c) /\ At(e, m, c).oid # t
    /\ \A e \in Endpoint : objs[e] # None /\ objs'[e] = None => sai'[objs[e].oid["tunnel"]] = None

LEMMA Shrunk ==
    ASSUME TunnelInv, NEW t \in Oid, Shrinks(t),
           \A k \in Kind : call'.made[k] # None => call'.made[k][1] = k
    PROVE  /\ OidsOfKind' /\ RecordedOnce' /\ UsesLive' /\ RecordsHold' /\ PortsCarryTraffic'
           /\ sai' \in [Oid -> SaiObject \cup {None}]
           /\ \A x \in Oid : sai'[x] = IF x = t THEN None ELSE sai[x]
<1> USE TunnelAssumption
<1>1. /\ sai' \in [Oid -> SaiObject \cup {None}]
      /\ \A x \in Oid : sai'[x] = IF x = t THEN None ELSE sai[x]
    BY DEF TunnelInv, TunnelTypeOK, Shrinks
<1>2. ASSUME NEW e \in Endpoint, objs'[e] # None
      PROVE  /\ objs[e] # None /\ objs'[e].oid = objs[e].oid
             /\ \A m \in Member, c \in Bridge : At(e, m, c)' # None => At(e, m, c)' = At(e, m, c)
    BY <1>2 DEF Shrinks
<1>3. ASSUME NEW x \in Oid, x # t
      PROVE  \A u, b, v : Holds(x, u, b, v) => Holds(x, u, b, v)'
    BY <1>1, <1>3 DEF Holds
<1>4. OidsOfKind'
  <2> SUFFICES ASSUME NEW e \in Endpoint, objs'[e] # None
               PROVE  /\ \A k \in Basic : objs'[e].oid[k][1] = k
                      /\ \A m \in Member, b \in Bridge : At(e, m, b)' # None => (At(e, m, b).oid)'[1] = m
      BY DEF OidsOfKind
  <2>1. \A k \in Basic : objs'[e].oid[k][1] = k
      BY <1>2 DEF TunnelInv, OidsOfKind
  <2>2. ASSUME NEW m \in Member, NEW b \in Bridge, At(e, m, b)' # None
        PROVE  (At(e, m, b).oid)'[1] = m
    <3>1. objs[e] # None /\ At(e, m, b)' = At(e, m, b)
        BY <1>2, <2>2
    <3> QED BY <2>2, <3>1 DEF TunnelInv, OidsOfKind
  <2> QED BY <2>1, <2>2
<1>5. RecordedOnce'
  <2> SUFFICES ASSUME NEW e \in Endpoint, NEW f \in Endpoint, objs'[e] # None, objs'[f] # None
               PROVE  /\ \A k \in Basic : objs'[e].oid[k] = objs'[f].oid[k] => e = f
                      /\ \A m \in Member, b, c \in Bridge :
                            (At(e, m, b) # None /\ At(f, m, c) # None /\ At(e, m, b).oid = At(f, m, c).oid)'
                            => e = f /\ b = c
      BY DEF RecordedOnce
  <2>1. \A k \in Basic : objs'[e].oid[k] = objs'[f].oid[k] => e = f
      BY <1>2 DEF TunnelInv, RecordedOnce
  <2>2. ASSUME NEW m \in Member, NEW b \in Bridge, NEW c \in Bridge,
               At(e, m, b)' # None, At(f, m, c)' # None, (At(e, m, b).oid)' = (At(f, m, c).oid)'
        PROVE  e = f /\ b = c
    <3>1. /\ objs[e] # None /\ At(e, m, b)' = At(e, m, b)
          /\ objs[f] # None /\ At(f, m, c)' = At(f, m, c)
        BY <1>2, <2>2
    <3> QED BY <2>2, <3>1 DEF TunnelInv, RecordedOnce
  <2> QED BY <2>1, <2>2
<1>6. UsesLive'
  <2> SUFFICES ASSUME NEW x \in Oid, sai'[x] # None, NEW u \in sai'[x].uses
               PROVE  /\ sai'[u] # None
                      /\ u[1] \in Maps \cup {"tunnel"}
                      /\ u[1] = "tunnel" => OnRecord(u)'
      BY DEF UsesLive
  <2>1. sai[x] # None /\ sai'[x] = sai[x]
      BY <1>1
  <2>2. u \in Oid /\ sai[u] # None /\ u[1] \in Maps \cup {"tunnel"} /\ (u[1] = "tunnel" => OnRecord(u))
      BY <2>1, TunnelTypes DEF TunnelInv, UsesLive, SaiObject
  <2>3. u # t
      BY <2>1 DEF Shrinks, InUse
  <2>4. ASSUME u[1] = "tunnel"
        PROVE  OnRecord(u)'
    <3>1. PICK e \in Endpoint : /\ objs[e] # None
                                /\ \/ \E k \in Basic : objs[e].oid[k] = u
                                   \/ \E m \in Member, b \in Bridge : At(e, m, b) # None /\ At(e, m, b).oid = u
        BY <2>2, <2>4 DEF OnRecord
    <3>2. "tunnel" \in Basic /\ objs[e].oid["tunnel"] = u
        BY <2>4, <3>1 DEF TunnelInv, OidsOfKind, Basic, Member
    <3>3. objs'[e] # None
        BY <1>1, <2>2, <2>3, <3>1, <3>2 DEF Shrinks
    <3> QED BY <1>2, <3>2, <3>3 DEF OnRecord
  <2> QED BY <1>1, <2>2, <2>3, <2>4
<1>7. RecordsHold'
  <2> SUFFICES ASSUME NEW e \in Endpoint, objs'[e] # None
               PROVE  /\ (sai[objs[e].oid["tunnel"]] # None =>
                            Holds(objs[e].oid["tunnel"],
                                  {objs[e].oid["encap_map"], objs[e].oid["decap_map"]}, None, None))'
                      /\ (e \notin broken /\ ~(call.pc = "remove_basic" /\ call.ep = e) =>
                            Holds(objs[e].oid["term"], {objs[e].oid["tunnel"]}, None, None))'
                      /\ (\A m \in Entries, b \in Bridge :
                            At(e, m, b) # None /\ sai[At(e, m, b).oid] # None =>
                                sai[At(e, m, b).oid].uses = {objs[e].oid[MapOf(m)]})'
      BY DEF RecordsHold
  <2>1. objs[e] # None /\ objs'[e].oid = objs[e].oid
      BY <1>2
  <2>2. objs[e].oid["tunnel"] \in Oid /\ objs[e].oid["term"] \in Oid
      BY <2>1, TunnelTypes DEF TunnelInv, Basic
  <2>3. ASSUME sai'[objs[e].oid["tunnel"]] # None
        PROVE  Holds(objs[e].oid["tunnel"],
                     {objs[e].oid["encap_map"], objs[e].oid["decap_map"]}, None, None)'
    <3>1. objs[e].oid["tunnel"] # t /\ sai[objs[e].oid["tunnel"]] # None
        BY <1>1, <2>2, <2>3
    <3>2. Holds(objs[e].oid["tunnel"],
                {objs[e].oid["encap_map"], objs[e].oid["decap_map"]}, None, None)
        BY <2>1, <3>1 DEF TunnelInv, RecordsHold
    <3> QED BY <1>3, <2>1, <2>2, <3>1, <3>2
  <2>4. ASSUME e \notin broken', ~(call'.pc = "remove_basic" /\ call'.ep = e)
        PROVE  Holds(objs[e].oid["term"], {objs[e].oid["tunnel"]}, None, None)'
    <3>1. /\ e \notin broken /\ ~(call.pc = "remove_basic" /\ call.ep = e)
          /\ objs[e].oid["term"] # t
        BY <2>4 DEF Shrinks
    <3>2. Holds(objs[e].oid["term"], {objs[e].oid["tunnel"]}, None, None)
        BY <2>1, <3>1 DEF TunnelInv, RecordsHold
    <3> QED BY <1>3, <2>1, <2>2, <3>1, <3>2
  <2>5. ASSUME NEW m \in Entries, NEW b \in Bridge, At(e, m, b)' # None, sai'[(At(e, m, b).oid)'] # None
        PROVE  sai'[(At(e, m, b).oid)'].uses = {objs[e].oid[MapOf(m)]}
    <3>1. m \in Member
        BY DEF Entries, Member
    <3>2. At(e, m, b)' = At(e, m, b) /\ At(e, m, b) # None
        BY <1>2, <2>5, <3>1
    <3>3. At(e, m, b).oid \in Oid
        BY <2>1, <3>1, <3>2, TunnelTypes DEF TunnelInv
    <3>4. sai'[At(e, m, b).oid] = sai[At(e, m, b).oid] /\ sai[At(e, m, b).oid] # None
        BY <1>1, <2>5, <3>2, <3>3
    <3>5. sai[At(e, m, b).oid].uses = {objs[e].oid[MapOf(m)]}
        BY <2>1, <3>2, <3>4 DEF TunnelInv, RecordsHold
    <3> QED BY <3>2, <3>4, <3>5
  <2> QED BY <2>1, <2>3, <2>4, <2>5
<1>8. PortsCarryTraffic'
  <2> SUFFICES ASSUME NEW e \in Endpoint, NEW c \in Bridge, objs'[e] # None, At(e, "port", c)' # None
               PROVE  /\ Holds(objs[e].oid["tunnel"],
                               {objs[e].oid["encap_map"], objs[e].oid["decap_map"]}, None, None)'
                      /\ \A m \in Entries : At(e, m, c)' # None
                      /\ Holds(At(e, "encap_entry", c).oid, {objs[e].oid["encap_map"]}, c, At(e, "port", c).vni)'
                      /\ Holds(At(e, "decap_entry", c).oid, {objs[e].oid["decap_map"]}, c, At(e, "port", c).vni)'
                      /\ (e \notin broken => Holds(objs[e].oid["term"], {objs[e].oid["tunnel"]}, None, None))'
      BY DEF PortsCarryTraffic, Entries
  <2>1. /\ objs[e] # None /\ objs'[e].oid = objs[e].oid
        /\ At(e, "port", c)' = At(e, "port", c)
      BY <1>2 DEF Member
  <2>2. /\ objs[e].oid["tunnel"] # t /\ objs[e].oid["term"] # t
        /\ \A m \in Entries : At(e, m, c)' = At(e, m, c) /\ At(e, m, c).oid # t
        /\ e \notin broken' => e \notin broken
      BY DEF Shrinks
  <2>3. /\ Holds(objs[e].oid["tunnel"],
                 {objs[e].oid["encap_map"], objs[e].oid["decap_map"]}, None, None)
        /\ \A m \in Entries : At(e, m, c) # None
        /\ Holds(At(e, "encap_entry", c).oid, {objs[e].oid["encap_map"]}, c, At(e, "port", c).vni)
        /\ Holds(At(e, "decap_entry", c).oid, {objs[e].oid["decap_map"]}, c, At(e, "port", c).vni)
        /\ e \notin broken => Holds(objs[e].oid["term"], {objs[e].oid["tunnel"]}, None, None)
      BY <2>1 DEF TunnelInv, PortsCarryTraffic, Entries
  <2>4. /\ objs[e].oid["tunnel"] \in Oid /\ objs[e].oid["term"] \in Oid
        /\ At(e, "encap_entry", c).oid \in Oid /\ At(e, "decap_entry", c).oid \in Oid
      BY <2>1, <2>3, TunnelTypes DEF TunnelInv, Basic, Member, Entries
  <2>5. Holds(objs[e].oid["tunnel"],
              {objs[e].oid["encap_map"], objs[e].oid["decap_map"]}, None, None)'
      BY <1>3, <2>1, <2>2, <2>3, <2>4
  <2>6. (e \notin broken => Holds(objs[e].oid["term"], {objs[e].oid["tunnel"]}, None, None))'
      BY <1>3, <2>1, <2>2, <2>3, <2>4
  <2>7. /\ At(e, "encap_entry", c)' = At(e, "encap_entry", c) /\ At(e, "encap_entry", c).oid # t
        /\ At(e, "decap_entry", c)' = At(e, "decap_entry", c) /\ At(e, "decap_entry", c).oid # t
      BY <2>2 DEF Entries
  <2>8. /\ Holds(At(e, "encap_entry", c).oid, {objs[e].oid["encap_map"]}, c, At(e, "port", c).vni)'
        /\ Holds(At(e, "decap_entry", c).oid, {objs[e].oid["decap_map"]}, c, At(e, "port", c).vni)'
      BY <1>3, <2>1, <2>3, <2>4, <2>7
  <2> QED BY <2>2, <2>3, <2>5, <2>6, <2>8
<1> QED BY <1>1, <1>4, <1>5, <1>6, <1>7, <1>8

\* The first of a list and the others.
LEMMA TailFacts ==
    ASSUME NEW T, NEW s \in Seq(T), s # <<>>
    PROVE  /\ Head(s) \in T
           /\ ToSet(s) = {Head(s)} \cup (IF Len(s) = 1 THEN {} ELSE ToSet(Tail(s)))
           /\ Len(s) # 1 => Tail(s) \in Seq(T) /\ Tail(s) # <<>>
<1>1. Len(s) \in Nat /\ Len(s) # 0 /\ Head(s) = s[1] /\ DOMAIN s = 1 .. Len(s)
    OBVIOUS
<1>2. /\ Tail(s) \in Seq(T) /\ Len(Tail(s)) = Len(s) - 1
      /\ DOMAIN Tail(s) = 1 .. Len(s) - 1
      /\ \A i \in 1 .. Len(s) - 1 : Tail(s)[i] = s[i + 1]
    BY <1>1
<1>3. CASE Len(s) = 1
    BY <1>1, <1>3 DEF ToSet
<1>4. CASE Len(s) # 1
  <2>1. Tail(s) # <<>>
    <3>1. PICK q : q = Tail(s)
        OBVIOUS
    <3>2. Len(q) # 0
        BY <1>1, <1>2, <1>4, <3>1
    <3> QED BY <3>1, <3>2
  <2>2. ASSUME NEW x \in ToSet(s)
        PROVE  x = Head(s) \/ x \in ToSet(Tail(s))
    <3>1. PICK i \in 1 .. Len(s) : x = s[i]
        BY <1>1 DEF ToSet
    <3>2. i # 1 => i - 1 \in 1 .. Len(s) - 1 /\ (i - 1) + 1 = i
        BY <1>1
    <3>3. i # 1 => x = Tail(s)[i - 1] /\ i - 1 \in DOMAIN Tail(s)
        BY <1>2, <3>1, <3>2
    <3> QED BY <1>1, <3>1, <3>3 DEF ToSet
  <2>3. ASSUME NEW x \in ToSet(Tail(s))
        PROVE  x \in ToSet(s)
    <3>1. PICK i \in 1 .. Len(s) - 1 : x = s[i + 1]
        BY <1>2 DEF ToSet
    <3>2. i + 1 \in 1 .. Len(s)
        BY <1>1
    <3> QED BY <1>1, <3>1, <3>2 DEF ToSet
  <2>4. Head(s) \in ToSet(s) /\ Head(s) \in T
    <3>1. 1 \in 1 .. Len(s)
        BY <1>1
    <3> QED BY <1>1, <3>1 DEF ToSet
  <2> QED BY <1>2, <1>4, <2>1, <2>2, <2>3, <2>4
<1> QED BY <1>3, <1>4

\* One object of a roll-back is removed, or is left, or was not there.
LEMMA RollbackStepInv ==
    ASSUME TunnelInv, RollbackStep
    PROVE  TunnelInv'
<1> USE TunnelAssumption
<1>0. PICK u, t, ep, b : u = Turn /\ t = Doomed /\ ep = call.ep /\ b = call.bridge
    OBVIOUS
<1>1. /\ call.pc = "rollback" /\ UNCHANGED <<objs, broken>>
      /\ call' = IF Len(call.todo) = 1 THEN Idle ELSE [call EXCEPT !.todo = Tail(call.todo)]
    BY DEF RollbackStep
<1>2. /\ call.todo \in Seq(Kind) /\ call.todo # <<>>
      /\ call.made \in [Kind -> Oid \cup {None}]
      /\ ep \in Endpoint /\ b \in Bridge
    BY <1>0, <1>1, TunnelTypes DEF TunnelInv, Undoing
<1>3. /\ u \in Kind
      /\ ToSet(call.todo) = {u} \cup (IF Len(call.todo) = 1 THEN {} ELSE ToSet(Tail(call.todo)))
      /\ Len(call.todo) # 1 => Tail(call.todo) \in Seq(Kind) /\ Tail(call.todo) # <<>>
    BY <1>0, <1>2, TailFacts DEF Turn
<1>4. /\ t = call.made[u] /\ t \in Oid /\ t # None /\ t[1] = u
      /\ u \in Maps \cup {"tunnel"} \cup Entries /\ MayGo(u)
  <2>1. t = call.made[u]
      BY <1>0 DEF Doomed
  <2>2. call.made[u] # None /\ u \in Maps \cup {"tunnel"} \cup Entries /\ MayGo(u)
      BY <1>1, <1>3 DEF TunnelInv, Undoing
  <2> QED BY <1>2, <1>3, <2>1, <2>2 DEF TunnelInv, OidsOfKind
<1>5. \/ /\ Len(call.todo) = 1 /\ call' = Idle
      \/ /\ Len(call.todo) # 1
         /\ call' = [call EXCEPT !.todo = Tail(call.todo)]
         /\ call'.pc = "rollback" /\ call'.ep = ep /\ call'.bridge = b /\ call'.made = call.made
         /\ call'.todo = Tail(call.todo)
    BY <1>0, <1>1 DEF TunnelInv, TunnelTypeOK
<1>6. call' \in [pc : Kind \cup {"idle", "rollback", "remove", "remove_basic"},
                 ep : Endpoint \cup {None}, bridge : Bridge \cup {None},
                 vni : Vni \cup {None}, made : [Kind -> Oid \cup {None}], todo : Seq(Kind)]
    BY <1>3, <1>5, IdleType DEF TunnelInv, TunnelTypeOK
<1>7. /\ call'.made \in [Kind -> Oid \cup {None}]
      /\ \A k \in Kind : call'.made[k] # None => call'.made[k][1] = k
  <2>1. CASE call' = Idle
      BY <2>1 DEF Idle
  <2>2. CASE call'.made = call.made
      BY <1>2, <2>2 DEF TunnelInv, OidsOfKind
  <2> QED BY <1>5, <2>1, <2>2
<1>8. (Making /\ Joining /\ Removing /\ RemovingEntries /\ RemovingTunnel)'
  <2>1. call'.pc = "idle" \/ call'.pc = "rollback"
      BY <1>5 DEF Idle
  <2> QED BY <2>1 DEF Making, Joining, Removing, RemovingEntries, RemovingTunnel, Basic, Member
<1>9. /\ \A e, m, c : At(e, m, c)' = At(e, m, c)
      /\ \A x : OnRecord(x)' <=> OnRecord(x)
    BY <1>1 DEF At, OnRecord
<1>10. Undoing'
  <2>1. CASE call' = Idle
      BY <2>1 DEF Idle, Undoing
  <2>2. CASE Len(call.todo) # 1 /\ call'.ep = ep /\ call'.bridge = b
             /\ call'.made = call.made /\ call'.todo = Tail(call.todo)
    <3> SUFFICES ASSUME NEW w \in ToSet(call'.todo)
                 PROVE  /\ w \in Maps \cup {"tunnel"} \cup Entries
                        /\ call'.made[w] # None
                        /\ MayGo(w)'
        BY <1>2, <1>3, <2>2 DEF Undoing
    <3>1. w \in ToSet(call.todo)
        BY <1>3, <2>2
    <3>2. w \in Maps \cup {"tunnel"} \cup Entries /\ call.made[w] # None /\ MayGo(w)
        BY <1>1, <3>1 DEF TunnelInv, Undoing
    <3>3. MayGo(w)' <=> MayGo(w)
        BY <1>0, <1>1, <1>9, <2>2 DEF MayGo
    <3> QED BY <2>2, <3>2, <3>3
  <2> QED BY <1>5, <2>1, <2>2
<1>11. ASSUME NEW x \in Oid \ left, sai[x] # None, x[1] \notin Maps, x # t
       PROVE  OnRecord(x) \/ (call'.pc = "rollback" /\ \E w \in ToSet(call'.todo) : x = call'.made[w])
  <2>1. OnRecord(x) \/ \E w \in ToSet(call.todo) : x = call.made[w]
      BY <1>1, <1>11 DEF TunnelInv, AllKnown
  <2> QED BY <1>3, <1>4, <1>5, <1>11, <2>1
<1>12. CASE Removable /\ sai' = [sai EXCEPT ![Doomed] = None] /\ UNCHANGED left
  <2>1. ASSUME NEW e \in Endpoint, NEW m \in Entries, NEW c \in Bridge, objs[e] # None,
               At(e, m, c) # None, At(e, m, c).oid = t
        PROVE  At(e, "port", c) = None
    <3>1. m \in Member /\ m = u
        BY <1>4, <2>1 DEF TunnelInv, OidsOfKind, Entries, Member
    <3>2. OnRecord(t)
        BY <2>1, <3>1 DEF OnRecord
    <3>3. /\ objs[ep] # None /\ At(ep, u, b) # None /\ At(ep, u, b).oid = t
          /\ At(ep, "port", b) = None
        BY <1>0, <1>4, <3>2 DEF MayGo
    <3>4. e = ep /\ c = b
        BY <1>2, <2>1, <3>1, <3>3 DEF TunnelInv, RecordedOnce
    <3> QED BY <3>3, <3>4
  <2>2. ASSUME NEW e \in Endpoint, objs[e] # None
        PROVE  /\ objs[e].oid["term"] # t
               /\ u \in Entries => objs[e].oid["tunnel"] # t
               /\ u \notin Entries => ~ OnRecord(t)
               /\ objs[e].oid["tunnel"] # t
    <3>1. objs[e].oid["term"][1] = "term" /\ objs[e].oid["tunnel"][1] = "tunnel"
        BY <2>2 DEF TunnelInv, OidsOfKind, Basic
    <3>2. u # "term" /\ (u \in Entries => u # "tunnel")
        BY <1>4 DEF Maps, Entries
    <3>3. u \notin Entries => ~ OnRecord(t)
        BY <1>4 DEF MayGo
    <3>4. ~ OnRecord(t) => objs[e].oid["tunnel"] # t
        BY <2>2 DEF OnRecord, Basic
    <3> QED BY <1>4, <3>1, <3>2, <3>3, <3>4
  <2>3. Shrinks(t)
    <3>1. sai' = [sai EXCEPT ![t] = None] /\ ~InUse(t)
        BY <1>0, <1>12 DEF Removable
    <3>2. ASSUME NEW e \in Endpoint, objs'[e] # None
          PROVE  /\ objs[e] # None /\ objs'[e].oid = objs[e].oid
                 /\ \A m \in Member, c \in Bridge : At(e, m, c)' # None => At(e, m, c)' = At(e, m, c)
                 /\ e \notin broken' =>
                       /\ e \notin broken
                       /\ objs[e].oid["term"] = t \/ (call.pc = "remove_basic" /\ call.ep = e)
                              => call'.pc = "remove_basic" /\ call'.ep = e
                 /\ \A c \in Bridge : At(e, "port", c)' # None =>
                       /\ objs[e].oid["tunnel"] # t /\ objs[e].oid["term"] # t
                       /\ \A m \in Entries : At(e, m, c)' = At(e, m, c) /\ At(e, m, c).oid # t
      <4>1. objs[e] # None /\ objs'[e] = objs[e]
          BY <1>1, <3>2
      <4>2. ASSUME NEW c \in Bridge, At(e, "port", c)' # None, NEW m \in Entries
            PROVE  At(e, m, c).oid # t
        <5>1. At(e, "port", c) # None
            BY <1>9, <4>2
        <5>2. At(e, m, c) # None
            BY <4>1, <5>1 DEF TunnelInv, PortsCarryTraffic, Entries
        <5> QED BY <2>1, <4>1, <5>1, <5>2
      <4> QED BY <1>1, <1>9, <2>2, <4>1, <4>2
    <3> QED BY <1>1, <3>1, <3>2 DEF Shrinks
  <2>4. /\ OidsOfKind' /\ RecordedOnce' /\ UsesLive' /\ RecordsHold' /\ PortsCarryTraffic'
        /\ sai' \in [Oid -> SaiObject \cup {None}]
        /\ \A x \in Oid : sai'[x] = IF x = t THEN None ELSE sai[x]
      BY <1>4, <1>7, <2>3, Shrunk
  <2>5. TunnelTypeOK'
      BY <1>1, <1>6, <1>12, <2>4 DEF TunnelInv, TunnelTypeOK
  <2>6. AllKnown'
    <3> SUFFICES ASSUME NEW x \in Oid \ left, sai'[x] # None, x[1] \notin Maps
                 PROVE  OnRecord(x)' \/ (call'.pc = "rollback" /\ \E w \in ToSet(call'.todo) : x = call'.made[w])
        BY <1>12 DEF AllKnown
    <3> QED BY <1>9, <1>11, <2>4
  <2> QED BY <1>8, <1>10, <2>4, <2>5, <2>6 DEF TunnelInv
<1>13. CASE UNCHANGED sai /\ (left' = left \cup {t} \/ (left' = left /\ ~Removable))
  <2>1. /\ OidsOfKind' /\ RecordedOnce' /\ UsesLive' /\ RecordsHold' /\ PortsCarryTraffic'
        /\ \A o : OnRecord(o)' <=> OnRecord(o)
        /\ \A o, y, c, v : Holds(o, y, c, v)' <=> Holds(o, y, c, v)
        /\ \A e, m, c : At(e, m, c)' = At(e, m, c)
    <3>1. UNCHANGED <<sai, objs>> /\ broken \subseteq broken' /\ call.pc # "remove_basic"
        BY <1>1, <1>13
    <3> QED BY <1>7, <3>1, SameRecords
  <2>2. left' \subseteq Oid
      BY <1>4, <1>13 DEF TunnelInv, TunnelTypeOK
  <2>3. TunnelTypeOK'
      BY <1>1, <1>6, <1>13, <2>2 DEF TunnelInv, TunnelTypeOK
  <2>4. AllKnown'
    <3> SUFFICES ASSUME NEW x \in Oid \ left', sai[x] # None, x[1] \notin Maps
                 PROVE  OnRecord(x) \/ (call'.pc = "rollback" /\ \E w \in ToSet(call'.todo) : x = call'.made[w])
        BY <1>13, <2>1 DEF AllKnown
    <3>1. CASE x # t
        BY <1>11, <1>13, <3>1
    <3>2. CASE x = t
      <4>1. ~Removable
          BY <1>13, <3>2
      <4>2. InUse(t)
          BY <1>0, <3>2, <4>1 DEF Removable
      <4>3. t[1] \in Maps \cup {"tunnel"} /\ (t[1] = "tunnel" => OnRecord(t))
          BY <4>2 DEF InUse, TunnelInv, UsesLive
      <4> QED BY <3>2, <4>3
    <3> QED BY <3>1, <3>2
  <2> QED BY <1>8, <1>10, <2>1, <2>3, <2>4 DEF TunnelInv
<1>14. \/ Removable /\ sai' = [sai EXCEPT ![Doomed] = None] /\ UNCHANGED left
       \/ UNCHANGED sai /\ (left' = left \cup {t} \/ (left' = left /\ ~Removable))
    BY <1>0 DEF RollbackStep
<1> QED BY <1>12, <1>13, <1>14

\* Entries of a bridge leave the record.
LEMMA Erasing ==
    ASSUME TunnelTypeOK, NEW ep \in Endpoint, objs[ep] # None, NEW ms \in SUBSET Member,
           NEW b \in Bridge, objs' = Erased(ep, ms, b)
    PROVE  /\ objs' \in [Endpoint -> {None} \cup TunnelObj]
           /\ \A e \in Endpoint : objs'[e] # None <=> objs[e] # None
           /\ \A e \in Endpoint : objs[e] # None => objs'[e].oid = objs[e].oid
           /\ \A e \in Endpoint, m \in Member, c \in Bridge : objs[e] # None =>
                 At(e, m, c)' = IF e = ep /\ m \in ms /\ c = b THEN None ELSE At(e, m, c)
<1> USE TunnelAssumption
<1> DEFINE rows == [m \in Member |-> IF m \in ms THEN [objs[ep].at[m] EXCEPT ![b] = None]
                                                 ELSE objs[ep].at[m]]
<1>1. objs' = [objs EXCEPT ![ep] = [objs[ep] EXCEPT !.at = rows]]
    BY DEF Erased
<1>2. /\ objs[ep] \in TunnelObj
      /\ objs[ep].oid \in [Basic -> Oid]
      /\ objs[ep].at \in [Member -> [Bridge -> {None} \cup TunnelEntry]]
    BY TunnelTypes DEF TunnelObj
<1>3. rows \in [Member -> [Bridge -> {None} \cup TunnelEntry]]
  <2>1. ASSUME NEW m \in Member
        PROVE  [objs[ep].at[m] EXCEPT ![b] = None] \in [Bridge -> {None} \cup TunnelEntry]
      BY <1>2
  <2> QED BY <1>2, <2>1
<1>4. \A m \in Member, c \in Bridge :
          rows[m][c] = IF m \in ms /\ c = b THEN None ELSE objs[ep].at[m][c]
  <2> SUFFICES ASSUME NEW m \in Member, NEW c \in Bridge
               PROVE  rows[m][c] = IF m \in ms /\ c = b THEN None ELSE objs[ep].at[m][c]
      OBVIOUS
  <2>1. objs[ep].at[m] \in [Bridge -> {None} \cup TunnelEntry]
      BY <1>2
  <2> QED BY <2>1
<1> HIDE DEF rows
<1>5. /\ [objs[ep] EXCEPT !.at = rows] \in TunnelObj
      /\ [objs[ep] EXCEPT !.at = rows].oid = objs[ep].oid
      /\ [objs[ep] EXCEPT !.at = rows].at = rows
    BY <1>2, <1>3 DEF TunnelObj
<1>6. /\ objs' \in [Endpoint -> {None} \cup TunnelObj]
      /\ objs'[ep] # None /\ objs'[ep].oid = objs[ep].oid /\ objs'[ep].at = rows
      /\ \A e \in Endpoint : e # ep => objs'[e] = objs[e]
    BY <1>1, <1>5 DEF TunnelTypeOK
<1>7. /\ \A e \in Endpoint : objs'[e] # None <=> objs[e] # None
      /\ \A e \in Endpoint : objs[e] # None => objs'[e].oid = objs[e].oid
    BY <1>6
<1>8. \A e \in Endpoint, m \in Member, c \in Bridge : objs[e] # None =>
          At(e, m, c)' = IF e = ep /\ m \in ms /\ c = b THEN None ELSE At(e, m, c)
    BY <1>4, <1>6 DEF At
<1> QED BY <1>6, <1>7, <1>8

\* The bridge port goes, and with all three entries there the removal goes on.
LEMMA RemoveEndpointStep ==
    ASSUME TunnelInv, NEW e \in Endpoint, NEW b \in Bridge, RemoveEndpoint(e, b)
    PROVE  TunnelInv'
<1> USE TunnelAssumption
<1>1. /\ call = Idle /\ objs[e] # None /\ objs' = Erased(e, {"port"}, b) /\ UNCHANGED broken
      /\ call.pc = "idle"
    BY DEF RemoveEndpoint, Idle
<1>2. PICK p \in IF At(e, "port", b) # None THEN {At(e, "port", b).oid} ELSE Garbage :
         sai[p] # None /\ sai' = [sai EXCEPT ![p] = None] /\ left' = left \ {p}
    BY DEF RemoveEndpoint
<1>3. /\ "port" \in Member /\ Entries \subseteq Member /\ "port" \notin Entries
      /\ "tunnel" \in Basic /\ "term" \in Basic /\ "port" \in Kind
      /\ Member \subseteq Kind /\ Basic \subseteq Kind /\ Basic \cap Member = {}
    BY DEF Member, Entries, Basic, Kind
<1>4. p \in Oid /\ p[1] = "port" /\ (At(e, "port", b) # None => p = At(e, "port", b).oid)
  <2>1. CASE At(e, "port", b) # None
      BY <1>1, <1>2, <1>3, <2>1, TunnelTypes DEF TunnelInv, OidsOfKind
  <2>2. CASE At(e, "port", b) = None
    <3>1. p \in {"port"} \X (1 .. MaxOid)
        BY <1>2, <2>2
    <3> QED BY <1>3, <2>2, <3>1 DEF Oid
  <2> QED BY <2>1, <2>2
<1>5. /\ objs' \in [Endpoint -> {None} \cup TunnelObj]
      /\ \A f \in Endpoint : objs'[f] # None <=> objs[f] # None
      /\ \A f \in Endpoint : objs[f] # None => objs'[f].oid = objs[f].oid
      /\ \A f \in Endpoint, m \in Member, c \in Bridge : objs[f] # None =>
            At(f, m, c)' = IF f = e /\ m \in {"port"} /\ c = b THEN None ELSE At(f, m, c)
  <2>1. TunnelTypeOK /\ {"port"} \in SUBSET Member
      BY <1>3 DEF TunnelInv
  <2> QED BY <1>1, <2>1, Erasing
<1> DEFINE made == [k \in Kind |-> IF k \in Basic THEN objs[e].oid[k] ELSE At(e, k, b).oid]
           todo == <<"encap_entry", "decap_entry">>
<1>6. \/ call' = Idle
      \/ /\ \A m \in Member : At(e, m, b) # None
         /\ call' = [Idle EXCEPT !.pc = "remove", !.ep = e, !.bridge = b, !.made = made, !.todo = todo]
    BY DEF RemoveEndpoint
<1>7. ASSUME \A m \in Member : At(e, m, b) # None
      PROVE  /\ made \in [Kind -> Oid \cup {None}]
             /\ \A k \in Kind : made[k] \in Oid /\ made[k][1] = k
             /\ \A k \in Basic : made[k] = objs[e].oid[k]
             /\ \A m \in Entries : made[m] = At(e, m, b).oid
  <2>1. \A k \in Basic : made[k] = objs[e].oid[k] /\ made[k] \in Oid /\ made[k][1] = k
      BY <1>1, <1>3, TunnelTypes DEF TunnelInv, OidsOfKind
  <2>2. \A m \in Member : made[m] = At(e, m, b).oid /\ made[m] \in Oid /\ made[m][1] = m
      BY <1>1, <1>3, <1>7, TunnelTypes DEF TunnelInv, OidsOfKind
  <2>3. \A k \in Kind : k \in Basic \/ k \in Member
      BY DEF Kind
  <2> QED BY <1>3, <2>1, <2>2, <2>3
<1>8. todo \in Seq(Kind) /\ todo = <<"encap_entry", "decap_entry">>
    BY DEF Kind, Member
<1> HIDE DEF made, todo
<1>9. CASE call' = Idle \/ \A m \in Member : At(e, m, b) # None
  <2>1. \/ call' = Idle
        \/ /\ \A m \in Member : At(e, m, b) # None
           /\ call'.pc = "remove" /\ call'.ep = e /\ call'.bridge = b
           /\ call'.made = made /\ call'.todo = todo
           /\ call' = [Idle EXCEPT !.pc = "remove", !.ep = e, !.bridge = b, !.made = made, !.todo = todo]
      BY <1>6 DEF Idle
  <2>2. call' \in [pc : Kind \cup {"idle", "rollback", "remove", "remove_basic"},
                   ep : Endpoint \cup {None}, bridge : Bridge \cup {None},
                   vni : Vni \cup {None}, made : [Kind -> Oid \cup {None}], todo : Seq(Kind)]
    <3>1. CASE call' = Idle
        BY <3>1, IdleType
    <3>2. CASE call' # Idle
      <4>1. /\ made \in [Kind -> Oid \cup {None}] /\ todo \in Seq(Kind)
            /\ call' = [Idle EXCEPT !.pc = "remove", !.ep = e, !.bridge = b, !.made = made, !.todo = todo]
          BY <1>7, <1>8, <2>1, <3>2
      <4> QED BY <4>1, IdleType
    <3> QED BY <3>1, <3>2
  <2>3. \A k \in Kind : call'.made[k] # None => call'.made[k][1] = k
    <3>1. CASE call' = Idle
        BY <3>1 DEF Idle
    <3>2. CASE call' # Idle
        BY <1>7, <2>1, <3>2
    <3> QED BY <3>1, <3>2
  <2>4. Shrinks(p)
    <3>1. ~InUse(p)
        BY <1>4 DEF InUse, TunnelInv, UsesLive, Maps
    <3>2. ASSUME NEW f \in Endpoint, objs'[f] # None
          PROVE  /\ objs[f] # None /\ objs'[f].oid = objs[f].oid
                 /\ \A m \in Member, c \in Bridge : At(f, m, c)' # None => At(f, m, c)' = At(f, m, c)
                 /\ f \notin broken' =>
                       /\ f \notin broken
                       /\ objs[f].oid["term"] = p \/ (call.pc = "remove_basic" /\ call.ep = f)
                              => call'.pc = "remove_basic" /\ call'.ep = f
                 /\ \A c \in Bridge : At(f, "port", c)' # None =>
                       /\ objs[f].oid["tunnel"] # p /\ objs[f].oid["term"] # p
                       /\ \A m \in Entries : At(f, m, c)' = At(f, m, c) /\ At(f, m, c).oid # p
      <4>1. objs[f] # None /\ objs'[f].oid = objs[f].oid
          BY <1>5, <3>2
      <4>2. \A m \in Member, c \in Bridge : At(f, m, c)' # None => At(f, m, c)' = At(f, m, c)
          BY <1>5, <4>1
      <4>3. objs[f].oid["tunnel"] # p /\ objs[f].oid["term"] # p
        <5>1. objs[f].oid["tunnel"][1] = "tunnel" /\ objs[f].oid["term"][1] = "term"
            BY <1>3, <4>1 DEF TunnelInv, OidsOfKind
        <5> QED BY <1>4, <5>1
      <4>4. ASSUME NEW c \in Bridge, At(f, "port", c)' # None, NEW m \in Entries
            PROVE  At(f, m, c)' = At(f, m, c) /\ At(f, m, c).oid # p
        <5>1. m \in Member /\ m # "port" /\ At(f, m, c)' = At(f, m, c)
            BY <1>3, <1>5, <4>1
        <5>2. At(f, "port", c) # None
            BY <1>3, <1>5, <4>1, <4>4
        <5>3. At(f, m, c) # None
            BY <4>1, <5>2 DEF TunnelInv, PortsCarryTraffic, Entries
        <5>4. At(f, m, c).oid[1] = m
            BY <4>1, <5>1, <5>3 DEF TunnelInv, OidsOfKind
        <5> QED BY <1>4, <5>1, <5>4
      <4> QED BY <1>1, <4>1, <4>2, <4>3, <4>4
    <3> QED BY <1>2, <1>5, <3>1, <3>2 DEF Shrinks
  <2>5. /\ OidsOfKind' /\ RecordedOnce' /\ UsesLive' /\ RecordsHold' /\ PortsCarryTraffic'
        /\ sai' \in [Oid -> SaiObject \cup {None}]
        /\ \A x \in Oid : sai'[x] = IF x = p THEN None ELSE sai[x]
      BY <1>4, <2>3, <2>4, Shrunk
  <2>6. TunnelTypeOK'
      BY <1>1, <1>2, <1>5, <2>2, <2>5 DEF TunnelInv, TunnelTypeOK
  <2>7. (Making /\ Joining /\ Undoing /\ RemovingTunnel)'
    <3>1. call'.pc = "idle" \/ call'.pc = "remove"
        BY <2>1 DEF Idle
    <3> QED BY <3>1 DEF Making, Joining, Undoing, RemovingTunnel, Basic, Member
  <2>8. Removing' /\ RemovingEntries'
    <3>1. CASE call' = Idle
        BY <3>1 DEF Idle, Removing, RemovingEntries
    <3>2. CASE call' # Idle
      <4>1. /\ \A m \in Member : At(e, m, b) # None
            /\ call'.pc = "remove" /\ call'.ep = e /\ call'.bridge = b
            /\ call'.made = made /\ call'.todo = <<"encap_entry", "decap_entry">>
          BY <1>8, <2>1, <3>2
      <4>2. objs'[e] # None /\ objs'[e].oid = objs[e].oid
          BY <1>1, <1>5
      <4>3. Removing'
          BY <1>7, <4>1, <4>2 DEF Removing
      <4>4. At(e, "port", b)' = None /\ \A m \in Entries : At(e, m, b)' = At(e, m, b)
          BY <1>1, <1>3, <1>5
      <4>5. RemovingEntries'
          BY <1>3, <1>7, <4>1, <4>4 DEF RemovingEntries
      <4> QED BY <4>3, <4>5
    <3> QED BY <3>1, <3>2
  <2>9. AllKnown'
    <3> SUFFICES ASSUME NEW x \in Oid \ left', sai'[x] # None, x[1] \notin Maps
                 PROVE  OnRecord(x)'
        BY DEF AllKnown
    <3>1. x # p /\ sai[x] # None /\ x \in Oid \ left
        BY <1>2, <2>5
    <3>2. OnRecord(x)
        BY <1>1, <3>1 DEF TunnelInv, AllKnown
    <3>3. PICK f \in Endpoint : /\ objs[f] # None
                                /\ \/ \E k \in Basic : objs[f].oid[k] = x
                                   \/ \E m \in Member, c \in Bridge : At(f, m, c) # None /\ At(f, m, c).oid = x
        BY <3>2 DEF OnRecord
    <3>4. CASE \E k \in Basic : objs[f].oid[k] = x
        BY <1>5, <3>3, <3>4 DEF OnRecord
    <3>5. ASSUME NEW m \in Member, NEW c \in Bridge, At(f, m, c) # None, At(f, m, c).oid = x
          PROVE  OnRecord(x)'
      <4>1. ~(f = e /\ m = "port" /\ c = b)
          BY <1>4, <3>1, <3>5
      <4>2. At(f, m, c)' = At(f, m, c) /\ objs'[f] # None
          BY <1>5, <3>3, <4>1
      <4> QED BY <3>5, <4>2 DEF OnRecord
    <3> QED BY <3>3, <3>4, <3>5
  <2> QED BY <2>5, <2>6, <2>7, <2>8, <2>9 DEF TunnelInv
<1> QED BY <1>6, <1>9

\* A removal takes one entry from the bridge, and there is another to take.
LEMMA RemoveEntryStep ==
    ASSUME TunnelInv, RemoveStep, call.pc = "remove", Len(call.todo) > 1
    PROVE  TunnelInv'
<1> USE TunnelAssumption
<1>0. PICK t, ep, b : t = call.made["encap_entry"] /\ ep = call.ep /\ b = call.bridge
    OBVIOUS
<1>1. /\ call.todo = <<"encap_entry", "decap_entry">>
      /\ ep \in Endpoint /\ b \in Bridge /\ objs[ep] # None
      /\ At(ep, "port", b) = None
      /\ At(ep, "encap_entry", b) # None /\ t = At(ep, "encap_entry", b).oid
  <2>1. Len(<<"decap_entry">>) = 1 /\ ~(1 > 1)
      OBVIOUS
  <2>2. call.todo # <<"decap_entry">>
      BY <2>1
  <2>3. call.todo = <<"encap_entry", "decap_entry">>
      BY <2>2 DEF TunnelInv, RemovingEntries
  <2> QED BY <1>0, <2>3 DEF TunnelInv, Removing, RemovingEntries, Entries
<1>2. Doomed = t
  <2>1. Head(<<"encap_entry", "decap_entry">>) = "encap_entry"
      OBVIOUS
  <2> QED BY <1>0, <1>1, <2>1 DEF Doomed, Turn
<1>3. /\ sai' = [sai EXCEPT ![t] = None] /\ sai[t] # None /\ ~InUse(t)
      /\ UNCHANGED <<objs, broken>> /\ left' = left \ {t}
      /\ call' = [call EXCEPT !.todo = Tail(call.todo)]
    BY <1>1, <1>2 DEF RemoveStep, Removable
<1>4. /\ call'.pc = "remove" /\ call'.ep = ep /\ call'.bridge = b /\ call'.made = call.made
      /\ call'.todo = <<"decap_entry">>
  <2>1. Tail(call.todo) = <<"decap_entry">>
      BY <1>1
  <2> QED BY <1>0, <1>3, <2>1 DEF TunnelInv, TunnelTypeOK
<1>5. t \in Oid /\ t[1] = "encap_entry" /\ "encap_entry" \in Member
    BY <1>1, TunnelTypes DEF TunnelInv, OidsOfKind, Member
<1>6. /\ \A e, m, c : At(e, m, c)' = At(e, m, c)
      /\ \A x : OnRecord(x)' <=> OnRecord(x)
    BY <1>3 DEF At, OnRecord
<1>7. Shrinks(t)
  <2>1. ASSUME NEW f \in Endpoint, objs'[f] # None
        PROVE  /\ objs[f] # None /\ objs'[f].oid = objs[f].oid
               /\ \A m \in Member, c \in Bridge : At(f, m, c)' # None => At(f, m, c)' = At(f, m, c)
               /\ f \notin broken' =>
                     /\ f \notin broken
                     /\ objs[f].oid["term"] = t \/ (call.pc = "remove_basic" /\ call.ep = f)
                            => call'.pc = "remove_basic" /\ call'.ep = f
               /\ \A c \in Bridge : At(f, "port", c)' # None =>
                     /\ objs[f].oid["tunnel"] # t /\ objs[f].oid["term"] # t
                     /\ \A m \in Entries : At(f, m, c)' = At(f, m, c) /\ At(f, m, c).oid # t
    <3>1. objs[f] # None /\ objs'[f].oid = objs[f].oid
        BY <1>3, <2>1
    <3>2. objs[f].oid["tunnel"] # t /\ objs[f].oid["term"] # t
      <4>1. objs[f].oid["tunnel"][1] = "tunnel" /\ objs[f].oid["term"][1] = "term"
          BY <3>1 DEF TunnelInv, OidsOfKind, Basic
      <4> QED BY <1>5, <4>1
    <3>3. ASSUME NEW c \in Bridge, At(f, "port", c)' # None, NEW m \in Entries
          PROVE  At(f, m, c).oid # t
      <4>1. At(f, "port", c) # None
          BY <1>6, <3>3
      <4>2. m \in Member /\ At(f, m, c) # None
          BY <3>1, <4>1 DEF TunnelInv, PortsCarryTraffic, Entries, Member
      <4>3. SUFFICES ASSUME At(f, m, c).oid = t PROVE FALSE
          OBVIOUS
      <4>4. m = "encap_entry"
          BY <1>5, <3>1, <4>2, <4>3 DEF TunnelInv, OidsOfKind
      <4>5. f = ep /\ c = b
          BY <1>1, <1>5, <3>1, <4>2, <4>3, <4>4 DEF TunnelInv, RecordedOnce
      <4> QED BY <1>1, <4>1, <4>5
    <3> QED BY <1>3, <1>6, <3>1, <3>2, <3>3, call.pc = "remove"
  <2> QED BY <1>3, <2>1 DEF Shrinks
<1>8. /\ OidsOfKind' /\ RecordedOnce' /\ UsesLive' /\ RecordsHold' /\ PortsCarryTraffic'
      /\ sai' \in [Oid -> SaiObject \cup {None}]
      /\ \A x \in Oid : sai'[x] = IF x = t THEN None ELSE sai[x]
  <2>1. \A k \in Kind : call'.made[k] # None => call'.made[k][1] = k
      BY <1>4 DEF TunnelInv, OidsOfKind
  <2> QED BY <1>5, <1>7, <2>1, Shrunk
<1>9. TunnelTypeOK'
  <2>1. <<"decap_entry">> \in Seq(Kind) /\ call' = [call EXCEPT !.todo = <<"decap_entry">>]
    <3>1. Tail(call.todo) = <<"decap_entry">>
        BY <1>1
    <3>2. "decap_entry" \in Kind
        BY DEF Kind, Member
    <3>3. <<"decap_entry">> \in Seq(Kind)
        BY <3>2
    <3> QED BY <1>3, <3>1, <3>3
  <2>2. call' \in [pc : Kind \cup {"idle", "rollback", "remove", "remove_basic"},
                   ep : Endpoint \cup {None}, bridge : Bridge \cup {None},
                   vni : Vni \cup {None}, made : [Kind -> Oid \cup {None}], todo : Seq(Kind)]
      BY <2>1 DEF TunnelInv, TunnelTypeOK
  <2> QED BY <1>3, <1>8, <2>2 DEF TunnelInv, TunnelTypeOK
<1>10. (Making /\ Joining /\ Undoing /\ RemovingTunnel)'
    BY <1>4 DEF Making, Joining, Undoing, RemovingTunnel, Basic, Member
<1>11. Removing'
    BY <1>0, <1>3, <1>4 DEF TunnelInv, Removing
<1>12. RemovingEntries'
  <2>1. sai'[t] = None
      BY <1>5, <1>8
  <2> QED BY <1>0, <1>3, <1>4, <1>6, <2>1 DEF TunnelInv, RemovingEntries
<1>13. AllKnown'
    BY <1>3, <1>4, <1>6, <1>8 DEF TunnelInv, AllKnown
<1> QED BY <1>8, <1>9, <1>10, <1>11, <1>12, <1>13 DEF TunnelInv

\* A removal takes the last entry from the bridge; the tunnel follows with the
\* last bridge.
LEMMA EntriesRemovedStep ==
    ASSUME TunnelInv, RemoveStep, call.pc = "remove", Len(call.todo) = 1
    PROVE  TunnelInv'
<1> USE TunnelAssumption
<1>0. PICK t, ep, b : t = call.made["decap_entry"] /\ ep = call.ep /\ b = call.bridge
    OBVIOUS
<1>1. /\ call.todo = <<"decap_entry">>
      /\ ep \in Endpoint /\ b \in Bridge /\ objs[ep] # None
      /\ At(ep, "port", b) = None
      /\ At(ep, "decap_entry", b) # None /\ t = At(ep, "decap_entry", b).oid
      /\ At(ep, "encap_entry", b) # None /\ sai[At(ep, "encap_entry", b).oid] = None
  <2>1. call.todo # <<"encap_entry", "decap_entry">>
      OBVIOUS
  <2> QED BY <1>0, <2>1 DEF TunnelInv, Removing, RemovingEntries, Entries
<1>2. Doomed = t
  <2>1. Head(<<"decap_entry">>) = "decap_entry"
      OBVIOUS
  <2> QED BY <1>0, <1>1, <2>1 DEF Doomed, Turn
<1> DEFINE rest == <<"term", "tunnel", "decap_map", "encap_map">>
<1>3. /\ sai' = [sai EXCEPT ![t] = None] /\ sai[t] # None /\ ~InUse(t)
      /\ UNCHANGED broken /\ left' = left \ {t}
      /\ objs' = Erased(ep, Entries, b)
      /\ call' = IF LastPort(ep) THEN [call EXCEPT !.pc = "remove_basic", !.todo = rest] ELSE Idle
    BY <1>0, <1>1, <1>2 DEF RemoveStep, Removable, EntriesRemoved, Entries
<1>4. t \in Oid /\ t[1] = "decap_entry" /\ "decap_entry" \in Member
    BY <1>1, TunnelTypes DEF TunnelInv, OidsOfKind, Member
<1>5. /\ objs' \in [Endpoint -> {None} \cup TunnelObj]
      /\ \A f \in Endpoint : objs'[f] # None <=> objs[f] # None
      /\ \A f \in Endpoint : objs[f] # None => objs'[f].oid = objs[f].oid
      /\ \A f \in Endpoint, m \in Member, c \in Bridge : objs[f] # None =>
            At(f, m, c)' = IF f = ep /\ m \in Entries /\ c = b THEN None ELSE At(f, m, c)
  <2>1. TunnelTypeOK /\ Entries \in SUBSET Member
      BY DEF TunnelInv, Entries, Member
  <2>2. PICK ms \in SUBSET Member : ms = Entries
      BY <2>1
  <2>3. ep \in Endpoint /\ b \in Bridge /\ objs[ep] # None /\ objs' = Erased(ep, ms, b)
      BY <1>1, <1>3, <2>2
  <2>4. /\ objs' \in [Endpoint -> {None} \cup TunnelObj]
        /\ \A f \in Endpoint : objs'[f] # None <=> objs[f] # None
        /\ \A f \in Endpoint : objs[f] # None => objs'[f].oid = objs[f].oid
        /\ \A f \in Endpoint, m \in Member, c \in Bridge : objs[f] # None =>
              At(f, m, c)' = IF f = ep /\ m \in ms /\ c = b THEN None ELSE At(f, m, c)
      BY <2>1, <2>3, Erasing, SMTT(30)
  <2> QED BY <2>2, <2>4
<1>6. /\ rest = <<"term", "tunnel", "decap_map", "encap_map">> /\ rest \in Seq(Kind)
      /\ "port" \in Member /\ "port" \notin Entries /\ Entries \subseteq Member
    BY DEF Kind, Basic, Member, Entries
<1> HIDE DEF rest
<1>7. \/ call' = Idle
      \/ /\ LastPort(ep)
         /\ call' = [call EXCEPT !.pc = "remove_basic", !.todo = rest]
         /\ call'.pc = "remove_basic" /\ call'.ep = ep /\ call'.bridge = b
         /\ call'.made = call.made /\ call'.todo = rest
    BY <1>0, <1>3 DEF TunnelInv, TunnelTypeOK
<1>8. Shrinks(t)
  <2>1. ASSUME NEW f \in Endpoint, objs'[f] # None
        PROVE  /\ objs[f] # None /\ objs'[f].oid = objs[f].oid
               /\ \A m \in Member, c \in Bridge : At(f, m, c)' # None => At(f, m, c)' = At(f, m, c)
               /\ f \notin broken' =>
                     /\ f \notin broken
                     /\ objs[f].oid["term"] = t \/ (call.pc = "remove_basic" /\ call.ep = f)
                            => call'.pc = "remove_basic" /\ call'.ep = f
               /\ \A c \in Bridge : At(f, "port", c)' # None =>
                     /\ objs[f].oid["tunnel"] # t /\ objs[f].oid["term"] # t
                     /\ \A m \in Entries : At(f, m, c)' = At(f, m, c) /\ At(f, m, c).oid # t
    <3>1. objs[f] # None /\ objs'[f].oid = objs[f].oid
        BY <1>5, <2>1
    <3>2. objs[f].oid["tunnel"] # t /\ objs[f].oid["term"] # t
      <4>1. objs[f].oid["tunnel"][1] = "tunnel" /\ objs[f].oid["term"][1] = "term"
          BY <3>1 DEF TunnelInv, OidsOfKind, Basic
      <4> QED BY <1>4, <4>1
    <3>3. ASSUME NEW c \in Bridge, At(f, "port", c)' # None, NEW m \in Entries
          PROVE  At(f, m, c)' = At(f, m, c) /\ At(f, m, c).oid # t
      <4>1. At(f, "port", c) # None
          BY <1>5, <1>6, <3>1, <3>3
      <4>2. m \in Member /\ At(f, m, c) # None
          BY <3>1, <4>1 DEF TunnelInv, PortsCarryTraffic, Entries, Member
      <4>3. ~(f = ep /\ c = b)
          BY <1>1, <4>1
      <4>4. At(f, m, c)' = At(f, m, c)
          BY <1>5, <3>1, <4>2, <4>3
      <4>5. ASSUME At(f, m, c).oid = t PROVE FALSE
        <5>1. m = "decap_entry"
            BY <1>4, <3>1, <4>2, <4>5 DEF TunnelInv, OidsOfKind
        <5>2. f = ep /\ c = b
            BY <1>1, <1>4, <3>1, <4>2, <4>5, <5>1 DEF TunnelInv, RecordedOnce
        <5> QED BY <4>3, <5>2
      <4> QED BY <4>4, <4>5
    <3>4. \A m \in Member, c \in Bridge : At(f, m, c)' # None => At(f, m, c)' = At(f, m, c)
        BY <1>5, <3>1
    <3> QED BY <1>3, <3>1, <3>2, <3>3, <3>4, call.pc = "remove"
  <2> QED BY <1>3, <1>5, <2>1 DEF Shrinks
<1>9. /\ OidsOfKind' /\ RecordedOnce' /\ UsesLive' /\ RecordsHold' /\ PortsCarryTraffic'
      /\ sai' \in [Oid -> SaiObject \cup {None}]
      /\ \A x \in Oid : sai'[x] = IF x = t THEN None ELSE sai[x]
  <2>1. \A k \in Kind : call'.made[k] # None => call'.made[k][1] = k
    <3>1. CASE call' = Idle
        BY <3>1 DEF Idle
    <3>2. CASE call' # Idle
        BY <1>7, <3>2 DEF TunnelInv, OidsOfKind
    <3> QED BY <3>1, <3>2
  <2> QED BY <1>4, <1>8, <2>1, Shrunk
<1>10. TunnelTypeOK'
  <2>1. call' \in [pc : Kind \cup {"idle", "rollback", "remove", "remove_basic"},
                   ep : Endpoint \cup {None}, bridge : Bridge \cup {None},
                   vni : Vni \cup {None}, made : [Kind -> Oid \cup {None}], todo : Seq(Kind)]
    <3>1. CASE call' = Idle
        BY <3>1, IdleType
    <3>2. CASE call' # Idle
        BY <1>6, <1>7, <3>2 DEF TunnelInv, TunnelTypeOK
    <3> QED BY <3>1, <3>2
  <2> QED BY <1>3, <1>5, <1>9, <2>1 DEF TunnelInv, TunnelTypeOK
<1>11. call'.pc = "idle" \/ call'.pc = "remove_basic"
    BY <1>7 DEF Idle
<1>12. (Making /\ Joining /\ Undoing /\ RemovingEntries)'
    BY <1>11 DEF Making, Joining, Undoing, RemovingEntries, Basic, Member
<1>13. Removing' /\ RemovingTunnel'
  <2>1. CASE call' = Idle
      BY <2>1 DEF Idle, Removing, RemovingTunnel
  <2>2. CASE call' # Idle
    <3>1. /\ LastPort(ep)
          /\ call'.pc = "remove_basic" /\ call'.ep = ep /\ call'.bridge = b
          /\ call'.made = call.made /\ call'.todo = <<"term", "tunnel", "decap_map", "encap_map">>
        BY <1>6, <1>7, <2>2
    <3>2. \A k \in Basic : call.made[k] = objs[ep].oid[k]
        BY <1>0 DEF TunnelInv, Removing
    <3>3. Removing'
        BY <1>1, <1>5, <3>1, <3>2 DEF Removing
    <3>4. LastPort(ep)'
        BY <1>1, <1>5, <1>6, <3>1 DEF LastPort
    <3> QED BY <3>1, <3>3, <3>4 DEF RemovingTunnel
  <2> QED BY <2>1, <2>2
<1>14. AllKnown'
  <2> SUFFICES ASSUME NEW x \in Oid \ left', sai'[x] # None, x[1] \notin Maps
               PROVE  OnRecord(x)'
      BY DEF AllKnown
  <2>1. x # t /\ sai[x] # None /\ x \in Oid \ left
      BY <1>3, <1>9
  <2>2. OnRecord(x)
      BY <2>1 DEF TunnelInv, AllKnown
  <2>3. PICK f \in Endpoint : /\ objs[f] # None
                              /\ \/ \E k \in Basic : objs[f].oid[k] = x
                                 \/ \E m \in Member, c \in Bridge : At(f, m, c) # None /\ At(f, m, c).oid = x
      BY <2>2 DEF OnRecord
  <2>4. CASE \E k \in Basic : objs[f].oid[k] = x
      BY <1>5, <2>3, <2>4 DEF OnRecord
  <2>5. ASSUME NEW m \in Member, NEW c \in Bridge, At(f, m, c) # None, At(f, m, c).oid = x
        PROVE  OnRecord(x)'
    <3>1. ~(f = ep /\ m \in Entries /\ c = b)
        BY <1>1, <2>1, <2>5 DEF Entries
    <3>2. At(f, m, c)' = At(f, m, c) /\ objs'[f] # None
        BY <1>5, <2>3, <3>1
    <3> QED BY <2>5, <3>2 DEF OnRecord
  <2> QED BY <2>3, <2>4, <2>5
<1> QED BY <1>9, <1>10, <1>12, <1>13, <1>14 DEF TunnelInv

\* A removal takes one object of the tunnel, and there are others to take.
LEMMA RemoveBasicStep ==
    ASSUME TunnelInv, RemoveStep, call.pc = "remove_basic", Len(call.todo) > 1
    PROVE  TunnelInv'
<1> USE TunnelAssumption
<1>0. PICK j, t, ep : j = Turn /\ t = Doomed /\ ep = call.ep
    OBVIOUS
<1>1. /\ ep \in Endpoint /\ objs[ep] # None /\ LastPort(ep)
      /\ \A k \in Basic : call.made[k] = objs[ep].oid[k]
    BY <1>0 DEF TunnelInv, Removing, RemovingTunnel
<1>2. /\ sai' = [sai EXCEPT ![t] = None] /\ sai[t] # None /\ ~InUse(t)
      /\ UNCHANGED <<objs, broken>> /\ left' = left \ {t}
      /\ call' = [call EXCEPT !.todo = Tail(call.todo)]
  <2>1. Len(call.todo) # 1
    <3>1. \A n \in Nat : n > 1 => n # 1
        OBVIOUS
    <3>2. Len(call.todo) \in Nat
        BY TunnelTypes DEF TunnelInv
    <3> QED BY <3>1, <3>2
  <2> QED BY <1>0, <2>1 DEF RemoveStep, Removable
<1>3. /\ call'.pc = "remove_basic" /\ call'.ep = ep /\ call'.bridge = call.bridge
      /\ call'.made = call.made /\ call'.todo = Tail(call.todo)
    BY <1>0, <1>2 DEF TunnelInv, TunnelTypeOK
<1>4. \/ /\ j = "term" /\ call'.todo = <<"tunnel", "decap_map", "encap_map">>
      \/ /\ j = "tunnel" /\ call'.todo = <<"decap_map", "encap_map">>
         /\ sai[call.made["term"]] = None
      \/ /\ j = "decap_map" /\ call'.todo = <<"encap_map">>
         /\ sai[call.made["term"]] = None /\ sai[call.made["tunnel"]] = None
  <2>1. \/ call.todo = <<"term", "tunnel", "decap_map", "encap_map">>
        \/ /\ call.todo = <<"tunnel", "decap_map", "encap_map">>
           /\ sai[call.made["term"]] = None
        \/ /\ call.todo = <<"decap_map", "encap_map">>
           /\ sai[call.made["term"]] = None /\ sai[call.made["tunnel"]] = None
    <3>0. Len(<<"encap_map">>) = 1 /\ ~(1 > 1)
        OBVIOUS
    <3>1. call.todo # <<"encap_map">>
        BY <3>0
    <3> QED BY <3>1 DEF TunnelInv, RemovingTunnel
  <2>2. CASE call.todo = <<"term", "tunnel", "decap_map", "encap_map">>
      BY <1>0, <1>3, <2>2 DEF Turn
  <2>3. CASE call.todo = <<"tunnel", "decap_map", "encap_map">> /\ sai[call.made["term"]] = None
      BY <1>0, <1>3, <2>3 DEF Turn
  <2>4. CASE /\ call.todo = <<"decap_map", "encap_map">>
             /\ sai[call.made["term"]] = None /\ sai[call.made["tunnel"]] = None
      BY <1>0, <1>3, <2>4 DEF Turn
  <2> QED BY <2>1, <2>2, <2>3, <2>4
<1>5. /\ j \in Basic /\ t = call.made[j] /\ t = objs[ep].oid[j] /\ t \in Oid /\ t[1] = j
      /\ \A k \in Basic : call.made[k] \in Oid
  <2>1. j \in Basic
      BY <1>4 DEF Basic
  <2>2. t = call.made[j]
      BY <1>0 DEF Doomed
  <2> QED BY <1>1, <2>1, <2>2, TunnelTypes DEF TunnelInv, OidsOfKind
<1>6. /\ \A e, m, c : At(e, m, c)' = At(e, m, c)
      /\ \A x : OnRecord(x)' <=> OnRecord(x)
    BY <1>2 DEF At, OnRecord
<1>7. Shrinks(t)
  <2>1. ASSUME NEW f \in Endpoint, objs'[f] # None
        PROVE  /\ objs[f] # None /\ objs'[f].oid = objs[f].oid
               /\ \A m \in Member, c \in Bridge : At(f, m, c)' # None => At(f, m, c)' = At(f, m, c)
               /\ f \notin broken' =>
                     /\ f \notin broken
                     /\ objs[f].oid["term"] = t \/ (call.pc = "remove_basic" /\ call.ep = f)
                            => call'.pc = "remove_basic" /\ call'.ep = f
               /\ \A c \in Bridge : At(f, "port", c)' # None =>
                     /\ objs[f].oid["tunnel"] # t /\ objs[f].oid["term"] # t
                     /\ \A m \in Entries : At(f, m, c)' = At(f, m, c) /\ At(f, m, c).oid # t
    <3>1. objs[f] # None /\ objs'[f].oid = objs[f].oid
        BY <1>2, <2>1
    <3>2. /\ objs[f].oid["tunnel"] = t => f = ep
          /\ objs[f].oid["term"] = t => f = ep
      <4>1. objs[f].oid["tunnel"][1] = "tunnel" /\ objs[f].oid["term"][1] = "term"
          BY <3>1 DEF TunnelInv, OidsOfKind, Basic
      <4>2. \A k \in Basic : objs[f].oid[k] = objs[ep].oid[k] => f = ep
          BY <1>1, <3>1 DEF TunnelInv, RecordedOnce
      <4> QED BY <1>5, <4>1, <4>2 DEF Basic
    <3>3. ASSUME NEW c \in Bridge, At(f, "port", c)' # None
          PROVE  f # ep /\ \A m \in Entries : At(f, m, c).oid # t
      <4>1. At(f, "port", c) # None /\ f # ep
          BY <1>1, <1>6, <3>3 DEF LastPort
      <4>2. ASSUME NEW m \in Entries
            PROVE  At(f, m, c).oid # t
        <5>1. m \in Member /\ m \notin Basic /\ At(f, m, c) # None
            BY <3>1, <4>1 DEF TunnelInv, PortsCarryTraffic, Entries, Member, Basic
        <5>2. At(f, m, c).oid[1] = m
            BY <3>1, <5>1 DEF TunnelInv, OidsOfKind
        <5> QED BY <1>5, <5>1, <5>2
      <4> QED BY <4>1, <4>2
    <3>4. \A m, c : At(f, m, c)' = At(f, m, c)
        BY <1>6
    <3>5. f \notin broken' =>
              /\ f \notin broken
              /\ objs[f].oid["term"] = t \/ (call.pc = "remove_basic" /\ call.ep = f)
                     => call'.pc = "remove_basic" /\ call'.ep = f
        BY <1>0, <1>2, <1>3, <3>2
    <3> QED BY <3>1, <3>2, <3>3, <3>4, <3>5
  <2> QED BY <1>2, <2>1 DEF Shrinks
<1>8. /\ OidsOfKind' /\ RecordedOnce' /\ UsesLive' /\ RecordsHold' /\ PortsCarryTraffic'
      /\ sai' \in [Oid -> SaiObject \cup {None}]
      /\ \A x \in Oid : sai'[x] = IF x = t THEN None ELSE sai[x]
  <2>1. \A k \in Kind : call'.made[k] # None => call'.made[k][1] = k
      BY <1>3 DEF TunnelInv, OidsOfKind
  <2> QED BY <1>5, <1>7, <2>1, Shrunk
<1>9. TunnelTypeOK'
  <2>1. Tail(call.todo) \in Seq(Kind)
    <3>0. Len(<<>>) = 0 /\ ~(0 > 1) /\ ~(1 > 1)
        OBVIOUS
    <3>1. call.todo \in Seq(Kind) /\ call.todo # <<>> /\ Len(call.todo) # 1
        BY <3>0, TunnelTypes DEF TunnelInv
    <3> QED BY <3>1, TailFacts
  <2>2. call' \in [pc : Kind \cup {"idle", "rollback", "remove", "remove_basic"},
                   ep : Endpoint \cup {None}, bridge : Bridge \cup {None},
                   vni : Vni \cup {None}, made : [Kind -> Oid \cup {None}], todo : Seq(Kind)]
      BY <1>2, <2>1 DEF TunnelInv, TunnelTypeOK
  <2> QED BY <1>2, <1>8, <2>2 DEF TunnelInv, TunnelTypeOK
<1>10. (Making /\ Joining /\ Undoing /\ RemovingEntries)'
    BY <1>3 DEF Making, Joining, Undoing, RemovingEntries, Basic, Member
<1>11. Removing'
    BY <1>0, <1>2, <1>3 DEF TunnelInv, Removing
<1>12. RemovingTunnel'
  <2>1. LastPort(ep)'
      BY <1>1, <1>6 DEF LastPort
  <2>2. /\ sai'[call.made[j]] = None
        /\ \A k \in Basic : sai[call.made[k]] = None => sai'[call.made[k]] = None
      BY <1>5, <1>8
  <2> QED BY <1>3, <1>4, <2>1, <2>2 DEF RemovingTunnel, Basic
<1>13. AllKnown'
    BY <1>2, <1>3, <1>6, <1>8 DEF TunnelInv, AllKnown
<1> QED BY <1>8, <1>9, <1>10, <1>11, <1>12, <1>13 DEF TunnelInv

\* A removal takes the last object of the tunnel, and the endpoint is gone.
LEMMA TunnelRemovedStep ==
    ASSUME TunnelInv, RemoveStep, call.pc = "remove_basic", Len(call.todo) = 1
    PROVE  TunnelInv'
<1> USE TunnelAssumption
<1>0. PICK t, ep : t = Doomed /\ ep = call.ep
    OBVIOUS
<1>1. /\ ep \in Endpoint /\ objs[ep] # None /\ LastPort(ep)
      /\ \A k \in Basic : call.made[k] = objs[ep].oid[k]
    BY <1>0 DEF TunnelInv, Removing, RemovingTunnel
<1>2. /\ sai' = [sai EXCEPT ![t] = None] /\ sai[t] # None /\ ~InUse(t)
      /\ objs' = [objs EXCEPT ![ep] = None] /\ call' = Idle /\ broken' = broken \ {ep}
      /\ left' = left \ {t}
    BY <1>0 DEF RemoveStep, Removable, TunnelRemoved
<1>3. /\ call.todo = <<"encap_map">>
      /\ sai[objs[ep].oid["term"]] = None /\ sai[objs[ep].oid["tunnel"]] = None
      /\ sai[objs[ep].oid["decap_map"]] = None
  <2>1. /\ call.todo # <<"term", "tunnel", "decap_map", "encap_map">>
        /\ call.todo # <<"tunnel", "decap_map", "encap_map">>
        /\ call.todo # <<"decap_map", "encap_map">>
      OBVIOUS
  <2> QED BY <1>1, <2>1 DEF TunnelInv, RemovingTunnel, Basic
<1>4. t = objs[ep].oid["encap_map"] /\ t \in Oid /\ t[1] = "encap_map"
  <2>1. t = call.made["encap_map"]
      BY <1>0, <1>3 DEF Doomed, Turn
  <2> QED BY <1>1, <2>1, TunnelTypes DEF TunnelInv, OidsOfKind, Basic
<1>5. /\ objs'[ep] = None
      /\ \A f \in Endpoint : f # ep => objs'[f] = objs[f] /\ \A m, c : At(f, m, c)' = At(f, m, c)
      /\ objs' \in [Endpoint -> {None} \cup TunnelObj]
    BY <1>1, <1>2 DEF TunnelInv, TunnelTypeOK, At
<1>6. Shrinks(t)
  <2>1. ASSUME NEW f \in Endpoint, objs'[f] # None
        PROVE  /\ objs[f] # None /\ objs'[f].oid = objs[f].oid
               /\ \A m \in Member, c \in Bridge : At(f, m, c)' # None => At(f, m, c)' = At(f, m, c)
               /\ f \notin broken' =>
                     /\ f \notin broken
                     /\ objs[f].oid["term"] = t \/ (call.pc = "remove_basic" /\ call.ep = f)
                            => call'.pc = "remove_basic" /\ call'.ep = f
               /\ \A c \in Bridge : At(f, "port", c)' # None =>
                     /\ objs[f].oid["tunnel"] # t /\ objs[f].oid["term"] # t
                     /\ \A m \in Entries : At(f, m, c)' = At(f, m, c) /\ At(f, m, c).oid # t
    <3>1. f # ep /\ objs[f] # None /\ objs'[f] = objs[f] /\ \A m, c : At(f, m, c)' = At(f, m, c)
        BY <1>5, <2>1
    <3>2. objs[f].oid["tunnel"] # t /\ objs[f].oid["term"] # t
      <4>1. objs[f].oid["tunnel"][1] = "tunnel" /\ objs[f].oid["term"][1] = "term"
          BY <3>1 DEF TunnelInv, OidsOfKind, Basic
      <4> QED BY <1>4, <4>1
    <3>3. ASSUME NEW c \in Bridge, At(f, "port", c)' # None, NEW m \in Entries
          PROVE  At(f, m, c).oid # t
      <4>1. m \in Member /\ m # "encap_map" /\ At(f, "port", c) # None
          BY <3>1, <3>3 DEF Entries, Member
      <4>2. At(f, m, c) # None
          BY <3>1, <4>1 DEF TunnelInv, PortsCarryTraffic, Entries
      <4>3. At(f, m, c).oid[1] = m
          BY <3>1, <4>1, <4>2 DEF TunnelInv, OidsOfKind
      <4> QED BY <1>4, <4>1, <4>3
    <3> QED BY <1>0, <1>2, <3>1, <3>2, <3>3
  <2>2. ASSUME NEW f \in Endpoint, objs[f] # None, objs'[f] = None
        PROVE  sai'[objs[f].oid["tunnel"]] = None
    <3>1. f = ep
        BY <1>5, <2>2
    <3>2. objs[ep].oid["tunnel"] \in Oid
        BY <1>1, TunnelTypes DEF TunnelInv, Basic
    <3> QED BY <1>2, <1>3, <1>4, <3>1, <3>2 DEF TunnelInv, TunnelTypeOK
  <2> QED BY <1>2, <2>1, <2>2 DEF Shrinks
<1>7. /\ OidsOfKind' /\ RecordedOnce' /\ UsesLive' /\ RecordsHold' /\ PortsCarryTraffic'
      /\ sai' \in [Oid -> SaiObject \cup {None}]
      /\ \A x \in Oid : sai'[x] = IF x = t THEN None ELSE sai[x]
  <2>1. \A k \in Kind : call'.made[k] # None => call'.made[k][1] = k
      BY <1>2 DEF Idle
  <2> QED BY <1>4, <1>6, <2>1, Shrunk
<1>8. TunnelTypeOK'
    BY <1>2, <1>5, <1>7, IdleType DEF TunnelInv, TunnelTypeOK
<1>9. (Making /\ Joining /\ Undoing /\ Removing /\ RemovingEntries /\ RemovingTunnel)'
  <2>1. call'.pc = "idle"
      BY <1>2 DEF Idle
  <2> QED BY <2>1 DEF Making, Joining, Undoing, Removing, RemovingEntries, RemovingTunnel, Basic, Member
<1>10. AllKnown'
  <2> SUFFICES ASSUME NEW x \in Oid \ left', sai'[x] # None, x[1] \notin Maps
               PROVE  OnRecord(x)'
      BY DEF AllKnown
  <2>1. x # t /\ sai[x] # None /\ x \in Oid \ left
      BY <1>2, <1>7
  <2>2. OnRecord(x)
      BY <2>1 DEF TunnelInv, AllKnown
  <2>3. PICK f \in Endpoint : /\ objs[f] # None
                              /\ \/ \E k \in Basic : objs[f].oid[k] = x
                                 \/ \E m \in Member, c \in Bridge : At(f, m, c) # None /\ At(f, m, c).oid = x
      BY <2>2 DEF OnRecord
  <2>4. CASE f # ep
      BY <1>5, <2>3, <2>4 DEF OnRecord
  <2>5. ASSUME f = ep, NEW k \in Basic, objs[f].oid[k] = x
        PROVE  FALSE
    <3>1. k \notin Maps
        BY <1>1, <2>5 DEF TunnelInv, OidsOfKind
    <3> QED BY <1>3, <2>1, <2>5, <3>1 DEF Basic, Maps
  <2>6. ASSUME f = ep, NEW m \in Member, NEW c \in Bridge, At(f, m, c) # None, At(f, m, c).oid = x
        PROVE  FALSE
    <3>1. m \in Entries
        BY <1>1, <2>6 DEF LastPort, Entries, Member
    <3>2. sai[x].uses = {objs[ep].oid[MapOf(m)]}
        BY <1>1, <2>1, <2>6, <3>1 DEF TunnelInv, RecordsHold
    <3>3. sai[objs[ep].oid[MapOf(m)]] # None
        BY <2>1, <3>2 DEF TunnelInv, UsesLive
    <3>4. MapOf(m) = "encap_map"
        BY <1>3, <3>3 DEF MapOf
    <3>5. InUse(t)
        BY <1>4, <2>1, <3>2, <3>4 DEF InUse
    <3> QED BY <1>2, <3>5
  <2> QED BY <2>3, <2>4, <2>5, <2>6
<1> QED BY <1>7, <1>8, <1>9, <1>10 DEF TunnelInv

LEMMA RemoveStepInv ==
    ASSUME TunnelInv, RemoveStep
    PROVE  TunnelInv'
<1>1. call.pc \in {"remove", "remove_basic"} /\ (Len(call.todo) > 1 \/ Len(call.todo) = 1)
    BY DEF RemoveStep
<1>2. CASE call.pc = "remove" /\ Len(call.todo) > 1
    BY <1>2, RemoveEntryStep
<1>3. CASE call.pc = "remove" /\ Len(call.todo) = 1
    BY <1>3, EntriesRemovedStep
<1>4. CASE call.pc = "remove_basic" /\ Len(call.todo) > 1
    BY <1>4, RemoveBasicStep
<1>5. CASE call.pc = "remove_basic" /\ Len(call.todo) = 1
    BY <1>5, TunnelRemovedStep
<1> QED BY <1>1, <1>2, <1>3, <1>4, <1>5

-----------------------------------------------------------------------------
(* What holds of tunnels in every behaviour.                               *)

LEMMA TunnelNextStep ==
    ASSUME TunnelInv, [TunnelNext]_tunnelVars
    PROVE  TunnelInv'
<1>1. CASE UNCHANGED tunnelVars
  <2>1. UNCHANGED <<sai, objs, call, left, broken>>
      BY <1>1 DEF tunnelVars
  <2>2. TunnelTypeOK' /\ OidsOfKind' /\ RecordedOnce' /\ UsesLive' /\ RecordsHold' /\ PortsCarryTraffic'
    <3>1. \A e, m, b : At(e, m, b)' = At(e, m, b)
        BY <2>1 DEF At
    <3>2. \A o : OnRecord(o)' <=> OnRecord(o)
        BY <2>1 DEF OnRecord, At
    <3>3. \A o, u, b, v : Holds(o, u, b, v)' <=> Holds(o, u, b, v)
        BY <2>1 DEF Holds
    <3>4. TunnelTypeOK'
        BY <2>1 DEF TunnelInv, TunnelTypeOK
    <3>5. /\ call'.made \in [Kind -> Oid \cup {None}]
          /\ \A k \in Kind : call'.made[k] # None => call'.made[k][1] = k
        BY <2>1, TunnelTypes DEF TunnelInv, OidsOfKind
    <3>6. /\ OidsOfKind' /\ RecordedOnce' /\ UsesLive' /\ RecordsHold' /\ PortsCarryTraffic'
          /\ \A o : OnRecord(o)' <=> OnRecord(o)
          /\ \A o, u, b, v : Holds(o, u, b, v)' <=> Holds(o, u, b, v)
          /\ \A e, m, b : At(e, m, b)' = At(e, m, b)
        BY <2>1, <3>5, SameRecords, SMTT(30)
    <3> QED BY <3>4, <3>6
  <2>3. Making' /\ Joining' /\ Undoing' /\ Removing' /\ RemovingEntries' /\ RemovingTunnel' /\ AllKnown'
    <3>1. Making'
        BY <2>1 DEF TunnelInv, Making, OnRecord, At, Holds
    <3>2. Joining'
        BY <2>1 DEF TunnelInv, Joining, Entered, At, Holds
    <3>3. Undoing'
        BY <2>1 DEF TunnelInv, Undoing, MayGo, OnRecord, At
    <3>4. Removing' /\ RemovingEntries'
        BY <2>1 DEF TunnelInv, Removing, RemovingEntries, At
    <3>5. RemovingTunnel'
        BY <2>1 DEF TunnelInv, RemovingTunnel, LastPort, At
    <3>6. AllKnown'
        BY <2>1 DEF TunnelInv, AllKnown, OnRecord, At
    <3> QED BY <3>1, <3>2, <3>3, <3>4, <3>5, <3>6
  <2> QED BY <2>2, <2>3 DEF TunnelInv
<1>2. CASE \E e \in Endpoint, b \in Bridge, v \in Vni : AddEndpoint(e, b, v)
    BY <1>2, AddStep
<1>3. CASE \E k \in Kind : Create(k) \/ CreateFailed(k)
    BY <1>3, CreateStep, CreateFailedStep
<1>4. CASE PortLeft
    BY <1>4, PortLeftStep
<1>5. CASE RollbackStep
    BY <1>5, RollbackStepInv
<1>6. CASE \E e \in Endpoint, b \in Bridge : RemoveEndpoint(e, b)
    BY <1>6, RemoveEndpointStep
<1>7. CASE RemoveStep
    BY <1>7, RemoveStepInv
<1>8. CASE RemoveStuck
    BY <1>8, RemoveStuckStep
<1> QED BY <1>1, <1>2, <1>3, <1>4, <1>5, <1>6, <1>7, <1>8 DEF TunnelNext

\* TunnelInv holds in every state that calls to add and to remove endpoints
\* can reach, whatever SAI calls fail.
THEOREM TunnelInvariance == TunnelSpec => []TunnelInv
<1>1. TunnelInit => TunnelInv
    BY TunnelInitInv
<1>2. TunnelInv /\ [TunnelNext]_tunnelVars => TunnelInv'
    BY TunnelNextStep
<1> QED BY <1>1, <1>2, PTL DEF TunnelSpec

\* The tunnel objects and the call under way keep their types.
THEOREM TunnelTypeCorrect == TunnelSpec => []TunnelTypeOK
<1>1. TunnelInv => TunnelTypeOK
    BY DEF TunnelInv
<1> QED BY <1>1, TunnelInvariance, PTL

\* An endpoint that has its bridge port on a bridge has a working tunnel
\* there, in every order of adds, removals and failures (NDI makes the port
\* last and removes it first).
THEOREM PortsAlwaysCarryTraffic == TunnelSpec => []PortsCarryTraffic
<1>1. TunnelInv => PortsCarryTraffic
    BY DEF TunnelInv
<1> QED BY <1>1, TunnelInvariance, PTL

\* Between calls, what is in SAI for endpoints is on record, except what SAI
\* failed to remove in a roll-back: the roll-backs and the two orders of
\* removal leave nothing else behind.
THEOREM NothingEverStray == TunnelSpec => []NothingStray
<1>1. TunnelInv => NothingStray
  <2> SUFFICES ASSUME TunnelInv, call = Idle, NEW o \in Oid \ left,
                      sai[o] # None, o[1] \notin {"encap_map", "decap_map"}
               PROVE  OnRecord(o)
      BY DEF NothingStray
  <2>1. call.pc = "idle"
      BY DEF Idle
  <2> QED BY <2>1 DEF TunnelInv, AllKnown, Maps
<1> QED BY <1>1, TunnelInvariance, PTL

-----------------------------------------------------------------------------
(* Router interfaces.                                                      *)

\* The inductive invariant.  A new object is not in SAI, so by HeldRifsExist
\* it has no entry and nobody holds it; by the same part the last reference
\* counted is the last one held.
RifInv ==
    /\ RifTypeOK
    /\ RifDbsAgree
    /\ HeldRifsExist
    /\ RefsAreHeld

-----------------------------------------------------------------------------
\* Nothing is known, held or in SAI at the start.
LEMMA RifInitInv == RifInit => RifInv
BY RifAssumption DEF RifInit, RifInv, RifTypeOK, RifDbsAgree, HeldRifsExist, RefsAreHeld

\* One more reference to a known interface.
LEMMA CreateKnownStep ==
    ASSUME RifInv, NEW k \in Key, CreateKnown(k)
    PROVE  RifInv'
<1> USE RifAssumption DEF RifInv, RifTypeOK
<1>1. entryDb[k] \in RifOid /\ refs[entryDb[k]] > 0
    BY DEF CreateKnown, RifDbsAgree
<1>2. RifTypeOK'
    BY <1>1 DEF CreateKnown
<1>3. RifDbsAgree'
    BY <1>1 DEF CreateKnown, RifDbsAgree
<1>4. HeldRifsExist'
    BY <1>1 DEF CreateKnown, HeldRifsExist
<1>5. RefsAreHeld'
    BY <1>1 DEF CreateKnown, RefsAreHeld
<1> QED BY <1>2, <1>3, <1>4, <1>5

\* A new interface, with or without a bridge port.
LEMMA CreateNewStep ==
    ASSUME RifInv, NEW k \in Key, NEW r \in RifOid, CreateNew(k, r),
           brports' \in [BrpOid -> RifOid \cup {None}],
           brpCache' \in [RifOid -> BrpOid \cup {None}]
    PROVE  RifInv'
<1> USE RifAssumption DEF RifInv, RifTypeOK
<1>1. refs[r] = 0 /\ held[r] = 0 /\ keyOf[r] = None
    BY DEF CreateNew, HeldRifsExist, RifDbsAgree
<1>2. RifTypeOK'
  <2>1. entryDb' \in [Key -> RifOid \cup {None}] /\ keyOf' \in [RifOid -> Key \cup {None}]
    BY DEF CreateNew, Record
  <2>2. refs' \in [RifOid -> Nat] /\ held' \in [RifOid -> Nat]
    BY DEF CreateNew, Record
  <2>3. rifs' \subseteq RifOid /\ lost' \subseteq RifOid
    BY DEF CreateNew
  <2> QED BY <2>1, <2>2, <2>3
<1>3. RifDbsAgree'
    BY <1>1 DEF CreateNew, Record, RifDbsAgree
<1>4. HeldRifsExist'
    BY <1>1 DEF CreateNew, Record, HeldRifsExist
<1>5. RefsAreHeld'
    BY <1>1 DEF CreateNew, Record, RefsAreHeld
<1> QED BY <1>2, <1>3, <1>4, <1>5

\* A create undone leaves at most an interface that SAI refused to remove.
LEMMA CreateRollbackStep ==
    ASSUME RifInv, NEW k \in Key, NEW r \in RifOid, CreateRollback(k, r)
    PROVE  RifInv'
<1> USE RifAssumption DEF RifInv, RifTypeOK
<1>1. brports' \in [BrpOid -> RifOid \cup {None}]
    BY DEF CreateRollback
<1>2. rifs \subseteq rifs' /\ rifs' \subseteq rifs \cup {r}
    BY DEF CreateRollback
<1>3. lost \subseteq lost' /\ lost' \subseteq RifOid /\ rifs' \ rifs \subseteq lost'
    BY DEF CreateRollback
<1>4. UNCHANGED <<entryDb, keyOf, refs, brpCache, held>>
    BY DEF CreateRollback
<1>5. RifTypeOK' /\ RifDbsAgree'
    BY <1>1, <1>2, <1>3, <1>4 DEF RifDbsAgree
<1>6. HeldRifsExist' /\ RefsAreHeld'
    BY <1>2, <1>3, <1>4 DEF HeldRifsExist, RefsAreHeld
<1> QED BY <1>5, <1>6

\* One reference less to an interface others hold.
LEMMA DeleteSharedStep ==
    ASSUME RifInv, NEW r \in RifOid, DeleteShared(r)
    PROVE  RifInv'
<1> USE RifAssumption DEF RifInv, RifTypeOK
<1>1. refs[r] > 1
    BY DEF DeleteShared, LastRef, HeldRifsExist
<1>2. RifTypeOK' /\ RifDbsAgree'
    BY <1>1 DEF DeleteShared, RifDbsAgree
<1>3. HeldRifsExist' /\ RefsAreHeld'
    BY <1>1 DEF DeleteShared, HeldRifsExist, RefsAreHeld
<1> QED BY <1>2, <1>3

\* Whatever the cache forgets, it and SAI keep their types.
LEMMA RouterPortGoneFacts ==
    ASSUME RifTypeOK, NEW r \in RifOid, RouterPortGone(r)
    PROVE  /\ brports' \in [BrpOid -> RifOid \cup {None}]
           /\ brpCache' \in [RifOid -> BrpOid \cup {None}]
BY RifAssumption DEF RifTypeOK, RouterPortGone

\* The last reference held is the last one counted, and the entry goes.
LEMMA DeleteLastStep ==
    ASSUME RifInv, NEW r \in RifOid, DeleteLast(r)
    PROVE  RifInv'
<1> USE RifAssumption DEF RifInv
<1>1. refs[r] = 1 /\ held[r] = 1 /\ keyOf[r] \in Key
    BY DEF DeleteLast, LastRef, HeldRifsExist, RifDbsAgree, RifTypeOK
<1>2. RifTypeOK'
    BY <1>1, RouterPortGoneFacts DEF DeleteLast, Forget, RifTypeOK
<1>3. RifDbsAgree'
    BY <1>1 DEF DeleteLast, Forget, RifDbsAgree, RifTypeOK
<1>4. HeldRifsExist'
    BY <1>1 DEF DeleteLast, Forget, HeldRifsExist, RifTypeOK
<1>5. RefsAreHeld'
    BY <1>1 DEF DeleteLast, Forget, RefsAreHeld, RifTypeOK
<1> QED BY <1>2, <1>3, <1>4, <1>5

\* The interface SAI keeps is kept in the maps, and is lost to the callers.
LEMMA DeleteLastFailsStep ==
    ASSUME RifInv, NEW r \in RifOid, DeleteLastFails(r)
    PROVE  RifInv'
<1> USE RifAssumption DEF RifInv
<1>1. RifTypeOK'
    BY RouterPortGoneFacts DEF DeleteLastFails, RifTypeOK
<1>2. RifDbsAgree'
    BY DEF DeleteLastFails, RifDbsAgree
<1>3. HeldRifsExist'
    BY DEF DeleteLastFails, HeldRifsExist, RifTypeOK
<1>4. RefsAreHeld'
    BY DEF DeleteLastFails, RefsAreHeld, RifTypeOK
<1> QED BY <1>1, <1>2, <1>3, <1>4

\* Every step keeps the invariant.
LEMMA RifNextStep == RifInv /\ [RifNext]_rifVars => RifInv'
<1> SUFFICES ASSUME RifInv, [RifNext]_rifVars PROVE RifInv'
    OBVIOUS
<1>1. CASE \E k \in Key : CreateKnown(k)
    BY <1>1, CreateKnownStep
<1>2. CASE \E k \in Key, r \in RifOid : CreatePlain(k, r)
    BY <1>2, CreateNewStep DEF CreatePlain, RifInv, RifTypeOK
<1>3. CASE \E k \in Key, r \in RifOid, b \in BrpOid : CreateBridged(k, r, b)
    BY <1>3, CreateNewStep DEF CreateBridged, RifInv, RifTypeOK
<1>4. CASE \E k \in Key, r \in RifOid : CreateRollback(k, r)
    BY <1>4, CreateRollbackStep
<1>5. CASE \E r \in RifOid : DeleteShared(r)
    BY <1>5, DeleteSharedStep
<1>6. CASE \E r \in RifOid : DeleteLast(r)
    BY <1>6, DeleteLastStep
<1>7. CASE \E r \in RifOid : DeleteLastFails(r)
    BY <1>7, DeleteLastFailsStep
<1>8. CASE UNCHANGED rifVars
    BY <1>8 DEF rifVars, RifInv, RifTypeOK, RifDbsAgree, HeldRifsExist, RefsAreHeld
<1> QED BY <1>1, <1>2, <1>3, <1>4, <1>5, <1>6, <1>7, <1>8 DEF RifNext

\* RifInv holds in every state of every instance.
THEOREM RifInvariance == RifSpec => []RifInv
    BY RifInitInv, RifNextStep, PTL DEF RifSpec

\* The maps, the cache and SAI hold interfaces and bridge ports only, and
\* counts are natural numbers: no deletion takes one below zero.
THEOREM RifTypeCorrect == RifSpec => []RifTypeOK
    BY RifInvariance, PTL DEF RifInv

\* The two maps of the database hold the same interfaces.
THEOREM RifDbsAlwaysAgree == RifSpec => []RifDbsAgree
    BY RifInvariance, PTL DEF RifInv

\* An interface some caller was given is in SAI, whoever deletes what.
THEOREM HeldRifsAlwaysExist == RifSpec => []HeldRifsExist
    BY RifInvariance, PTL DEF RifInv

\* The count is the references held unless SAI refused a removal.
THEOREM RefsAlwaysHeld == RifSpec => []RefsAreHeld
    BY RifInvariance, PTL DEF RifInv

-----------------------------------------------------------------------------
(* Mirroring.                                                              *)

\* The inductive invariant: the lists have their types, and every key that no
\* refusal has parted is settled.
MirrorInv == MirrorTypeOK /\ MirroredAsTold

LEMMA MirrorInitInv == MirrorInit => MirrorInv
<1> SUFFICES ASSUME MirrorInit PROVE MirrorInv
    OBVIOUS
<1>1. MirrorTypeOK
  <2>1. <<>> \in Seq(Session)
      OBVIOUS
  <2> QED BY <2>1 DEF MirrorInit, MirrorTypeOK
<1>2. ToSet(<<>>) = {}
    BY DEF ToSet
<1>3. MirroredAsTold
    BY <1>2 DEF MirrorInit, MirroredAsTold, Settled
<1> QED BY <1>1, <1>3 DEF MirrorInv

\* A change of the sessions alone.
LEMMA SessionsStep ==
    ASSUME MirrorInv, session' \in [Session -> Destination \cup {None}],
           UNCHANGED <<list, mirrored, told, apart>>
    PROVE  MirrorInv'
BY DEF MirrorInv, MirrorTypeOK, MirroredAsTold, Settled

\* What the list of a port is after a change, and after the change is undone.
LEMMA ListAfterFacts ==
    ASSUME NEW l \in Seq(Session), NEW s \in Session, NEW enable \in BOOLEAN
    PROVE  /\ ListAfter(l, s, enable) \in Seq(Session)
           /\ ToSet(ListAfter(l, s, enable)) =
                  IF enable THEN ToSet(l) \cup {s} ELSE ToSet(l) \ {s}
<1>1. Len(l) \in Nat /\ DOMAIN l = 1 .. Len(l)
    OBVIOUS
<1>2. Contains(l, s) <=> s \in ToSet(l)
    BY <1>1 DEF Contains, ToSet
<1>3. CASE enable /\ Contains(l, s)
  <2>1. ListAfter(l, s, enable) = l
      BY <1>3 DEF ListAfter
  <2> QED BY <1>2, <1>3, <2>1
<1>4. CASE enable /\ ~Contains(l, s)
  <2>1. ListAfter(l, s, enable) = Append(l, s)
      BY <1>4 DEF ListAfter
  <2>2. /\ Append(l, s) \in Seq(Session)
        /\ DOMAIN Append(l, s) = 1 .. Len(l) + 1
        /\ \A i \in 1 .. Len(l) : Append(l, s)[i] = l[i]
        /\ Append(l, s)[Len(l) + 1] = s
      BY Appended
  <2>3. ToSet(Append(l, s)) = ToSet(l) \cup {s}
    <3>1. 1 .. Len(l) + 1 = (1 .. Len(l)) \cup {Len(l) + 1}
        BY <1>1
    <3> HIDE <2>1
    <3> QED BY <1>1, <2>2, <3>1 DEF ToSet
  <2> QED BY <1>4, <2>1, <2>2, <2>3
<1>5. CASE ~enable
  <2>1. ListAfter(l, s, enable) = Only(l, ToSet(l) \ {s})
      BY <1>5 DEF ListAfter
  <2>2. /\ Only(l, ToSet(l) \ {s}) \in Seq(Session)
        /\ ToSet(Only(l, ToSet(l) \ {s})) = ToSet(l) \cap (ToSet(l) \ {s})
      BY OnlyFacts
  <2> QED BY <1>5, <2>1, <2>2
<1> QED BY <1>3, <1>4, <1>5

\* The keys a step has parted are set apart: the others are settled if they
\* were, and those that the step settled by its success.
LEMMA ApartFacts ==
    ASSUME MirrorInv, NEW ks \in SUBSET MirrorKey, Apart(ks),
           \A k \in MirrorKey \ (apart \cup ks) : Settled(k)'
    PROVE  MirroredAsTold' /\ apart' \subseteq MirrorKey
<1>1. apart' = {k \in apart \cup ks : ~Settled(k)'}
    BY DEF Apart
<1>2. apart' \subseteq MirrorKey
    BY <1>1 DEF MirrorInv, MirrorTypeOK
<1>3. \A k \in MirrorKey : k \notin apart' => Settled(k)'
    BY <1>1
<1> QED BY <1>2, <1>3 DEF MirroredAsTold

\* A port's list after a call, whatever SAI says.
LEMMA UpdateDirectionStep ==
    ASSUME MirrorInv, NEW s \in Session, NEW k \in MirrorKey, NEW enable \in BOOLEAN,
           UpdateDirection(s, k, enable)
    PROVE  MirrorInv'
<1> USE DEF MirrorInv, MirrorTypeOK
<1> DEFINE l == list[k]
<1>1. PICK after : after = ListAfter(list[k], s, enable)
    OBVIOUS
<1>2. list[k] \in Seq(Session)
    OBVIOUS
<1>3. /\ after \in Seq(Session)
      /\ ToSet(after) = IF enable THEN ToSet(list[k]) \cup {s} ELSE ToSet(list[k]) \ {s}
    BY <1>1, <1>2, ListAfterFacts
<1>4. Len(list[k]) \in Nat /\ DOMAIN list[k] = 1 .. Len(list[k])
    BY <1>2
<1>5. Contains(list[k], s) <=> s \in ToSet(list[k])
    BY <1>4 DEF Contains, ToSet
<1>6. /\ session' = session
      /\ enable \/ Contains(list[k], s)
      /\ \/ /\ list' = [list EXCEPT ![k] = after]
            /\ told' = ToldAfter(k, s, enable)
            /\ UNCHANGED mirrored
            /\ Apart({k})
         \/ /\ list' = [list EXCEPT ![k] = after]
            /\ mirrored' = [mirrored EXCEPT ![k] = ToSet(after)]
            /\ told' = ToldAfter(k, s, enable)
            /\ Apart({})
         \/ /\ list' = [list EXCEPT ![k] = RolledBack(after, s, enable)]
            /\ UNCHANGED <<mirrored, told>>
            /\ Apart(IF enable /\ Contains(list[k], s) THEN {k} ELSE {})
    BY <1>1 DEF UpdateDirection
<1>7. \A x \in MirrorKey \ apart : ToSet(list[x]) = mirrored[x] /\ told[x] = mirrored[x]
    BY DEF MirroredAsTold, Settled
<1>8. CASE /\ list' = [list EXCEPT ![k] = after]
           /\ told' = ToldAfter(k, s, enable)
           /\ UNCHANGED mirrored
           /\ Apart({k})
  <2>1. \A x \in MirrorKey \ {k} : list'[x] = list[x] /\ told'[x] = told[x] /\ mirrored'[x] = mirrored[x]
      BY <1>8 DEF ToldAfter
  <2>2. \A x \in MirrorKey \ (apart \cup {k}) : Settled(x)'
      BY <1>7, <2>1 DEF Settled
  <2>3. MirroredAsTold' /\ apart' \subseteq MirrorKey
    <3>1. {k} \in SUBSET MirrorKey /\ Apart({k})
        BY <1>8
    <3> QED BY <2>2, <3>1, ApartFacts
  <2>4. list' \in [MirrorKey -> Seq(Session)] /\ told' \in [MirrorKey -> SUBSET Session]
      BY <1>3, <1>8 DEF ToldAfter
  <2> QED BY <1>6, <1>8, <2>3, <2>4
<1>9. CASE /\ list' = [list EXCEPT ![k] = after]
           /\ mirrored' = [mirrored EXCEPT ![k] = ToSet(after)]
           /\ told' = ToldAfter(k, s, enable)
           /\ Apart({})
  <2>1. \A x \in MirrorKey \ {k} : list'[x] = list[x] /\ told'[x] = told[x] /\ mirrored'[x] = mirrored[x]
      BY <1>9 DEF ToldAfter
  <2>2. /\ list'[k] = after /\ mirrored'[k] = ToSet(after)
        /\ told'[k] = IF enable THEN told[k] \cup {s} ELSE told[k] \ {s}
      BY <1>9 DEF ToldAfter
  <2>3. \A x \in MirrorKey \ (apart \cup {}) : Settled(x)'
    <3>1. ASSUME NEW x \in MirrorKey \ (apart \cup {})
          PROVE  ToSet(list'[x]) = mirrored'[x] /\ told'[x] = mirrored'[x]
      <4>1. CASE x = k
          BY <1>3, <1>7, <2>2, <4>1
      <4>2. CASE x # k
          BY <1>7, <2>1, <4>2
      <4> QED BY <4>1, <4>2
    <3> QED BY <3>1 DEF Settled
  <2>4. MirroredAsTold' /\ apart' \subseteq MirrorKey
    <3>1. {} \in SUBSET MirrorKey /\ Apart({})
        BY <1>9
    <3> QED BY <2>3, <3>1, ApartFacts
  <2>5. list' \in [MirrorKey -> Seq(Session)] /\ told' \in [MirrorKey -> SUBSET Session]
      BY <1>3, <1>9 DEF ToldAfter
  <2>6. mirrored' \in [MirrorKey -> SUBSET Session]
    <3>1. ToSet(after) \subseteq Session
        BY <1>3 DEF ToSet
    <3> QED BY <1>9, <3>1
  <2> QED BY <1>6, <2>4, <2>5, <2>6
<1>10. CASE /\ list' = [list EXCEPT ![k] = RolledBack(after, s, enable)]
            /\ UNCHANGED <<mirrored, told>>
            /\ Apart(IF enable /\ Contains(list[k], s) THEN {k} ELSE {})
  <2>1. PICK back : back = RolledBack(after, s, enable)
      OBVIOUS
  <2>2. /\ back \in Seq(Session)
        /\ ToSet(back) = IF enable THEN ToSet(after) \ {s} ELSE ToSet(after) \cup {s}
    <3>1. (~enable) \in BOOLEAN
        OBVIOUS
    <3>2. /\ ListAfter(after, s, ~enable) \in Seq(Session)
          /\ ToSet(ListAfter(after, s, ~enable)) =
                 IF ~enable THEN ToSet(after) \cup {s} ELSE ToSet(after) \ {s}
        BY <1>3, <3>1, ListAfterFacts
    <3> QED BY <2>1, <3>2 DEF RolledBack
  <2>3. PICK ks : ks = IF enable /\ Contains(list[k], s) THEN {k} ELSE {}
      OBVIOUS
  <2>4. \A x \in MirrorKey \ {k} : list'[x] = list[x] /\ told'[x] = told[x] /\ mirrored'[x] = mirrored[x]
      BY <1>10
  <2>5. list'[k] = back /\ mirrored'[k] = mirrored[k] /\ told'[k] = told[k]
      BY <1>10, <2>1
  <2>6. k \notin ks => ToSet(back) = ToSet(list[k])
      BY <1>3, <1>5, <1>6, <2>2, <2>3
  <2>7. \A x \in MirrorKey \ (apart \cup ks) : Settled(x)'
    <3>1. ASSUME NEW x \in MirrorKey \ (apart \cup ks)
          PROVE  ToSet(list'[x]) = mirrored'[x] /\ told'[x] = mirrored'[x]
      <4>1. CASE x = k
          BY <1>7, <2>5, <2>6, <4>1
      <4>2. CASE x # k
          BY <1>7, <2>4, <4>2
      <4> QED BY <4>1, <4>2
    <3> QED BY <3>1 DEF Settled
  <2>8. MirroredAsTold' /\ apart' \subseteq MirrorKey
    <3>1. ks \in SUBSET MirrorKey /\ Apart(ks)
        BY <1>10, <2>3
    <3> QED BY <2>7, <3>1, ApartFacts
  <2>9. list' \in [MirrorKey -> Seq(Session)]
      BY <1>10, <2>1, <2>2
  <2> QED BY <1>6, <1>10, <2>8, <2>9
<1> QED BY <1>6, <1>8, <1>9, <1>10

\* A port goes: its keys are parted.
LEMMA MirrorPortGoneStep ==
    ASSUME MirrorInv, NEW p \in Port, MirrorPortGone(p)
    PROVE  MirrorInv'
<1> USE DEF MirrorInv, MirrorTypeOK
<1>1. PICK ks : ks = {k \in MirrorKey : k[1] = p}
    OBVIOUS
<1>2. /\ mirrored' = [k \in MirrorKey |-> IF k[1] = p THEN {} ELSE mirrored[k]]
      /\ UNCHANGED <<session, list, told>>
      /\ ks \in SUBSET MirrorKey /\ Apart(ks)
    BY <1>1 DEF MirrorPortGone
<1>3. \A x \in MirrorKey \ (apart \cup ks) : Settled(x)'
  <2>1. \A x \in MirrorKey \ apart : ToSet(list[x]) = mirrored[x] /\ told[x] = mirrored[x]
      BY DEF MirroredAsTold, Settled
  <2>2. \A x \in MirrorKey \ ks : mirrored'[x] = mirrored[x]
      BY <1>1, <1>2
  <2> QED BY <1>2, <2>1, <2>2 DEF Settled
<1>4. MirroredAsTold' /\ apart' \subseteq MirrorKey
    BY <1>2, <1>3, ApartFacts
<1>5. mirrored' \in [MirrorKey -> SUBSET Session]
    BY <1>2
<1> QED BY <1>2, <1>4, <1>5

LEMMA MirrorNextStep ==
    ASSUME MirrorInv, NEW inUse, MirrorNext(inUse)
    PROVE  MirrorInv'
<1>1. CASE \E s \in Session, t \in Destination : CreateSession(s, t) \/ UpdateSession(s, t)
  <2>1. /\ session' \in [Session -> Destination \cup {None}]
        /\ UNCHANGED <<list, mirrored, told, apart>>
      BY <1>1 DEF CreateSession, UpdateSession, MirrorInv, MirrorTypeOK
  <2> QED BY <2>1, SessionsStep
<1>2. CASE \E s \in Session : DeleteSession(s, s \in inUse)
  <2>1. /\ session' \in [Session -> Destination \cup {None}]
        /\ UNCHANGED <<list, mirrored, told, apart>>
      BY <1>2 DEF DeleteSession, MirrorInv, MirrorTypeOK
  <2> QED BY <2>1, SessionsStep
<1>3. CASE \E s \in Session, k \in MirrorKey, enable \in BOOLEAN : UpdateDirection(s, k, enable)
    BY <1>3, UpdateDirectionStep
<1> QED BY <1>1, <1>2, <1>3 DEF MirrorNext

-----------------------------------------------------------------------------
(* Statistics.                                                             *)

\* The inductive invariant: the counts have their types, and nothing is owed
\* that SAI does not have.
StatsInv ==
    /\ stat \in [Polled -> [SaiStat -> Nat]]
    /\ CountsKept

LEMMA StatsInitInv == StatsInit => StatsInv
BY DEF StatsInit, StatsInv, CountsKept

\* A request is a list of counters.
LEMMA RequestFacts ==
    ASSUME NEW ids \in Requests
    PROVE  ids \in Seq(StatId) /\ Len(ids) \in Nat /\ DOMAIN ids = 1 .. Len(ids)
<1>1. ids \in UNION {[1 .. m -> StatId] : m \in 0 .. MaxIds}
    BY DEF Requests, BoundedSeq, SeqOf
<1>2. PICK m \in 0 .. MaxIds : ids \in [1 .. m -> StatId]
    BY <1>1
<1>3. m \in Nat
    BY <1>2, StatsAssumption
<1>4. ids \in Seq(StatId)
    BY <1>2, <1>3
<1> QED BY <1>4

\* What Only picks of the first elements stays where it is as more follow.
LEMMA PicksStay ==
    ASSUME NEW T, NEW s \in Seq(T), NEW S, NEW n \in 1 .. Len(s), s[n] \in S
    PROVE  /\ Len(Only(SubSeq(s, 1, n), S)) \in DOMAIN Only(s, S)
           /\ Only(s, S)[Len(Only(SubSeq(s, 1, n), S))] = s[n]
<1> DEFINE P(m) == Only(SubSeq(s, 1, m), S)
           Ok(m) == Len(P(n)) \in DOMAIN P(m) /\ P(m)[Len(P(n))] = s[n]
           A == {m \in Nat : m + n <= Len(s) => Ok(m + n)}
<1>0. Len(s) \in Nat /\ \A i \in 1 .. Len(s) : s[i] \in T
    OBVIOUS
<1>1. /\ P(0) = <<>>
      /\ \A m \in 1 .. Len(s) : P(m) = IF s[m] \in S THEN Append(P(m - 1), s[m]) ELSE P(m - 1)
      /\ SubSeq(s, 1, Len(s)) = s
    BY OnlyPrefixes DEF OneByOne
<1>2. \A m \in 0 .. Len(s) : P(m) \in Seq(T)
  <2>1. ASSUME NEW m \in 0 .. Len(s)
        PROVE  SubSeq(s, 1, m) \in Seq(T)
      BY <1>0
  <2>2. ASSUME NEW m \in 0 .. Len(s)
        PROVE  Only(SubSeq(s, 1, m), S) \in Seq(T)
    <3>1. SubSeq(s, 1, m) \in Seq(T)
        BY <2>1
    <3> QED BY <3>1, OnlyFacts
  <2> QED BY <2>2
<1> HIDE DEF P
<1>3. Ok(n)
  <2>1. n - 1 \in 0 .. Len(s) /\ P(n - 1) \in Seq(T) /\ s[n] \in T
      BY <1>0, <1>2
  <2>2. P(n) = Append(P(n - 1), s[n])
      BY <1>1
  <2>3. /\ Len(Append(P(n - 1), s[n])) = Len(P(n - 1)) + 1
        /\ DOMAIN Append(P(n - 1), s[n]) = 1 .. Len(P(n - 1)) + 1
        /\ Append(P(n - 1), s[n])[Len(P(n - 1)) + 1] = s[n]
      BY <2>1, Appended
  <2>4. Len(P(n - 1)) \in Nat
      BY <2>1
  <2> QED BY <2>2, <2>3, <2>4
<1>4. 0 \in A
    BY <1>0, <1>3
<1>5. ASSUME NEW m \in A
      PROVE  m + 1 \in A
  <2> SUFFICES ASSUME m + 1 + n <= Len(s) PROVE Ok(m + 1 + n)
      OBVIOUS
  <2>1. /\ m \in Nat /\ m + n <= Len(s) /\ m + 1 + n \in 1 .. Len(s)
        /\ (m + 1 + n) - 1 = m + n /\ m + n \in 0 .. Len(s)
      BY <1>0
  <2>2. Ok(m + n) /\ P(m + n) \in Seq(T) /\ s[m + 1 + n] \in T
      BY <1>0, <1>2, <2>1
  <2>3. P(m + 1 + n) = IF s[m + 1 + n] \in S THEN Append(P(m + n), s[m + 1 + n]) ELSE P(m + n)
      BY <1>1, <2>1
  <2>4. /\ DOMAIN Append(P(m + n), s[m + 1 + n]) = 1 .. Len(P(m + n)) + 1
        /\ \A i \in 1 .. Len(P(m + n)) : Append(P(m + n), s[m + 1 + n])[i] = P(m + n)[i]
      BY <2>2, Appended
  <2>5. DOMAIN P(m + n) = 1 .. Len(P(m + n)) /\ Len(P(m + n)) \in Nat
      BY <2>2
  <2>6. Len(P(n)) \in 1 .. Len(P(m + n)) /\ P(m + n)[Len(P(n))] = s[n]
      BY <2>2, <2>5
  <2>7. /\ Len(P(n)) \in DOMAIN Append(P(m + n), s[m + 1 + n])
        /\ Append(P(m + n), s[m + 1 + n])[Len(P(n))] = s[n]
      BY <2>4, <2>5, <2>6
  <2>8. CASE s[m + 1 + n] \in S
      BY <2>3, <2>7, <2>8
  <2>9. CASE s[m + 1 + n] \notin S
      BY <2>2, <2>3, <2>9
  <2> QED BY <2>8, <2>9
<1>6. A = Nat
  <2>1. A \in SUBSET Nat
      OBVIOUS
  <2> HIDE DEF A
  <2> QED BY <1>4, <1>5, <2>1, AllNumbers
<1>7. Ok(Len(s))
  <2>1. PICK m : m = Len(s) - n
      OBVIOUS
  <2>2. m \in Nat /\ m + n = Len(s)
      BY <1>0, <2>1
  <2>3. m \in A
      BY <1>6, <2>2
  <2>4. Ok(m + n)
      BY <1>0, <2>2, <2>3
  <2> QED BY <2>2, <2>4
<1>8. P(Len(s)) = Only(s, S)
    BY <1>1 DEF P
<1>9. Ok(Len(s)) => Len(P(n)) \in DOMAIN Only(s, S) /\ Only(s, S)[Len(P(n))] = s[n]
    BY <1>8
<1> QED BY <1>7, <1>9 DEF P

\* SAI is asked for the counters of a request that it has, and no others.
LEMMA SaiListFacts ==
    ASSUME NEW o, NEW ids \in Seq(StatId), NEW snapshot
    PROVE  ToSet(SaiList(o, ids, snapshot)) =
               {StatMap(o, snapshot)[x] : x \in ToSet(ids) \cap DOMAIN StatMap(o, snapshot)}
<1>1. PICK asks : asks = Asks(o, ids, snapshot)
    OBVIOUS
<1>2. ToSet(asks) = ToSet(ids) \cap DOMAIN StatMap(o, snapshot)
  <2>1. ToSet(Only(ids, DOMAIN StatMap(o, snapshot))) = ToSet(ids) \cap DOMAIN StatMap(o, snapshot)
      BY OnlyFacts
  <2> QED BY <1>1, <2>1 DEF Asks
<1>3. SaiList(o, ids, snapshot) = [j \in DOMAIN asks |-> StatMap(o, snapshot)[asks[j]]]
    BY <1>1 DEF SaiList
<1>4. ToSet(SaiList(o, ids, snapshot)) = {StatMap(o, snapshot)[asks[j]] : j \in DOMAIN asks}
    BY <1>3 DEF ToSet
<1>5. ToSet(asks) = {asks[j] : j \in DOMAIN asks}
    BY DEF ToSet
<1> QED BY <1>2, <1>4, <1>5

\* The answer to an id that SAI has is the count of its counter.
LEMMA AnswerFacts ==
    ASSUME NEW o, NEW ids \in Seq(StatId), NEW snapshot, NEW i \in DOMAIN ids,
           ids[i] \in DOMAIN StatMap(o, snapshot)
    PROVE  Answers(o, ids, snapshot)[i] = stat[o][StatMap(o, snapshot)[ids[i]]]
<1>1. PICK asks : asks = Asks(o, ids, snapshot)
    OBVIOUS
<1>2. PICK at : at = Position(o, ids, snapshot, i)
    OBVIOUS
<1>3. at \in DOMAIN asks /\ asks[at] = ids[i]
  <2>1. i \in 1 .. Len(ids)
      OBVIOUS
  <2>2. PICK D : D = DOMAIN StatMap(o, snapshot)
      OBVIOUS
  <2>3. ids[i] \in D
      BY <2>2
  <2>4. /\ Len(Only(SubSeq(ids, 1, i), D)) \in DOMAIN Only(ids, D)
        /\ Only(ids, D)[Len(Only(SubSeq(ids, 1, i), D))] = ids[i]
      BY <2>1, <2>3, PicksStay
  <2> QED BY <1>1, <1>2, <2>2, <2>4 DEF Position, Asks
<1>4. PICK of : of = SaiList(o, ids, snapshot)
    OBVIOUS
<1>5. of = [j \in DOMAIN asks |-> StatMap(o, snapshot)[asks[j]]]
    BY <1>1, <1>4 DEF SaiList
<1>6. Answers(o, ids, snapshot)[i] = [j \in DOMAIN of |-> stat[o][of[j]]][at]
    BY <1>2, <1>4 DEF Answers
<1>7. at \in DOMAIN of /\ of[at] = StatMap(o, snapshot)[ids[i]]
    BY <1>3, <1>5
<1> QED BY <1>6, <1>7

\* The poller is given what is owed, and SAI forgets it.
LEMMA ReadAndClearStep ==
    ASSUME StatsInv, NEW o \in Polled, NEW ids \in Requests, NEW snapshot \in BOOLEAN,
           ReadAndClear(o, ids, snapshot)
    PROVE  StatsInv'
<1>1. ids \in Seq(StatId)
    BY RequestFacts
<1>2. PICK asked : asked = ToSet(SaiList(o, ids, snapshot))
    OBVIOUS
<1>3. asked = {StatMap(o, snapshot)[x] : x \in ToSet(ids) \cap DOMAIN StatMap(o, snapshot)}
    BY <1>1, <1>2, SaiListFacts
<1>4. stat' = [stat EXCEPT ![o] = [s \in SaiStat |-> IF s \in asked THEN 0 ELSE stat[o][s]]]
    BY <1>2 DEF ReadAndClear, Cleared
<1> DEFINE Places(s) == {i \in DOMAIN ids : /\ ids[i] \in DOMAIN StatMap(o, snapshot)
                                            /\ StatMap(o, snapshot)[ids[i]] = s}
<1>5. owed' = [owed EXCEPT ![o] = [s \in SaiStat |->
          IF Places(s) = {} THEN owed[o][s]
          ELSE owed[o][s] - Answers(o, ids, snapshot)[CHOOSE i \in Places(s) : TRUE]]]
    BY DEF ReadAndClear
<1>6. ASSUME NEW s \in SaiStat
      PROVE  (IF Places(s) = {} THEN owed[o][s]
              ELSE owed[o][s] - Answers(o, ids, snapshot)[CHOOSE i \in Places(s) : TRUE])
             = (IF s \in asked THEN 0 ELSE stat[o][s])
  <2>1. owed[o][s] = stat[o][s] /\ stat[o][s] \in Nat
      BY DEF StatsInv, CountsKept
  <2>2. CASE Places(s) = {}
    <3>1. s \notin asked
        BY <1>3, <2>2 DEF ToSet
    <3> QED BY <2>1, <2>2, <3>1
  <2>3. CASE Places(s) # {}
    <3>1. PICK i : i = CHOOSE j \in Places(s) : TRUE
        OBVIOUS
    <3>2. i \in Places(s)
        BY <2>3, <3>1
    <3>3. i \in DOMAIN ids /\ ids[i] \in DOMAIN StatMap(o, snapshot)
        BY <3>2
    <3>5. Answers(o, ids, snapshot)[i] = stat[o][StatMap(o, snapshot)[ids[i]]]
      <4> HIDE DEF Places
      <4> QED BY <1>1, <3>3, AnswerFacts
    <3>6. Answers(o, ids, snapshot)[i] = stat[o][s]
        BY <3>2, <3>5
    <3>4. s \in asked
        BY <1>3, <3>2 DEF ToSet
    <3> HIDE DEF Places
    <3> QED BY <2>1, <2>3, <3>1, <3>4, <3>6
  <2> QED BY <2>2, <2>3
<1>7. owed' = stat'
  <2> HIDE DEF Places
  <2>1. owed = stat
      BY DEF StatsInv, CountsKept
  <2> QED BY <1>4, <1>5, <1>6, <2>1
<1>8. stat' \in [Polled -> [SaiStat -> Nat]]
    BY <1>4 DEF StatsInv
<1> QED BY <1>7, <1>8 DEF StatsInv, CountsKept

LEMMA StatsNextStep ==
    ASSUME StatsInv, StatsNext
    PROVE  StatsInv'
<1>1. ASSUME NEW o \in Polled, NEW ids \in Requests, NEW snapshot \in BOOLEAN,
             ReadAndClear(o, ids, snapshot)
      PROVE  StatsInv'
    BY <1>1, ReadAndClearStep
<1>2. ASSUME NEW o \in Polled, NEW ids \in Requests, NEW snapshot \in BOOLEAN,
             ClearStatistics(o, ids, snapshot)
      PROVE  StatsInv'
  <2>1. PICK asked : asked = ToSet(SaiList(o, ids, snapshot))
      OBVIOUS
  <2>2. stat' = [stat EXCEPT ![o] = [s \in SaiStat |-> IF s \in asked THEN 0 ELSE stat[o][s]]]
      BY <1>2, <2>1 DEF ClearStatistics, Cleared
  <2>3. owed' = [owed EXCEPT ![o] = [s \in SaiStat |-> IF s \in asked THEN 0 ELSE owed[o][s]]]
      BY <1>2, <2>1 DEF ClearStatistics
  <2> QED BY <2>2, <2>3 DEF StatsInv, CountsKept
<1>3. ASSUME NEW o \in Polled, NEW s \in SaiStat, Counted(o, s)
      PROVE  StatsInv'
    BY <1>3 DEF Counted, StatsInv, CountsKept
<1> QED BY <1>1, <1>2, <1>3 DEF StatsNext

-----------------------------------------------------------------------------
(* ACL.                                                                    *)

\* The types of the NAS that are translated, and the attribute of each.
AclType == DOMAIN ActionField \cup DOMAIN FilterField
AclField(x) == IF x \in DOMAIN ActionField THEN ActionField[x] ELSE FilterField[x]

\* What SAI has of an entry is what the NAS was told, but for what is crossed.
EntryAsTold(x) ==
    /\ DOMAIN x.told \subseteq {n \in Name : Known(n)}
    /\ \A n \in DOMAIN x.told : Attr(n) \notin x.crossed =>
          Attr(n) \in DOMAIN x.attrs /\ x.attrs[Attr(n)] = x.told[n]
    /\ \A a \in DOMAIN x.attrs \ x.crossed : \E n \in DOMAIN x.told : Attr(n) = a

\* The attributes a table was made with are those of its types.
TableAsMade(x) ==
    /\ x.types \subseteq DOMAIN TableField /\ x.groups \in Nat
    /\ x.fields = TableFields(x.types, x.groups)

\* The inductive invariant.
AclInv ==
    /\ entry = [e \in Entry |-> entry[e]] /\ table = [t \in Table |-> table[t]]
    /\ \A e \in Entry : entry[e] # None => EntryAsTold(entry[e])
    /\ \A t \in Table : table[t] # None => TableAsMade(table[t])

LEMMA AclInitInv == AclInit => AclInv
BY DEF AclInit, AclInv

\* Two types of one attribute are rivals.
LEMMA SameFieldFacts ==
    ASSUME NEW x \in AclType, NEW y \in AclType, AclField(x) = AclField(y), x # y
    PROVE  {x, y} \in Rivals
BY DEF AclType, AclField, ActionField, FilterField, Rivals

\* A name is its type and its number, and so is its attribute.
LEMMA NameFacts ==
    ASSUME NEW n \in Name, Known(n)
    PROVE  /\ n = <<n[1], n[2]>> /\ n[1] \in AclType
           /\ n[1] # "UDF" => n[2] = 0
           /\ Attr(n) = <<AclField(n[1]), n[2]>>
<1>1. CASE n \in Action
    BY <1>1 DEF Action, Known, Attr, AclType, AclField
<1>2. CASE n \notin Action
  <2>1. n \in Filter
      BY <1>2 DEF Name
  <2>2. /\ n = <<n[1], n[2]>> /\ n[1] \in DOMAIN FilterField
        /\ n[1] # "UDF" => n[2] = 0
      BY <2>1 DEF Filter, Known, FilterField
  <2>3. n[1] \notin DOMAIN ActionField
      BY <2>2 DEF FilterField, ActionField
  <2> QED BY <1>2, <2>2, <2>3 DEF Attr, AclType, AclField
<1> QED BY <1>1, <1>2

\* Two names of one attribute are of types that are rivals.
LEMMA SameAttrFacts ==
    ASSUME NEW m \in Name, Known(m), NEW n \in Name, Known(n), Attr(m) = Attr(n), m # n
    PROVE  {m[1], n[1]} \in Rivals
<1>1. /\ m = <<m[1], m[2]>> /\ m[1] \in AclType /\ Attr(m) = <<AclField(m[1]), m[2]>>
      /\ n = <<n[1], n[2]>> /\ n[1] \in AclType /\ Attr(n) = <<AclField(n[1]), n[2]>>
    BY NameFacts
<1>2. AclField(m[1]) = AclField(n[1]) /\ m[2] = n[2]
  <2>1. <<AclField(m[1]), m[2]>> = <<AclField(n[1]), n[2]>>
      BY <1>1
  <2> QED BY <2>1
<1>3. m[1] # n[1]
    BY <1>1, <1>2
<1> QED BY <1>1, <1>2, <1>3, SameFieldFacts

\* An entry as it is made: no two of its names are one attribute.
LEMMA MadeAsTold ==
    ASSUME NEW names, DOMAIN names \subseteq {n \in Name : Known(n)}, OneNameEach(names), NEW t
    PROVE  EntryAsTold([table |-> t, attrs |-> AttrsOf(names), told |-> names, crossed |-> {}])
<1>1. PICK attrs : attrs = AttrsOf(names)
    OBVIOUS
<1>2. attrs = [a \in {Attr(n) : n \in DOMAIN names} |->
                  names[CHOOSE n \in DOMAIN names : Attr(n) = a]]
    BY <1>1 DEF AttrsOf
<1>3. ASSUME NEW n \in DOMAIN names
      PROVE  Attr(n) \in DOMAIN attrs /\ attrs[Attr(n)] = names[n]
  <2>1. PICK m : m = CHOOSE k \in DOMAIN names : Attr(k) = Attr(n)
      OBVIOUS
  <2>2. m \in DOMAIN names /\ Attr(m) = Attr(n)
      BY <2>1
  <2>3. m = n
      BY <2>2 DEF OneNameEach
  <2> QED BY <1>2, <2>1, <2>3
<1>4. \A a \in DOMAIN attrs : \E n \in DOMAIN names : Attr(n) = a
    BY <1>2
<1> QED BY <1>1, <1>3, <1>4 DEF EntryAsTold

\* An attribute set under name n: whatever else the entry has of it is a rival.
LEMMA PutAsTold ==
    ASSUME NEW e \in Entry, AclInv, entry[e] # None, NEW n \in Name, Known(n), NEW v,
           entry' = Put(e, n, v)
    PROVE  /\ entry' = [f \in Entry |-> entry'[f]]
           /\ \A f \in Entry : entry'[f] # None => EntryAsTold(entry'[f])
<1>1. PICK old : old = entry[e]
    OBVIOUS
<1>2. PICK others : others = {m \in DOMAIN old.told : {m[1], n[1]} \in Rivals}
    OBVIOUS
<1>3. PICK attrs : attrs = With(old.attrs, Attr(n), v)
    OBVIOUS
<1>4. PICK told1 : told1 = With(old.told, n, v)
    OBVIOUS
<1>5. PICK crossed : crossed = IF others = {} THEN old.crossed \ {Attr(n)}
                               ELSE old.crossed \cup {Attr(n)}
    OBVIOUS
<1>6. entry' = [entry EXCEPT ![e] = [table |-> old.table, attrs |-> attrs,
                                     told |-> told1, crossed |-> crossed]]
    BY <1>1, <1>2, <1>3, <1>4, <1>5 DEF Put
<1>7. EntryAsTold(old)
    BY <1>1 DEF AclInv
<1>8. /\ DOMAIN attrs = DOMAIN old.attrs \cup {Attr(n)} /\ attrs[Attr(n)] = v
      /\ \A a \in DOMAIN old.attrs : a # Attr(n) => attrs[a] = old.attrs[a]
    BY <1>3 DEF With
<1>9. /\ DOMAIN told1 = DOMAIN old.told \cup {n} /\ told1[n] = v
      /\ \A m \in DOMAIN old.told : m # n => told1[m] = old.told[m]
    BY <1>4 DEF With
<1>10. DOMAIN told1 \subseteq {m \in Name : Known(m)}
    BY <1>7, <1>9 DEF EntryAsTold
<1>11. ASSUME NEW m \in DOMAIN told1, Attr(m) \notin crossed
       PROVE  Attr(m) \in DOMAIN attrs /\ attrs[Attr(m)] = told1[m]
  <2>1. CASE m = n
      BY <1>8, <1>9, <2>1
  <2>2. CASE m # n /\ Attr(m) = Attr(n)
    <3>1. m \in DOMAIN old.told /\ m \in Name /\ Known(m)
        BY <1>9, <1>10, <2>2
    <3>2. {m[1], n[1]} \in Rivals
        BY <2>2, <3>1, SameAttrFacts
    <3> QED BY <1>2, <1>5, <1>11, <2>2, <3>1, <3>2
  <2>3. CASE Attr(m) # Attr(n)
    <3>1. m \in DOMAIN old.told /\ m # n /\ Attr(m) \notin old.crossed
        BY <1>5, <1>9, <1>11, <2>3
    <3>2. Attr(m) \in DOMAIN old.attrs /\ old.attrs[Attr(m)] = old.told[m]
        BY <1>7, <3>1 DEF EntryAsTold
    <3> QED BY <1>8, <1>9, <2>3, <3>1, <3>2
  <2> QED BY <2>1, <2>2, <2>3
<1>12. ASSUME NEW a \in DOMAIN attrs \ crossed
       PROVE  \E m \in DOMAIN told1 : Attr(m) = a
  <2>1. CASE a = Attr(n)
      BY <1>9, <2>1
  <2>2. CASE a # Attr(n)
    <3>1. a \in DOMAIN old.attrs \ old.crossed
        BY <1>5, <1>8, <2>2
    <3> QED BY <1>7, <1>9, <3>1 DEF EntryAsTold
  <2> QED BY <2>1, <2>2
<1>13. EntryAsTold([table |-> old.table, attrs |-> attrs, told |-> told1, crossed |-> crossed])
    BY <1>10, <1>11, <1>12 DEF EntryAsTold
<1> QED BY <1>6, <1>13 DEF AclInv

\* A type disabled by its first attribute: the names of the type are no longer
\* told, the attributes of its other numbers stay and are crossed.
LEMMA DropAsTold ==
    ASSUME NEW e \in Entry, AclInv, entry[e] # None, NEW type \in AclType, NEW a,
           a = <<AclField(type), 0>>, entry' = Drop(e, type, a)
    PROVE  /\ entry' = [f \in Entry |-> entry'[f]]
           /\ \A f \in Entry : entry'[f] # None => EntryAsTold(entry'[f])
<1>1. PICK old : old = entry[e]
    OBVIOUS
<1>2. PICK others : others = {m \in DOMAIN old.told : {m[1], type} \in Rivals}
    OBVIOUS
<1>3. PICK names : names = {n \in DOMAIN old.told : n[1] = type}
    OBVIOUS
<1>4. PICK attrs : attrs = Without(old.attrs, a)
    OBVIOUS
<1>5. PICK told1 : told1 = Restrict(old.told, DOMAIN old.told \ names)
    OBVIOUS
<1>6. PICK crossed : crossed = (IF others = {} THEN old.crossed \ {a}
                                ELSE old.crossed \cup {a})
                               \cup ({Attr(n) : n \in names} \ {a})
    OBVIOUS
<1>7. entry' = [entry EXCEPT ![e] = [table |-> old.table, attrs |-> attrs,
                                     told |-> told1, crossed |-> crossed]]
    BY <1>1, <1>2, <1>3, <1>4, <1>5, <1>6 DEF Drop
<1>8. EntryAsTold(old)
    BY <1>1 DEF AclInv
<1>9. DOMAIN attrs = DOMAIN old.attrs \ {a} /\ \A b \in DOMAIN attrs : attrs[b] = old.attrs[b]
    BY <1>4 DEF Without, Restrict
<1>10. DOMAIN told1 = DOMAIN old.told \ names /\ \A m \in DOMAIN told1 : told1[m] = old.told[m]
    BY <1>5 DEF Restrict
<1>11. DOMAIN told1 \subseteq {m \in Name : Known(m)}
    BY <1>8, <1>10 DEF EntryAsTold
<1>12. ASSUME NEW m \in DOMAIN told1, Attr(m) \notin crossed
       PROVE  Attr(m) \in DOMAIN attrs /\ attrs[Attr(m)] = told1[m]
  <2>1. m \in DOMAIN old.told /\ m[1] # type /\ m \in Name /\ Known(m)
      BY <1>3, <1>10, <1>11
  <2>2. Attr(m) # a
    <3> SUFFICES ASSUME Attr(m) = a PROVE FALSE
        OBVIOUS
    <3>1. m[1] \in AclType /\ AclField(m[1]) = AclField(type)
      <4>1. m[1] \in AclType /\ Attr(m) = <<AclField(m[1]), m[2]>>
          BY <2>1, NameFacts
      <4> QED BY <4>1
    <3>2. {m[1], type} \in Rivals
        BY <2>1, <3>1, SameFieldFacts
    <3> QED BY <1>2, <1>6, <1>12, <2>1, <3>2
  <2>3. Attr(m) \notin old.crossed
      BY <1>6, <1>12, <2>2
  <2>4. Attr(m) \in DOMAIN old.attrs /\ old.attrs[Attr(m)] = old.told[m]
      BY <1>8, <2>1, <2>3 DEF EntryAsTold
  <2> QED BY <1>9, <1>10, <2>2, <2>4
<1>13. ASSUME NEW b \in DOMAIN attrs \ crossed
       PROVE  \E m \in DOMAIN told1 : Attr(m) = b
  <2>1. b # a /\ b \in DOMAIN old.attrs \ old.crossed /\ b \notin {Attr(n) : n \in names}
      BY <1>6, <1>9
  <2>2. PICK m \in DOMAIN old.told : Attr(m) = b
      BY <1>8, <2>1 DEF EntryAsTold
  <2>3. m \notin names
      BY <2>1, <2>2
  <2> QED BY <1>10, <2>2, <2>3
<1>14. EntryAsTold([table |-> old.table, attrs |-> attrs, told |-> told1, crossed |-> crossed])
    BY <1>11, <1>12, <1>13 DEF EntryAsTold
<1> QED BY <1>7, <1>14 DEF AclInv

LEMMA CreateTableStep ==
    ASSUME AclInv, NEW t \in Table, NEW types, NEW groups \in Nat, NEW actions,
           CreateTable(t, types, groups, actions)
    PROVE  AclInv'
<1>1. CASE UNCHANGED table
    BY <1>1 DEF CreateTable, AclInv
<1>2. CASE table' # table
  <2>1. /\ types \subseteq DOMAIN TableField
        /\ table' = [table EXCEPT ![t] =
              [fields |-> TableFields(types, groups),
               actions |-> {TableAction[a] : a \in actions},
               types |-> types, groups |-> groups]]
        /\ UNCHANGED entry
      BY <1>2 DEF CreateTable
  <2>2. PICK x : x = [fields |-> TableFields(types, groups),
                      actions |-> {TableAction[a] : a \in actions},
                      types |-> types, groups |-> groups]
      OBVIOUS
  <2>3. TableAsMade(x)
      BY <2>1, <2>2 DEF TableAsMade
  <2>4. table' = [table EXCEPT ![t] = x] /\ UNCHANGED entry
      BY <2>1, <2>2
  <2>5. table' = [u \in Table |-> table'[u]]
      BY <2>4 DEF AclInv
  <2>6. \A u \in Table : table'[u] # None => TableAsMade(table'[u])
      BY <2>3, <2>4 DEF AclInv
  <2> QED BY <2>4, <2>5, <2>6 DEF AclInv
<1> QED BY <1>1, <1>2

\* What is translated is known.
LEMMA FillFacts ==
    ASSUME NEW n, NEW v, Fill(n, v) \/ FillFilter(n, v) \/ FillAction(n, v)
    PROVE  Known(n)
BY DEF Fill, FillFilter, FillAction

LEMMA CreateEntryStep ==
    ASSUME AclInv, NEW e \in Entry, NEW t \in Table, NEW names \in EntryLists, NEW sessions,
           CreateEntry(e, t, names, sessions)
    PROVE  AclInv'
<1>1. CASE UNCHANGED entry
    BY <1>1 DEF CreateEntry, AclInv
<1>2. CASE entry' # entry
  <2>1. PICK x : x = [table |-> t, attrs |-> AttrsOf(names), told |-> names, crossed |-> {}]
      OBVIOUS
  <2>2. /\ \A n \in DOMAIN names : Fill(n, names[n])
        /\ OneNameEach(names)
        /\ entry' = [entry EXCEPT ![e] = x] /\ UNCHANGED table
      BY <1>2, <2>1 DEF CreateEntry
  <2>3. DOMAIN names \subseteq {n \in Name : Known(n)}
      BY <2>2, FillFacts, AclAssumption
  <2>4. EntryAsTold(x)
      BY <2>1, <2>2, <2>3, MadeAsTold
  <2>5. /\ entry' = [f \in Entry |-> entry'[f]]
        /\ \A f \in Entry : entry'[f] # None => EntryAsTold(entry'[f])
      BY <2>2, <2>4 DEF AclInv
  <2> QED BY <2>2, <2>5 DEF AclInv
<1> QED BY <1>1, <1>2

\* A step that leaves the tables, and the entries as told.
LEMMA EntriesStep ==
    ASSUME AclInv, UNCHANGED table, entry' = [f \in Entry |-> entry'[f]],
           \A f \in Entry : entry'[f] # None => EntryAsTold(entry'[f])
    PROVE  AclInv'
BY DEF AclInv

LEMMA SetStep ==
    ASSUME AclInv, NEW e \in Entry, entry[e] # None, NEW n \in Name, NEW v, UNCHANGED table,
           (Known(n) /\ entry' = Put(e, n, v)) \/ UNCHANGED entry
    PROVE  AclInv'
<1>1. CASE UNCHANGED entry
    BY <1>1 DEF AclInv
<1>2. CASE Known(n) /\ entry' = Put(e, n, v)
    BY <1>2, PutAsTold, EntriesStep
<1> QED BY <1>1, <1>2

LEMMA DisableStep ==
    ASSUME AclInv, NEW e \in Entry, entry[e] # None, NEW type \in AclType, UNCHANGED table,
           entry' = Drop(e, type, <<AclField(type), 0>>) \/ UNCHANGED entry
    PROVE  AclInv'
<1>1. CASE UNCHANGED entry
    BY <1>1 DEF AclInv
<1>2. CASE entry' = Drop(e, type, <<AclField(type), 0>>)
    BY <1>2, DropAsTold, EntriesStep
<1> QED BY <1>1, <1>2

LEMMA AclNextStep ==
    ASSUME AclInv, NEW sessions, AclNext(sessions)
    PROVE  AclInv'
<1>1. ASSUME NEW t \in Table, NEW types \in FilterLists, NEW groups \in 0 .. MaxUdf + 1,
             NEW actions \in ActionLists, CreateTable(t, types, groups, actions)
      PROVE  AclInv'
    BY <1>1, CreateTableStep, AclAssumption
<1>2. ASSUME NEW t \in Table, DeleteTable(t)
      PROVE  AclInv'
    BY <1>2 DEF DeleteTable, AclInv
<1>3. ASSUME NEW e \in Entry, NEW t \in Table, NEW names \in EntryLists,
             CreateEntry(e, t, names, sessions)
      PROVE  AclInv'
    BY <1>3, CreateEntryStep
<1>4. ASSUME NEW e \in Entry, DeleteEntry(e)
      PROVE  AclInv'
    BY <1>4 DEF DeleteEntry, AclInv
<1>5. ASSUME NEW e \in Entry, DisableCounter(e)
      PROVE  AclInv'
  <2>1. "SET_COUNTER" \in AclType /\ AclField("SET_COUNTER") = ActionField["SET_COUNTER"]
      BY DEF AclType, AclField, ActionField
  <2>2. /\ entry[e] # None /\ UNCHANGED table
        /\ \/ entry' = Drop(e, "SET_COUNTER", <<ActionField["SET_COUNTER"], 0>>)
           \/ UNCHANGED entry
      BY <1>5 DEF DisableCounter
  <2>3. PICK type \in AclType : type = "SET_COUNTER"
      BY <2>1
  <2> QED BY <2>1, <2>2, <2>3, DisableStep
<1>6. ASSUME NEW e \in Entry, NEW n \in Filter, NEW v \in Value, SetFilter(e, n, v, sessions)
      PROVE  AclInv'
  <2>1. /\ entry[e] # None /\ UNCHANGED table /\ n \in Name
        /\ (Known(n) /\ entry' = Put(e, n, v)) \/ UNCHANGED entry
      BY <1>6 DEF SetFilter, FillFilter, Name
  <2> QED BY <2>1, SetStep
<1>7. ASSUME NEW e \in Entry, NEW n \in Action, NEW v \in Value, SetAction(e, n, v, sessions)
      PROVE  AclInv'
  <2>1. /\ entry[e] # None /\ UNCHANGED table /\ n \in Name
        /\ (Known(n) /\ entry' = Put(e, n, v)) \/ UNCHANGED entry
      BY <1>7 DEF SetAction, FillAction, Name
  <2> QED BY <2>1, SetStep
<1>8. ASSUME NEW e \in Entry, NEW type \in DOMAIN FilterField, DisableFilter(e, type)
      PROVE  AclInv'
  <2>1. type \in AclType /\ AclField(type) = FilterField[type]
      BY DEF AclType, AclField, ActionField, FilterField
  <2>2. /\ entry[e] # None /\ UNCHANGED table
        /\ entry' = Drop(e, type, <<AclField(type), 0>>) \/ UNCHANGED entry
      BY <1>8, <2>1 DEF DisableFilter
  <2> QED BY <2>1, <2>2, DisableStep
<1>9. ASSUME NEW e \in Entry, NEW type \in DOMAIN ActionField, DisableAction(e, type)
      PROVE  AclInv'
  <2>1. type \in AclType /\ AclField(type) = ActionField[type]
      BY DEF AclType, AclField
  <2>2. /\ entry[e] # None /\ UNCHANGED table
        /\ entry' = Drop(e, type, <<AclField(type), 0>>) \/ UNCHANGED entry
      BY <1>9, <2>1 DEF DisableAction
  <2> QED BY <2>1, <2>2, DisableStep
<1>10. CASE UNCHANGED <<table, entry>>
    BY <1>10 DEF AclInv
<1>11. CASE \/ \E c \in Counter, t \in Table : CreateCounter(c, t)
            \/ \E c \in Counter : DeleteCounter(c)
            \/ \E c \in Counter, bytes, packets \in 0 .. MaxSet : SetCount(c, bytes, packets)
    BY <1>10, <1>11 DEF CreateCounter, DeleteCounter, SetCount
<1> QED BY <1>1, <1>2, <1>3, <1>4, <1>5, <1>6, <1>7, <1>8, <1>9, <1>11 DEF AclNext

LEMMA AclInvImplies == AclInv => EntriesAsTold
<1> SUFFICES ASSUME AclInv PROVE EntriesAsTold
    OBVIOUS
<1>1. ASSUME NEW e \in Entry, entry[e] # None
      PROVE  LET kept == {n \in DOMAIN entry[e].told : Attr(n) \notin entry[e].crossed}
             IN  /\ \A n \in kept : /\ Attr(n) \in DOMAIN entry[e].attrs
                                    /\ entry[e].attrs[Attr(n)] = entry[e].told[n]
                 /\ \A a \in DOMAIN entry[e].attrs \ entry[e].crossed :
                       \E n \in kept : Attr(n) = a
    BY <1>1 DEF AclInv, EntryAsTold
<1>2. ASSUME NEW t \in Table, table[t] # None, NEW n \in Usable(t)
      PROVE  Attr(n) \in table[t].fields
  <2>1. /\ n \in Filter /\ n[1] \in table[t].types /\ (n[1] = "UDF" => n[2] < table[t].groups)
        /\ table[t].types \subseteq DOMAIN TableField /\ table[t].groups \in Nat
        /\ table[t].fields = TableFields(table[t].types, table[t].groups)
      BY <1>2 DEF Usable, AclInv, TableAsMade
  <2>2. n[1] \in DOMAIN FilterField /\ FilterField[n[1]] = TableField[n[1]]
      BY <2>1 DEF TableField, FilterField
  <2>3. n \notin Action
      BY <2>1 DEF Action, ActionField, TableField
  <2>4. Attr(n) = <<TableField[n[1]], n[2]>>
      BY <2>2, <2>3 DEF Attr
  <2>5. CASE n[1] # "UDF"
    <3>1. n[2] = 0
        BY <2>1, <2>5 DEF Filter
    <3> QED BY <2>1, <2>4, <2>5, <3>1 DEF TableFields
  <2>6. CASE n[1] = "UDF"
    <3>1. n[2] \in 0 .. MaxUdf - 1
        BY <2>1, <2>6 DEF Filter
    <3>2. n[2] \in 0 .. table[t].groups - 1
        BY <2>1, <2>6, <3>1, AclAssumption
    <3>3. TableField[n[1]] = "UDF_GROUP"
        BY <2>6 DEF TableField
    <3> QED BY <2>1, <2>4, <3>2, <3>3 DEF TableFields
  <2> QED BY <2>5, <2>6
<1> QED BY <1>1, <1>2 DEF EntriesAsTold

-----------------------------------------------------------------------------
(* QoS.                                                                    *)

\* The inductive invariant: a profile of SAI's is what was set last under one of
\* its names, and what a caller has of a port's queues is of whole lists.
ProfileField == {"TC_TO_QUEUE", "DSCP_TO_TC", "SCHEDULER"}
ProfileName == {"ING_TC_TO_QUEUE", "ING_DSCP_TO_TC", "EGR_TC_TO_QUEUE", "EGR_SCHEDULER"}

ProfileInv ==
    /\ profile \in [Port -> [ProfileField -> Profile \cup {None}]]
    /\ named \in [Port -> [ProfileName -> Profile \cup {None}]]
    /\ latest \in [Port -> [ProfileField -> ProfileName \cup {"not set"}]]
    /\ \A p \in Port :
          /\ latest[p]["DSCP_TO_TC"] \in {"not set", "ING_DSCP_TO_TC"}
          /\ latest[p]["SCHEDULER"] \in {"not set", "EGR_SCHEDULER"}
          /\ latest[p]["TC_TO_QUEUE"] \in {"not set", "ING_TC_TO_QUEUE", "EGR_TC_TO_QUEUE"}
          /\ \A f \in ProfileField :
                profile[p][f] = IF latest[p][f] = "not set" THEN None ELSE named[p][latest[p][f]]

\* The queues of a kind among the first n of a list.
CountTo(kind, queues, n) == Cardinality({i \in 1 .. n : KindOf[queues[i]] = kind})

ReaderInv ==
    /\ egress \in [queues : Seq(Node), all : Nat, ucast : Nat, mcast : Nat]
    /\ counted \in Seq(Node)
    /\ egress.ucast = CountOf("ucast", counted) /\ egress.mcast = CountOf("mcast", counted)
    /\ reading # NotReading =>
          /\ reading.at \in 1 .. Len(egress.queues)
          /\ reading.ucast = CountTo("ucast", egress.queues, reading.at - 1)
          /\ reading.mcast = CountTo("mcast", egress.queues, reading.at - 1)
    /\ reading = NotReading /\ egress.queues # <<>> /\ ~unread =>
          counted = egress.queues /\ egress.all = Len(counted)

QosInv == ProfileInv /\ ReaderInv

LEMMA ProfileTables ==
    /\ DOMAIN IngressField = {"ING_TC_TO_QUEUE", "ING_DSCP_TO_TC"}
    /\ DOMAIN EgressField = {"EGR_TC_TO_QUEUE", "EGR_SCHEDULER"}
    /\ IngressField["ING_TC_TO_QUEUE"] = "TC_TO_QUEUE"
    /\ IngressField["ING_DSCP_TO_TC"] = "DSCP_TO_TC"
    /\ EgressField["EGR_TC_TO_QUEUE"] = "TC_TO_QUEUE"
    /\ EgressField["EGR_SCHEDULER"] = "SCHEDULER"
    /\ Range(IngressField) = {"TC_TO_QUEUE", "DSCP_TO_TC"}
    /\ Range(EgressField) = {"TC_TO_QUEUE", "SCHEDULER"}
<1>1. /\ DOMAIN IngressField = {"ING_TC_TO_QUEUE", "ING_DSCP_TO_TC"}
      /\ DOMAIN EgressField = {"EGR_TC_TO_QUEUE", "EGR_SCHEDULER"}
      /\ IngressField["ING_TC_TO_QUEUE"] = "TC_TO_QUEUE"
      /\ IngressField["ING_DSCP_TO_TC"] = "DSCP_TO_TC"
      /\ EgressField["EGR_TC_TO_QUEUE"] = "TC_TO_QUEUE"
      /\ EgressField["EGR_SCHEDULER"] = "SCHEDULER"
    BY DEF IngressField, EgressField
<1>2. Range(IngressField) = {"TC_TO_QUEUE", "DSCP_TO_TC"}
    BY <1>1 DEF Range
<1>3. Range(EgressField) = {"TC_TO_QUEUE", "SCHEDULER"}
    BY <1>1 DEF Range
<1> QED BY <1>1, <1>2, <1>3

LEMMA NoProfileFacts ==
    /\ NoProfile = [f \in ProfileField |-> None]
    /\ NotSet = [f \in ProfileField |-> "not set"]
    /\ NoNames = [n \in ProfileName |-> None]
<1>1. NoProfile = [f \in ProfileField |-> None]
  <2>1. Range(IngressField) \cup Range(EgressField) = ProfileField
      BY ProfileTables DEF ProfileField
  <2> QED BY <2>1 DEF NoProfile
<1>2. DOMAIN IngressField \cup DOMAIN EgressField = ProfileName
    BY ProfileTables DEF ProfileName
<1> QED BY <1>1, <1>2 DEF NotSet, NoNames

\* A count goes up by one at each element of its kind.
LEMMA CountToFacts ==
    ASSUME NEW kind, NEW queues \in Seq(Node), NEW n \in Nat, n < Len(queues)
    PROVE  /\ CountTo(kind, queues, 0) = 0
           /\ CountTo(kind, queues, n) \in Nat
           /\ CountTo(kind, queues, n + 1)
                = CountTo(kind, queues, n) + (IF KindOf[queues[n + 1]] = kind THEN 1 ELSE 0)
           /\ CountTo(kind, queues, Len(queues)) = CountOf(kind, queues)
<1>1. PICK S : S = {i \in 1 .. n : KindOf[queues[i]] = kind}
    OBVIOUS
<1>2. PICK T : T = {i \in 1 .. n + 1 : KindOf[queues[i]] = kind}
    OBVIOUS
<1>3. IsFiniteSet(S) /\ Cardinality(S) \in Nat
  <2>1. IsFiniteSet(1 .. n)
      BY FS_Interval
  <2>2. S \subseteq 1 .. n
      BY <1>1
  <2>3. IsFiniteSet(S)
      BY <2>1, <2>2, FS_Subset
  <2> QED BY <2>3, FS_CardinalityType
<1>4. Cardinality(T) = Cardinality(S) + (IF KindOf[queues[n + 1]] = kind THEN 1 ELSE 0)
  <2>1. CASE KindOf[queues[n + 1]] = kind
    <3>1. T = S \cup {n + 1} /\ n + 1 \notin S
        BY <1>1, <1>2, <2>1
    <3>2. Cardinality(S \cup {n + 1}) = Cardinality(S) + 1
        BY <1>3, <3>1, FS_AddElement
    <3> QED BY <2>1, <3>1, <3>2
  <2>2. CASE KindOf[queues[n + 1]] # kind
    <3>1. T = S
        BY <1>1, <1>2, <2>2
    <3> QED BY <1>3, <2>2, <3>1
  <2> QED BY <2>1, <2>2
<1>5. CountTo(kind, queues, 0) = 0
  <2>1. {i \in 1 .. 0 : KindOf[queues[i]] = kind} = {}
      OBVIOUS
  <2> QED BY <2>1, FS_EmptySet DEF CountTo
<1>6. CountTo(kind, queues, Len(queues)) = CountOf(kind, queues)
  <2>1. DOMAIN queues = 1 .. Len(queues)
      OBVIOUS
  <2> QED BY <2>1 DEF CountTo, CountOf
<1>7. CountTo(kind, queues, n) = Cardinality(S) /\ CountTo(kind, queues, n + 1) = Cardinality(T)
    BY <1>1, <1>2 DEF CountTo
<1> QED BY <1>3, <1>4, <1>5, <1>6, <1>7

\* The queues SAI lists are a list of nodes.
LEMMA QueuesOfFacts ==
    ASSUME NEW p
    PROVE  QueuesOf(p) \in Seq(Node)
<1>1. Nodes \in Seq(Node)
    BY QosAssumption
<1> QED BY <1>1, OnlyFacts DEF QueuesOf

LEMMA QosInitInv == QosInit => QosInv
<1> SUFFICES ASSUME QosInit PROVE ProfileInv /\ ReaderInv
    BY DEF QosInv
<1>1. ProfileInv
  <2>1. /\ profile = [p \in Port |-> [f \in ProfileField |-> None]]
        /\ named = [p \in Port |-> [n \in ProfileName |-> None]]
        /\ latest = [p \in Port |-> [f \in ProfileField |-> "not set"]]
      BY NoProfileFacts DEF QosInit
  <2> QED BY <2>1 DEF ProfileInv, ProfileField, ProfileName
<1>2. ReaderInv
  <2>1. /\ egress = [queues |-> <<>>, all |-> 0, ucast |-> 0, mcast |-> 0]
        /\ reading = NotReading /\ counted = <<>>
      BY DEF QosInit
  <2>2. ASSUME NEW kind PROVE CountOf(kind, <<>>) = 0
    <3>1. {i \in DOMAIN <<>> : KindOf[<<>>[i]] = kind} = {}
        OBVIOUS
    <3> QED BY <3>1, FS_EmptySet DEF CountOf
  <2> QED BY <2>1, <2>2 DEF ReaderInv
<1> QED BY <1>1, <1>2

\* An attribute set under one of its names.
LEMMA ProfileSet ==
    ASSUME ProfileInv, NEW p \in Port, NEW name \in ProfileName, NEW f \in ProfileField,
           NEW v \in Profile,
           \/ name \in DOMAIN IngressField /\ f = IngressField[name]
           \/ name \in DOMAIN EgressField /\ f = EgressField[name],
           profile' = [profile EXCEPT ![p][f] = v],
           named' = [named EXCEPT ![p][name] = v],
           latest' = [latest EXCEPT ![p][f] = name]
    PROVE  ProfileInv'
<1>1. \/ name = "ING_DSCP_TO_TC" /\ f = "DSCP_TO_TC"
      \/ name = "EGR_SCHEDULER" /\ f = "SCHEDULER"
      \/ name \in {"ING_TC_TO_QUEUE", "EGR_TC_TO_QUEUE"} /\ f = "TC_TO_QUEUE"
    BY ProfileTables
<1>2. /\ profile' \in [Port -> [ProfileField -> Profile \cup {None}]]
      /\ named' \in [Port -> [ProfileName -> Profile \cup {None}]]
      /\ latest' \in [Port -> [ProfileField -> ProfileName \cup {"not set"}]]
    BY DEF ProfileInv
<1>3. ASSUME NEW q \in Port, NEW g \in ProfileField, q # p \/ g # f
      PROVE  /\ profile'[q][g] = profile[q][g] /\ latest'[q][g] = latest[q][g]
             /\ latest[q][g] # "not set" => named'[q][latest[q][g]] = named[q][latest[q][g]]
  <2>1. profile'[q][g] = profile[q][g] /\ latest'[q][g] = latest[q][g]
      BY <1>3 DEF ProfileInv
  <2>2. q = p => latest[q][g] # name
      BY <1>1, <1>3 DEF ProfileInv, ProfileField
  <2>3. latest[q][g] # "not set" => named'[q][latest[q][g]] = named[q][latest[q][g]]
    <3>1. ASSUME q = p, NEW m \in ProfileName, m # name
          PROVE  named'[q][m] = named[q][m]
        BY <3>1 DEF ProfileInv
    <3>2. CASE q # p
        BY <3>2 DEF ProfileInv
    <3>3. latest[q][g] \in ProfileName \cup {"not set"}
        BY DEF ProfileInv
    <3> QED BY <2>2, <3>1, <3>2, <3>3
  <2> QED BY <2>1, <2>3
<1>4. profile'[p][f] = v /\ latest'[p][f] = name /\ named'[p][name] = v
    BY DEF ProfileInv
<1>5. name # "not set"
    BY DEF ProfileName
<1>6. ASSUME NEW q \in Port
      PROVE  /\ latest'[q]["DSCP_TO_TC"] \in {"not set", "ING_DSCP_TO_TC"}
             /\ latest'[q]["SCHEDULER"] \in {"not set", "EGR_SCHEDULER"}
             /\ latest'[q]["TC_TO_QUEUE"] \in {"not set", "ING_TC_TO_QUEUE", "EGR_TC_TO_QUEUE"}
    BY <1>1, <1>3, <1>4 DEF ProfileInv, ProfileField
<1>7. ASSUME NEW q \in Port, NEW g \in ProfileField
      PROVE  profile'[q][g] = IF latest'[q][g] = "not set" THEN None ELSE named'[q][latest'[q][g]]
  <2>1. CASE q = p /\ g = f
      BY <2>1, <1>4, <1>5
  <2>2. CASE q # p \/ g # f
    <3>1. profile[q][g] = IF latest[q][g] = "not set" THEN None ELSE named[q][latest[q][g]]
        BY DEF ProfileInv
    <3>2. /\ profile'[q][g] = profile[q][g] /\ latest'[q][g] = latest[q][g]
          /\ latest[q][g] # "not set" => named'[q][latest[q][g]] = named[q][latest[q][g]]
        BY <2>2, <1>3
    <3>3. CASE latest[q][g] = "not set"
        BY <3>1, <3>2, <3>3
    <3>4. CASE latest[q][g] # "not set"
        BY <3>1, <3>2, <3>4
    <3> QED BY <3>3, <3>4
  <2> QED BY <2>1, <2>2
<1> QED BY <1>2, <1>6, <1>7 DEF ProfileInv

LEMMA ProfileUnchanged == ProfileInv /\ UNCHANGED profileVars => ProfileInv'
<1> SUFFICES ASSUME ProfileInv, profile' = profile, named' = named, latest' = latest
             PROVE  ProfileInv'
    BY DEF profileVars
<1> QED BY ZenonT(60) DEF ProfileInv

LEMMA SetIngressStep ==
    ASSUME ProfileInv, NEW p \in Port, NEW name \in DOMAIN IngressField, NEW v \in Profile,
           SetIngress(p, name, v)
    PROVE  ProfileInv'
<1>1. CASE UNCHANGED profileVars
    BY <1>1, ProfileUnchanged
<1>2. CASE /\ profile' = [profile EXCEPT ![p][IngressField[name]] = v]
           /\ named' = [named EXCEPT ![p][name] = v]
           /\ latest' = [latest EXCEPT ![p][IngressField[name]] = name]
  <2>1. name \in ProfileName /\ IngressField[name] \in ProfileField
      BY ProfileTables DEF ProfileName, ProfileField
  <2> QED BY <1>2, <2>1, ProfileSet
<1> QED BY <1>1, <1>2 DEF SetIngress

LEMMA SetEgressStep ==
    ASSUME ProfileInv, NEW p \in Port, NEW name \in DOMAIN EgressField, NEW v \in Profile,
           SetEgress(p, name, v)
    PROVE  ProfileInv'
<1>1. CASE UNCHANGED profileVars
    BY <1>1, ProfileUnchanged
<1>2. CASE /\ profile' = [profile EXCEPT ![p][EgressField[name]] = v]
           /\ named' = [named EXCEPT ![p][name] = v]
           /\ latest' = [latest EXCEPT ![p][EgressField[name]] = name]
  <2>1. name \in ProfileName /\ EgressField[name] \in ProfileField
      BY ProfileTables DEF ProfileName, ProfileField
  <2> QED BY <1>2, <2>1, ProfileSet
<1> QED BY <1>1, <1>2 DEF SetEgress

LEMMA ReaderUnchanged == ReaderInv /\ UNCHANGED readerVars => ReaderInv'
BY DEF ReaderInv, CountTo, CountOf, NotReading, readerVars

\* A list is given, and its counting begins if there is something to count.
LEMMA ListQueuesStep ==
    ASSUME ReaderInv, NEW p \in Port, NEW numberToo \in BOOLEAN, ListQueues(p, numberToo)
    PROVE  ReaderInv'
<1>1. PICK queues \in Seq(Node) : queues = QueuesOf(p)
    BY QueuesOfFacts
<1>2. Len(queues) \in Nat
    BY <1>1
<1>3. /\ egress' \in [queues : Seq(Node), all : Nat, ucast : Nat, mcast : Nat]
      /\ egress'.queues = queues /\ egress'.ucast = egress.ucast /\ egress'.mcast = egress.mcast
    BY <1>1, <1>2 DEF ListQueues, ReaderInv
<1>4. /\ counted' = counted
      /\ reading' = IF queues = <<>> THEN NotReading ELSE [at |-> 1, ucast |-> 0, mcast |-> 0]
    BY <1>1 DEF ListQueues
<1>5. counted' \in Seq(Node)
    BY <1>4 DEF ReaderInv
<1>6. /\ egress'.ucast = CountOf("ucast", counted)'
      /\ egress'.mcast = CountOf("mcast", counted)'
    BY <1>3, <1>4 DEF ReaderInv, CountOf
<1>7. CASE queues = <<>>
  <2>1. reading' = NotReading'
      BY <1>4, <1>7 DEF NotReading
  <2> QED BY <1>3, <1>5, <1>6, <1>7, <2>1 DEF ReaderInv
<1>8. CASE queues # <<>>
  <2>1. reading' = [at |-> 1, ucast |-> 0, mcast |-> 0] /\ reading' # NotReading'
      BY <1>4, <1>8 DEF NotReading
  <2>2. 0 < Len(queues)
      BY <1>1, <1>8
  <2>3. CountTo("ucast", queues, 0) = 0 /\ CountTo("mcast", queues, 0) = 0
      BY <1>1, <2>2, CountToFacts
  <2>4. /\ CountTo("ucast", egress.queues, reading.at - 1)' = 0
        /\ CountTo("mcast", egress.queues, reading.at - 1)' = 0
    <3>1. egress'.queues = queues /\ reading'.at - 1 = 0
        BY <1>3, <2>1
    <3> QED BY <2>3, <3>1 DEF CountTo
  <2>5. reading'.at \in 1 .. Len(egress'.queues)
      BY <1>2, <1>3, <2>1, <2>2
  <2> QED BY <1>3, <1>5, <1>6, <2>1, <2>4, <2>5 DEF ReaderInv
<1> QED BY <1>7, <1>8

\* One more queue is counted, and after the last the numbers are the list's.
LEMMA CountQueueStep ==
    ASSUME ReaderInv, CountQueue
    PROVE  ReaderInv'
<1>1. PICK queues \in Seq(Node) : queues = egress.queues
    BY DEF ReaderInv
<1>2. PICK n \in Nat : n + 1 = reading.at /\ n < Len(queues)
  <2>1. reading.at \in 1 .. Len(queues)
      BY <1>1 DEF CountQueue, ReaderInv
  <2>2. Len(queues) \in Nat
      BY <1>1
  <2>3. reading.at - 1 \in Nat /\ (reading.at - 1) + 1 = reading.at /\ reading.at - 1 < Len(queues)
      BY <2>1, <2>2
  <2> QED BY <2>3
<1>3. PICK q : q = queues[n + 1]
    OBVIOUS
<1>4. /\ reading.ucast = CountTo("ucast", queues, n)
      /\ reading.mcast = CountTo("mcast", queues, n)
  <2>1. n = reading.at - 1
      BY <1>2, <1>1 DEF CountQueue, ReaderInv
  <2> QED BY <1>1, <2>1 DEF CountQueue, ReaderInv
<1>5. /\ Tallied(q).at = n + 2
      /\ Tallied(q).ucast = CountTo("ucast", queues, n + 1)
      /\ Tallied(q).mcast = CountTo("mcast", queues, n + 1)
  <2>1. /\ CountTo("ucast", queues, n + 1)
             = CountTo("ucast", queues, n) + (IF KindOf[q] = "ucast" THEN 1 ELSE 0)
        /\ CountTo("mcast", queues, n + 1)
             = CountTo("mcast", queues, n) + (IF KindOf[q] = "mcast" THEN 1 ELSE 0)
      BY <1>2, <1>3, CountToFacts
  <2>2. Tallied(q).at = (n + 1) + 1
      BY <1>2 DEF Tallied
  <2> QED BY <1>4, <2>1, <2>2 DEF Tallied
<1>6. PICK tally : tally = Tallied(q)
    OBVIOUS
<1>7. UNCHANGED unread
    BY DEF CountQueue
<1>8. CASE n + 1 # Len(queues)
  <2>1. reading' = tally /\ egress' = egress /\ counted' = counted
    <3>1. reading.at # Len(egress.queues) /\ q = egress.queues[reading.at]
        BY <1>1, <1>2, <1>3, <1>8
    <3> QED BY <1>6, <3>1 DEF CountQueue
  <2>2. reading'.at \in 1 .. Len(queues) /\ reading'.at - 1 = n + 1
    <3>1. Len(queues) \in Nat
        BY <1>1
    <3> QED BY <1>2, <1>5, <1>6, <1>8, <2>1, <3>1
  <2>3. reading' # NotReading'
      BY <2>2 DEF NotReading
  <2>4. /\ CountTo("ucast", egress.queues, reading.at - 1)' = CountTo("ucast", queues, n + 1)
        /\ CountTo("mcast", egress.queues, reading.at - 1)' = CountTo("mcast", queues, n + 1)
      BY <1>1, <2>1, <2>2 DEF CountTo
  <2>5. /\ CountOf("ucast", counted)' = CountOf("ucast", counted)
        /\ CountOf("mcast", counted)' = CountOf("mcast", counted)
      BY <2>1 DEF CountOf
  <2> QED BY <1>1, <1>5, <1>6, <2>1, <2>2, <2>3, <2>4, <2>5 DEF ReaderInv
<1>9. CASE n + 1 = Len(queues)
  <2>1. reading' = NotReading /\ egress' = Told(tally) /\ counted' = queues
    <3>1. reading.at = Len(egress.queues) /\ q = egress.queues[reading.at]
        BY <1>1, <1>2, <1>3, <1>9
    <3> QED BY <1>1, <1>6, <3>1 DEF CountQueue
  <2>2. /\ egress'.queues = queues /\ egress'.all = n + 1
        /\ egress'.ucast = CountOf("ucast", queues) /\ egress'.mcast = CountOf("mcast", queues)
        /\ egress' \in [queues : Seq(Node), all : Nat, ucast : Nat, mcast : Nat]
    <3>1. /\ CountTo("ucast", queues, n + 1) = CountOf("ucast", queues)
          /\ CountTo("mcast", queues, n + 1) = CountOf("mcast", queues)
          /\ CountTo("ucast", queues, n) \in Nat /\ CountTo("mcast", queues, n) \in Nat
        BY <1>2, <1>9, CountToFacts
    <3>2. /\ CountTo("ucast", queues, n + 1) \in Nat
          /\ CountTo("mcast", queues, n + 1) \in Nat
      <4>1. /\ CountTo("ucast", queues, n + 1)
                 = CountTo("ucast", queues, n) + (IF KindOf[queues[n + 1]] = "ucast" THEN 1 ELSE 0)
            /\ CountTo("mcast", queues, n + 1)
                 = CountTo("mcast", queues, n) + (IF KindOf[queues[n + 1]] = "mcast" THEN 1 ELSE 0)
          BY <1>2, CountToFacts
      <4> QED BY <3>1, <4>1
    <3>3. Told(tally) = [queues |-> queues, all |-> n + 1,
                         ucast |-> CountTo("ucast", queues, n + 1),
                         mcast |-> CountTo("mcast", queues, n + 1)]
      <4>1. tally.at - 1 = n + 1
          BY <1>2, <1>5, <1>6
      <4> QED BY <1>1, <1>5, <1>6, <4>1 DEF Told
    <3> QED BY <2>1, <3>1, <3>2, <3>3
  <2>3. /\ CountOf("ucast", counted)' = CountOf("ucast", queues)
        /\ CountOf("mcast", counted)' = CountOf("mcast", queues)
      BY <2>1 DEF CountOf
  <2>4. reading' = NotReading'
      BY <2>1 DEF NotReading
  <2> QED BY <1>9, <2>1, <2>2, <2>3, <2>4 DEF ReaderInv
<1> QED BY <1>8, <1>9

\* The counting stops, and the numbers stay.
LEMMA CountStopsStep ==
    ASSUME ReaderInv, CountStops
    PROVE  ReaderInv'
<1>1. reading' = NotReading' /\ unread' = TRUE /\ egress' = egress /\ counted' = counted
    BY DEF CountStops, NotReading
<1>2. /\ CountOf("ucast", counted)' = CountOf("ucast", counted)
      /\ CountOf("mcast", counted)' = CountOf("mcast", counted)
    BY <1>1 DEF CountOf
<1> QED BY <1>1, <1>2 DEF ReaderInv

LEMMA QosNextStep ==
    ASSUME QosInv, QosNext
    PROVE  QosInv'
<1> USE DEF QosInv
<1>1. CASE \/ \E n \in Node, p \in Port, parent \in Node \cup {None} :
                 CreateQueue(n, p, parent) \/ CreateGroup(n, p, parent)
           \/ \E n \in Node, parent \in Node \cup {None} :
                 SetQueueParent(n, parent) \/ SetGroupParent(n, parent)
           \/ \E n \in Node : DeleteQueue(n) \/ DeleteGroup(n)
  <2>1. UNCHANGED <<profileVars, readerVars>>
      BY <1>1 DEF CreateQueue, CreateGroup, SetQueueParent, SetGroupParent, DeleteQueue, DeleteGroup
  <2> QED BY <2>1, ProfileUnchanged, ReaderUnchanged
<1>2. CASE \E p \in Port, v \in Profile :
               \/ \E name \in DOMAIN IngressField : SetIngress(p, name, v)
               \/ \E name \in DOMAIN EgressField : SetEgress(p, name, v)
  <2>1. ProfileInv'
      BY <1>2, SetIngressStep, SetEgressStep
  <2>2. UNCHANGED readerVars
      BY <1>2 DEF SetIngress, SetEgress
  <2> QED BY <2>1, <2>2, ReaderUnchanged
<1>3. CASE \/ \E p \in Port, numberToo \in BOOLEAN : ListQueues(p, numberToo)
           \/ CountQueue \/ CountStops
  <2>1. ReaderInv'
      BY <1>3, ListQueuesStep, CountQueueStep, CountStopsStep
  <2>2. UNCHANGED profileVars
      BY <1>3 DEF ListQueues, CountQueue, CountStops
  <2> QED BY <2>1, <2>2, ProfileUnchanged
<1> QED BY <1>1, <1>2, <1>3 DEF QosNext

\* The profiles go with a port.
LEMMA QosPortGoneStep ==
    ASSUME QosInv, NEW p \in Port, QosPortGone(p)
    PROVE  QosInv'
<1>1. /\ profile' = [profile EXCEPT ![p] = [f \in ProfileField |-> None]]
      /\ named' = [named EXCEPT ![p] = [n \in ProfileName |-> None]]
      /\ latest' = [latest EXCEPT ![p] = [f \in ProfileField |-> "not set"]]
    BY NoProfileFacts DEF QosPortGone
<1>2. ProfileInv'
    BY <1>1 DEF QosInv, ProfileInv, ProfileField, ProfileName
<1>3. ReaderInv'
    BY ReaderUnchanged DEF QosInv, QosPortGone
<1> QED BY <1>2, <1>3 DEF QosInv

\* A profile is read back as it was set last under any of its names.
LEMMA ProfileInvImplies == ProfileInv => ProfilesAsTold
<1> SUFFICES ASSUME ProfileInv, NEW p \in Port
             PROVE  /\ \A n \in DOMAIN IngressField :
                          GetIngress(p, DOMAIN IngressField)[n] =
                             IF latest[p][FieldNamed(n)] = "not set" THEN None
                             ELSE named[p][latest[p][FieldNamed(n)]]
                    /\ \A n \in DOMAIN EgressField :
                          GetEgress(p, DOMAIN EgressField)[n] =
                             IF latest[p][FieldNamed(n)] = "not set" THEN None
                             ELSE named[p][latest[p][FieldNamed(n)]]
    BY DEF ProfilesAsTold, GetIngress, GetEgress
<1>1. ASSUME NEW n \in DOMAIN IngressField
      PROVE  /\ FieldNamed(n) \in ProfileField
             /\ GetIngress(p, DOMAIN IngressField)[n] = profile[p][FieldNamed(n)]
  <2>1. FieldNamed(n) = IngressField[n]
      BY DEF FieldNamed
  <2>2. IngressField[n] \in ProfileField
      BY ProfileTables DEF ProfileField
  <2> QED BY <2>1, <2>2 DEF GetIngress
<1>2. ASSUME NEW n \in DOMAIN EgressField
      PROVE  /\ FieldNamed(n) \in ProfileField
             /\ GetEgress(p, DOMAIN EgressField)[n] = profile[p][FieldNamed(n)]
  <2>1. FieldNamed(n) = EgressField[n]
      BY ProfileTables DEF FieldNamed
  <2>2. EgressField[n] \in ProfileField
      BY ProfileTables DEF ProfileField
  <2> QED BY <2>1, <2>2 DEF GetEgress
<1> QED BY <1>1, <1>2 DEF ProfileInv

LEMMA ReaderInvImplies == ReaderInv => QueueNumbersCounted
BY DEF ReaderInv, QueueNumbersCounted, QueueNumbers

-----------------------------------------------------------------------------
(* Mirroring, ACL, QoS and statistics together.                            *)

\* The invariant of each part; the ports tie them only where a port goes.
PolicyInv == MirrorInv /\ AclInv /\ QosInv /\ StatsInv

LEMMA PolicyInitInv == Init => PolicyInv
BY MirrorInitInv, AclInitInv, QosInitInv, StatsInitInv DEF Init, PolicyInv

LEMMA MirrorUnchanged == MirrorInv /\ UNCHANGED mirrorVars => MirrorInv'
BY DEF MirrorInv, MirrorTypeOK, MirroredAsTold, Settled, mirrorVars

LEMMA AclUnchanged == AclInv /\ UNCHANGED aclVars => AclInv'
BY DEF AclInv, aclVars

LEMMA QosUnchanged == QosInv /\ UNCHANGED qosVars => QosInv'
BY ProfileUnchanged, ReaderUnchanged DEF QosInv, qosVars

LEMMA StatsUnchanged == StatsInv /\ UNCHANGED statVars => StatsInv'
BY DEF StatsInv, CountsKept, statVars

LEMMA PolicyNextStep == PolicyInv /\ [Next]_vars => PolicyInv'
<1> SUFFICES ASSUME MirrorInv, AclInv, QosInv, StatsInv, [Next]_vars
             PROVE  PolicyInv'
    BY DEF PolicyInv
<1>1. ASSUME NEW p \in Port, PortGone(p)
      PROVE  PolicyInv'
  <2>1. MirrorPortGone(p) /\ QosPortGone(p) /\ UNCHANGED <<aclVars, statVars>>
      BY <1>1 DEF PortGone
  <2> QED BY <2>1, MirrorPortGoneStep, QosPortGoneStep, AclUnchanged, StatsUnchanged DEF PolicyInv
<1>2. ASSUME NEW p \in Port, PortBack(p)
      PROVE  PolicyInv'
  <2>1. UNCHANGED <<mirrorVars, aclVars, qosVars, statVars>>
      BY <1>2 DEF PortBack
  <2> QED BY <2>1, MirrorUnchanged, AclUnchanged, QosUnchanged, StatsUnchanged DEF PolicyInv
<1>3. CASE MirrorNext(SessionsInAcl) /\ UNCHANGED <<mapped, aclVars, qosVars, statVars>>
    BY <1>3, MirrorNextStep, AclUnchanged, QosUnchanged, StatsUnchanged DEF PolicyInv
<1>4. CASE /\ AclNext({s \in Session : session[s] # None})
           /\ UNCHANGED <<mapped, mirrorVars, qosVars, statVars>>
    BY <1>4, AclNextStep, MirrorUnchanged, QosUnchanged, StatsUnchanged DEF PolicyInv
<1>5. CASE QosNext /\ UNCHANGED <<mapped, mirrorVars, aclVars, statVars>>
    BY <1>5, QosNextStep, MirrorUnchanged, AclUnchanged, StatsUnchanged DEF PolicyInv
<1>6. CASE StatsNext /\ UNCHANGED <<mapped, mirrorVars, aclVars, qosVars>>
    BY <1>6, StatsNextStep, MirrorUnchanged, AclUnchanged, QosUnchanged DEF PolicyInv
<1>7. CASE UNCHANGED vars
  <2>1. UNCHANGED <<mirrorVars, aclVars, qosVars, statVars>>
      BY <1>7 DEF vars
  <2> QED BY <2>1, MirrorUnchanged, AclUnchanged, QosUnchanged, StatsUnchanged DEF PolicyInv
<1> QED BY <1>1, <1>2, <1>3, <1>4, <1>5, <1>6, <1>7 DEF Next

\* PolicyInv holds in every state of every instance.
THEOREM PolicyInvariance == Spec => []PolicyInv
    BY PolicyInitInv, PolicyNextStep, PTL DEF Spec

\* A refused session does not stay in the list and an enabled one is not lost:
\* the list of a port's sessions, SAI's and what the NAS was told agree.
THEOREM MirroredAlwaysAsTold == Spec => []MirroredAsTold
<1>1. PolicyInv => MirroredAsTold
    BY DEF PolicyInv, MirrorInv
<1> QED BY <1>1, PolicyInvariance, PTL

\* SAI has of an ACL entry what the NAS was told it has, but for the attributes
\* that EntriesAsTold leaves out: one set or disabled under two rival names and a
\* later UDF that disabling the first leaves.  It has of a table the attributes of
\* its types, and of a port, under each name of a profile, what was set last under
\* any name of the same attribute.
THEOREM AttributesAlwaysAsTold == Spec => []AttributesAsTold
<1>1. PolicyInv => AttributesAsTold
    BY AclInvImplies, ProfileInvImplies DEF PolicyInv, QosInv, AttributesAsTold
<1> QED BY <1>1, PolicyInvariance, PTL

\* A poller that reads and clears is given everything that was counted, once.
THEOREM CountsAlwaysKept == Spec => []CountsKept
<1>1. PolicyInv => CountsKept
    BY DEF PolicyInv, StatsInv
<1> QED BY <1>1, PolicyInvariance, PTL

\* The numbers of a port's queues by type are those of one whole list, for any
\* queues of any type that come and go while they are counted; and of the list
\* beside them, when the last call listed queues and could read each of them.
THEOREM QueueNumbersAlwaysCounted == Spec => []QueueNumbersCounted
<1>1. PolicyInv => QueueNumbersCounted
    BY ReaderInvImplies DEF PolicyInv, QosInv
<1> QED BY <1>1, PolicyInvariance, PTL
=============================================================================
