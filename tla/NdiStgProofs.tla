---------------------------- MODULE NdiStgProofs ----------------------------
(***************************************************************************)
(* The safety of NdiStg for any instances, ports and bridge ports, any     *)
(* number of threads that create and delete bridge ports, and any set of   *)
(* failing SAI calls.                                                      *)
(*                                                                         *)
(* The thread that holds _stp_member_mutex is not alone: the deletion of   *)
(* an instance and the fill of the lists at the start do without it.  So   *)
(* the invariant says of each list what it holds apart from what is on its *)
(* way in (PendId, PendPort) and on its way out (Victim), and that SAI has *)
(* at most one STP port for an instance and a bridge port, none while an   *)
(* earlier one leaves the lists (OneStp): this is what the two inserts and *)
(* the two deletes of nas_ndi_map rest on.                                 *)
(***************************************************************************)
EXTENDS NdiStg, FiniteSetTheorems, FunctionTheorems, WellFoundedInduction, TLAPS

-----------------------------------------------------------------------------
(* What the proofs assume of the constants beyond StgAssumption.           *)

\* One thread sets port states and handles instances, as NAS does; the lists
\* are filled before bridge ports come and go; an entry of a list SAI has not
\* filled reads as no object at most; SAI has room for finitely many STP ports.
Orderly ==
    /\ \A t, u \in Setter : t = u
    /\ BootRace = FALSE
    /\ Garbage \subseteq {Null}
    /\ IsFiniteSet(StpOid)

-----------------------------------------------------------------------------
(* The inductive invariant.                                                *)

NewPC == {"new_stp", "cache_id", "cache_port", "new_cache"}
UncachePC == {"uncache_get", "uncache_id", "uncache_port"}
DelPC == {"del_lock", "del_list", "del_stp", "del_brport"}
CachePC == {"cache_id", "boot_cache_id", "cache_port", "boot_cache_port"}

Live(s, g, b) == stp[s] = <<g, b>>
Listed(s, g, b) == \E i \in 1 .. Len(portList[b]) : portList[b][i] = <<s, g>>
Indexed(s, g, b) == \E i \in 1 .. Len(idList[<<g, b>>]) : idList[<<g, b>>][i] = s

\* STP port s is in no list yet: SAI made it at the start and
\* ndi_stg_get_default_id has not come to it, or the insert is still to come.
BootPending(s) ==
    /\ stp[s] # Null /\ stp[s][1] = DefaultStg
    /\ \/ defaultStg = Null
       \/ \E t \in Setter : \/ th[t].pc = "boot_list"
                            \/ th[t].pc \in BootPC /\ <<s, DefaultStg>> \in th[t].todo
PendId(s) ==
    \/ BootPending(s)
    \/ \E t \in Thread : th[t].pc \in {"cache_id", "boot_cache_id"} /\ th[t].oid = s
PendPort(s) ==
    \/ BootPending(s)
    \/ \E t \in Thread : th[t].pc \in CachePC /\ th[t].oid = s

\* Thread t has removed STP port s of instance g and bridge port b from SAI
\* and has not taken it from the lists yet.
Victim(t, s, g, b) ==
    /\ th[t].stg = g /\ th[t].brport = b
    /\ \/ th[t].pc = "uncache_get" /\ (t \in Setter => th[t].oid = s)
       \/ th[t].pc \in {"uncache_id", "uncache_port"} /\ th[t].oid = s

Holds(t) ==
    \/ th[t].pc \in {"cache_id", "cache_port", "del_list", "del_stp", "del_brport"}
    \/ t \in Porter /\ th[t].pc \in UncachePC

PCs == SharedPC \cup SetterPC \cup PorterPC
ThreadRec ==
    [pc : PCs,
     inst : Stg \cup {Null}, stg : Stg \cup {Null}, port : Port \cup {Null},
     brport : Brport \cup {Null}, oid : StpOid \cup {Null}, n : Nat,
     todo : SUBSET ((StpOid \cup {Null}) \X Stg)]

\* A thread has set what the steps from its pc on use.
ThreadOK(t) ==
    /\ th[t].pc \in SharedPC \cup (IF t \in Setter THEN SetterPC ELSE PorterPC)
    /\ t \in Setter => th[t].port = Null
    /\ t \in Porter /\ th[t].pc \in DelPC \cup {"uncache_get"} => th[t].oid = Null
    /\ th[t].pc = "idle" => th[t].brport = Null /\ th[t].oid = Null /\ th[t].todo = {}
    /\ th[t].pc \in NewPC \cup UncachePC \cup DelPC \cup CachePC
          \cup {"set_lookup", "set_create", "stg_stp"} => th[t].brport \in Brport
    /\ th[t].pc \in UncachePC \cup CachePC \cup {"new_stp", "set_lookup", "set_create", "stg_stp"}
          => th[t].stg \in Stg
    /\ th[t].pc \in CachePC \cup {"stg_stp"} => th[t].oid \in StpOid
    /\ th[t].pc \in {"stg_list", "stg_attr", "stg_stp", "stg_remove"} \cup BootPC
          => th[t].inst \in Stg

TypesOK ==
    /\ DefaultStg \in stgs /\ stgs \subseteq Stg
    /\ stp \in [StpOid -> {Null} \cup (Stg \X Brport)]
    /\ brports \in [Brport -> Port \cup {Null}]
    /\ brCache \in [Port -> Brport \cup {Null}]
    /\ defaultStg \in {Null, DefaultStg}
    /\ idList \in [Stg \X Brport -> Seq(StpOid)]
    /\ portList \in [Brport -> Seq(StpOid \X Stg)]
    /\ mutex \in Thread \cup {Null}
    /\ hurt \subseteq Brport
    /\ th \in [Thread -> ThreadRec]
    /\ \A t \in Thread : ThreadOK(t)

MutexInv == \A t \in Thread : mutex = t <=> Holds(t)

\* A bridge port in the cache, or with STP ports, is in SAI; SAI has one for
\* a port; and a thread that deletes it has the port it is of.
BrportInv ==
    /\ \A p \in Port : brCache[p] # Null => brports[brCache[p]] = p
    /\ \A b, c \in Brport : brports[b] = brports[c] /\ brports[b] # Null => b = c
    /\ \A s \in StpOid : stp[s] # Null => brports[stp[s][2]] # Null
    /\ \A t \in Porter : th[t].pc \in DelPC \cup UncachePC =>
          th[t].port \in Port /\ brports[th[t].brport] \in {th[t].port, Null}

\* A bridge port being created is its thread's alone.
NewInv(t) ==
    LET b == th[t].brport
    IN  /\ brports[b] = th[t].port /\ th[t].port \in Port
        /\ \A u \in Thread \ {t} : th[u].brport # b
        /\ \A p \in Port : brCache[p] # b
        /\ th[t].pc # "new_cache" => th[t].stg = DefaultStg
        /\ th[t].pc = "new_stp" => OnBrport(b) = {}
        /\ th[t].pc # "new_stp" => \A s \in OnBrport(b) : stp[s][1] = DefaultStg
NewsInv == \A t \in Porter : th[t].pc \in NewPC => NewInv(t)

\* What a thread that adds an STP port to the lists holds is in SAI.
CachingInv == \A t \in Thread : th[t].pc \in CachePC => Live(th[t].oid, th[t].stg, th[t].brport)

\* The deletion of an instance handles STP ports of that instance, if any.
DeletesInv(t) ==
    /\ th[t].inst # DefaultStg
    /\ \A e \in th[t].todo :
          e[2] = th[t].inst /\ (e[1] # Null => stp[e[1]] = Null \/ stp[e[1]][1] = th[t].inst)
    /\ th[t].pc # "stg_attr" =>
          /\ th[t].stg = th[t].inst
          /\ th[t].pc = "stg_stp" => stp[th[t].oid] \in {Null, <<th[t].stg, th[t].brport>>}
SetterInv ==
    \A t \in Setter :
        /\ th[t].pc \in {"stg_list", "stg_remove"} => th[t].inst # DefaultStg
        /\ th[t].pc \in {"stg_attr", "stg_stp"} \cup UncachePC => DeletesInv(t)
        /\ th[t].pc \in {"set_lookup", "set_create"} =>
              (th[t].stg = DefaultStg => defaultStg # Null)
        /\ th[t].pc \in {"cache_id", "cache_port"} =>
              (th[t].stg = DefaultStg => defaultStg # Null)
        /\ th[t].pc = "set_create" => \A s \in StpOid : ~ Live(s, th[t].stg, th[t].brport)

\* Until the lists are filled no bridge port comes or goes.
BootInv ==
    /\ \A t \in Porter : th[t].pc # "idle" =>
          defaultStg # Null /\ \A u \in Setter : th[u].pc \notin BootPC
    /\ \A t \in Setter : th[t].pc \in BootPC =>
          /\ defaultStg # Null /\ th[t].inst = DefaultStg
          /\ th[t].pc = "boot_list" => th[t].n = Cardinality(InStg(DefaultStg))
          /\ \A e \in th[t].todo : e[1] # Null /\ stp[e[1]] # Null
                                   /\ stp[e[1]][1] = DefaultStg /\ e[2] = DefaultStg
          /\ th[t].pc \in {"boot_cache_id", "boot_cache_port"} =>
                th[t].stg = DefaultStg /\ <<th[t].oid, DefaultStg>> \notin th[t].todo

\* SAI has one STP port for an instance and a bridge port, and none while
\* one of them is being taken from the lists.
OneStp ==
    /\ \A s, u \in StpOid : stp[s] = stp[u] /\ stp[s] # Null => s = u
    /\ \A t \in Thread : th[t].pc \in UncachePC =>
          /\ \A s \in StpOid : ~ Live(s, th[t].stg, th[t].brport)
          /\ th[t].oid # Null => stp[th[t].oid] = Null
          /\ \A u \in Thread : th[u].pc \in UncachePC /\ th[u].stg = th[t].stg
                               /\ th[u].brport = th[t].brport => u = t

\* The first list: the STP ports of SAI but for those on their way in or out.
IdInv ==
    \A g \in Stg, b \in Brport :
        /\ Len(idList[<<g, b>>]) \in {0, 1}
        /\ \A s \in StpOid : Live(s, g, b) => (Indexed(s, g, b) <=> ~ PendId(s))
        /\ \A s \in StpOid : Indexed(s, g, b) => 
              \/ Live(s, g, b)
              \/ stp[s] = Null /\ \E t \in Thread : Victim(t, s, g, b) /\ th[t].pc # "uncache_port"

\* No two entries of a list are of one STP port.
OneEach(list) == \A i, j \in 1 .. Len(list) : list[i][1] = list[j][1] => i = j

\* The second list, which holds each of them once.
PortInv ==
    \A b \in Brport :
        /\ OneEach(portList[b])
        /\ \A g \in Stg, s \in StpOid : Live(s, g, b) => (Listed(s, g, b) <=> ~ PendPort(s))
        /\ \A g \in Stg, s \in StpOid : Listed(s, g, b) =>
              \/ Live(s, g, b)
              \/ stp[s] = Null /\ \E t \in Thread :
                    Victim(t, s, g, b) /\ (th[t].pc = "uncache_get" => Indexed(s, g, b))

\* A deletion that nothing has stopped has all STP ports of its bridge port
\* still to do.
DeletionInv ==
    \A t \in Porter :
        /\ th[t].pc \in {"del_stp"} \cup UncachePC =>
              /\ \A e \in th[t].todo :
                    e[1] # Null /\ stp[e[1]] \in {Null, <<e[2], th[t].brport>>}
              /\ th[t].brport \notin hurt =>
                    \A s \in OnBrport(th[t].brport) : <<s, stp[s][1]>> \in th[t].todo
        /\ th[t].pc = "del_list" => Len(portList[th[t].brport]) <= th[t].n
        /\ th[t].pc = "del_brport" /\ th[t].brport \notin hurt => OnBrport(th[t].brport) = {}

\* A bridge port about to enter the cache, or in it, is in the default
\* instance, but for one that a stopped deletion has left.
DefaultInv ==
    /\ InDefaultStg
    /\ \A t \in Porter : th[t].pc = "new_cache" =>
          InStg(DefaultStg) \cap OnBrport(th[t].brport) # {}

IInv ==
    /\ TypesOK /\ MutexInv /\ BrportInv /\ NewsInv /\ CachingInv /\ SetterInv
    /\ BootInv /\ OneStp /\ IdInv /\ PortInv /\ DeletionInv /\ DefaultInv
-----------------------------------------------------------------------------
LEMMA NatLeast ==
    ASSUME NEW S \in SUBSET Nat, S # {}
    PROVE  \E x \in S : \A y \in S : x <= y
<1> DEFINE R == OpToRel(<, Nat)
<1>1. IsWellFoundedOn(R, Nat)
  BY NatLessThanWellFounded
<1>2. \E x \in S : \A y \in S : ~ (<<y, x>> \in R)
  <2> HIDE DEF R
  <2> QED BY <1>1, WFMin
<1>3. \A x, y \in Nat : y < x => <<y, x>> \in R
  BY DEF OpToRel
<1>4. ASSUME NEW x \in S, NEW y \in S, ~ (<<y, x>> \in R)
      PROVE  x <= y
  <2> HIDE DEF R
  <2>1. x \in Int /\ y \in Int
    OBVIOUS
  <2> QED BY <1>3, <1>4, <2>1
<1> HIDE DEF R
<1> QED BY <1>2, <1>4

LEMMA Upto ==
    ASSUME NEW S \in SUBSET Nat, 0 \in S, \A n \in S : n + 1 \in S
    PROVE  S = Nat
<1> SUFFICES ASSUME Nat \ S # {} PROVE FALSE
  OBVIOUS
<1>1. PICK x \in Nat \ S : \A y \in Nat \ S : x <= y
  BY NatLeast
<1>2. x # 0 /\ x - 1 \in Nat
  BY <1>1
<1>3. x - 1 \in S
  BY <1>1, <1>2
<1> QED BY <1>1, <1>3

WithoutStep(f, list, s, i) ==
    IF i = 0 THEN <<>>
    ELSE IF list[i][1] = s THEN f[i-1] ELSE Append(f[i-1], list[i])

LEMMA WithoutUnfolds ==
    ASSUME NEW list, NEW s, Len(list) \in Nat
    PROVE  \E f : /\ Without(list, s) = f[Len(list)]
                  /\ f[0] = <<>>
                  /\ \A i \in 1 .. Len(list) :
                        f[i] = IF list[i][1] = s THEN f[i-1] ELSE Append(f[i-1], list[i])
<1> DEFINE Fun(f, n) == f = [i \in 0 .. n |-> WithoutStep(f, list, s, i)]
           T == {n \in Nat : \E f : Fun(f, n)}
           kept == CHOOSE f : Fun(f, Len(list))
<1>1. 0 \in T
  <2>1. Fun([i \in 0 .. 0 |-> <<>>], 0)
    BY DEF WithoutStep
  <2> QED BY <2>1
<1>2. ASSUME NEW n \in T
      PROVE  n + 1 \in T
  <2>1. PICK f : Fun(f, n)
    OBVIOUS
  <2> DEFINE h == [i \in 0 .. n + 1 |-> IF i <= n THEN f[i] ELSE WithoutStep(f, list, s, i)]
  <2>2. ASSUME NEW i \in 0 .. n + 1
        PROVE  h[i] = WithoutStep(h, list, s, i)
    <3>1. CASE i = 0
      BY <2>1, <3>1 DEF WithoutStep
    <3>2. CASE i # 0
      <4>1. i - 1 \in 0 .. n /\ h[i-1] = f[i-1]
        BY <3>2
      <4>2. WithoutStep(h, list, s, i) = WithoutStep(f, list, s, i)
        BY <4>1, <3>2 DEF WithoutStep
      <4>3. h[i] = WithoutStep(f, list, s, i)
        BY <2>1
      <4> QED BY <4>2, <4>3
    <3> QED BY <3>1, <3>2
  <2>3. Fun(h, n + 1)
    BY <2>2
  <2> QED BY <2>3
<1>3. T = Nat
  <2> HIDE DEF T
  <2>1. T \in SUBSET Nat
    BY DEF T
  <2> QED BY <1>1, <1>2, <2>1, Upto
<1>4. Fun(kept, Len(list))
  BY <1>3
<1>5. Without(list, s) = kept[Len(list)]
  BY DEF Without, WithoutStep
<1>6. \A i \in 0 .. Len(list) : kept[i] = WithoutStep(kept, list, s, i)
  <2> HIDE DEF kept
  <2> QED BY <1>4
<1> HIDE DEF kept
<1>7. kept[0] = <<>>
  BY <1>6 DEF WithoutStep
<1>8. ASSUME NEW i \in 1 .. Len(list)
      PROVE  kept[i] = IF list[i][1] = s THEN kept[i-1] ELSE Append(kept[i-1], list[i])
  <2>1. i \in 0 .. Len(list) /\ i # 0
    OBVIOUS
  <2> QED BY <1>6, <2>1 DEF WithoutStep
<1> QED BY <1>5, <1>7, <1>8

LEMMA AppendFacts ==
    ASSUME NEW S, NEW list \in Seq(S), NEW e \in S
    PROVE  /\ Append(list, e) \in Seq(S) /\ Len(Append(list, e)) = Len(list) + 1
           /\ \A i \in 1 .. Len(list) : Append(list, e)[i] = list[i]
           /\ Append(list, e)[Len(list) + 1] = e
  OBVIOUS

LEMMA WithoutFacts ==
    ASSUME NEW S, NEW list \in Seq(S), NEW s
    PROVE  /\ Without(list, s) \in Seq(S) /\ Len(Without(list, s)) <= Len(list)
           /\ \A e : (\E i \in 1 .. Len(Without(list, s)) : Without(list, s)[i] = e)
                    <=> (e[1] # s /\ \E i \in 1 .. Len(list) : list[i] = e)
           /\ OneEach(list) => OneEach(Without(list, s))
<1>1. Len(list) \in Nat /\ \A i \in 1 .. Len(list) : list[i] \in S
  OBVIOUS
<1>2. PICK f : /\ Without(list, s) = f[Len(list)]
               /\ f[0] = <<>>
               /\ \A i \in 1 .. Len(list) :
                     f[i] = IF list[i][1] = s THEN f[i-1] ELSE Append(f[i-1], list[i])
  BY <1>1, WithoutUnfolds
<1> DEFINE Ok(n) == /\ f[n] \in Seq(S) /\ Len(f[n]) <= n
                    /\ \A e : (\E i \in 1 .. Len(f[n]) : f[n][i] = e)
                             <=> (e[1] # s /\ \E i \in 1 .. n : list[i] = e)
                    /\ OneEach(list) => OneEach(f[n])
           T == {n \in Nat : n <= Len(list) => Ok(n)}
<1>3. 0 \in T
  <2>1. f[0] \in Seq(S) /\ Len(f[0]) = 0
    BY <1>2
  <2>2. Ok(0)
    BY <2>1 DEF OneEach
  <2> QED BY <2>2
<1>4. ASSUME NEW n \in T
      PROVE  n + 1 \in T
  <2>0. n \in Nat /\ n + 1 \in Nat
    OBVIOUS
  <2> SUFFICES ASSUME n + 1 <= Len(list)
               PROVE  Ok(n + 1)
    <3> HIDE DEF Ok
    <3> QED BY <2>0
  <2>1. n \in Nat /\ n + 1 \in 1 .. Len(list) /\ Ok(n) /\ (n + 1) - 1 = n
    <3>1. n \in Nat /\ (n <= Len(list) => Ok(n))
      OBVIOUS
    <3>2. n <= Len(list) /\ n + 1 \in 1 .. Len(list) /\ (n + 1) - 1 = n
      <4> HIDE DEF Ok
      <4> QED BY <1>1, <3>1
    <3> HIDE DEF Ok
    <3> QED BY <3>1, <3>2
  <2>2. f[n+1] = IF list[n+1][1] = s THEN f[n] ELSE Append(f[n], list[n+1])
    BY <1>2, <2>1
  <2>3. CASE list[n+1][1] = s
    <3>1. f[n+1] = f[n]
      BY <2>2, <2>3
    <3>2. \A e : e[1] # s => ((\E i \in 1 .. n + 1 : list[i] = e) <=> \E i \in 1 .. n : list[i] = e)
      BY <2>1, <2>3
    <3>3. Len(f[n]) \in Nat /\ Len(f[n]) <= n
      BY <2>1
    <3>4. Len(f[n+1]) <= n + 1
      BY <2>1, <3>1, <3>3
    <3> QED BY <2>1, <3>1, <3>2, <3>4
  <2>4. CASE list[n+1][1] # s
    <3> DEFINE k == Len(f[n]) 
               g == f[n+1]
               h == f[n]
    <3>1. g = Append(h, list[n+1]) /\ h \in Seq(S) /\ list[n+1] \in S
      BY <1>1, <2>1, <2>2, <2>4
    <3>2. /\ g \in Seq(S) /\ Len(g) = k + 1 /\ k \in Nat
          /\ \A i \in 1 .. k : g[i] = h[i]
          /\ g[k+1] = list[n+1]
      <4> HIDE DEF g, h
      <4>1. Len(h) \in Nat
        BY <3>1
      <4> QED BY <3>1, <4>1, AppendFacts DEF h
    <3>3. \A e : (\E i \in 1 .. k + 1 : g[i] = e)
                <=> (e = list[n+1] \/ \E i \in 1 .. k : h[i] = e)
      <4> HIDE DEF g, h, k
      <4> QED BY <3>2
    <3>4. \A e : (\E i \in 1 .. n + 1 : list[i] = e)
                <=> (e = list[n+1] \/ \E i \in 1 .. n : list[i] = e)
      BY <2>1
    <3>5. \A e : (\E i \in 1 .. Len(g) : g[i] = e)
                <=> (e[1] # s /\ \E i \in 1 .. n + 1 : list[i] = e)
      BY <2>1, <2>4, <3>2, <3>3, <3>4
    <3>6. ASSUME OneEach(list)
          PROVE  OneEach(g)
      <4>1. OneEach(h)
        BY <2>1, <3>6
      <4>2. \A i \in 1 .. k : h[i][1] # list[n+1][1]
        <5> SUFFICES ASSUME NEW i \in 1 .. k
                     PROVE  h[i][1] # list[n+1][1]
          OBVIOUS
        <5>1. PICK j \in 1 .. n : list[j] = h[i]
          BY <2>1
        <5>2. j \in 1 .. Len(list) /\ j # n + 1
          BY <2>1
        <5> QED BY <2>1, <3>6, <5>1, <5>2 DEF OneEach
      <4>3. \A i, j \in 1 .. k : h[i][1] = h[j][1] => i = j
        BY <4>1 DEF OneEach
      <4> HIDE DEF g, h, k
      <4>4. \A i, j \in 1 .. k + 1 : g[i][1] = g[j][1] => i = j
        <5> SUFFICES ASSUME NEW i \in 1 .. k + 1, NEW j \in 1 .. k + 1, g[i][1] = g[j][1]
                     PROVE  i = j
          OBVIOUS
        <5>1. CASE i = k + 1 /\ j # k + 1
          BY <3>2, <4>2, <5>1
        <5>2. CASE j = k + 1 /\ i # k + 1
          BY <3>2, <4>2, <5>2
        <5>3. CASE i # k + 1 /\ j # k + 1
          <6>1. i \in 1 .. k /\ j \in 1 .. k
            BY <3>2, <5>3
          <6> QED BY <3>2, <4>3, <6>1
        <5> QED BY <5>1, <5>2, <5>3
      <4> QED BY <3>2, <4>4 DEF OneEach
    <3> QED BY <3>2, <3>5, <3>6
  <2> QED BY <2>3, <2>4
<1>5. T = Nat
  <2> HIDE DEF T
  <2>1. T \in SUBSET Nat
    BY DEF T
  <2> QED BY <1>3, <1>4, <2>1, Upto
<1>6. Ok(Len(list))
  <2> HIDE DEF Ok
  <2> QED BY <1>1, <1>5
<1> QED BY <1>2, <1>6

-----------------------------------------------------------------------------
(* Steps and what they leave alone.                                        *)

\* Only thread t moves.
OnlyMoves(t) == \A u \in Thread : u # t => th'[u] = th[u]

\* Thread t takes no part in what the lists hold.
Aside(t) == th[t].pc \notin UncachePC \cup CachePC \cup BootPC

LEMMA Moves ==
    ASSUME NEW t \in Thread, NEW r, TypesOK, Step(t, r)
    PROVE  th'[t] = r /\ OnlyMoves(t)
  BY DEF Step, TypesOK, OnlyMoves

LEMMA Threads ==
    ASSUME StgAssumption
    PROVE  /\ \A t \in Thread : t \in Setter \/ t \in Porter
           /\ \A t \in Setter : t \in Thread /\ t \notin Porter
           /\ \A t \in Porter : t \in Thread /\ t \notin Setter
           /\ Null \notin Thread
  BY DEF StgAssumption, Thread

LEMMA QuietTypes ==
    ASSUME TypesOK, NEW t \in Thread, th'[t] \in ThreadRec, ThreadOK(t)', OnlyMoves(t),
           th' = [th EXCEPT ![t] = th'[t]]
    PROVE  th' \in [Thread -> ThreadRec] /\ \A u \in Thread : ThreadOK(u)'
<1>1. th' \in [Thread -> ThreadRec]
  BY DEF TypesOK
<1>2. ASSUME NEW u \in Thread, u # t
      PROVE  ThreadOK(u)'
  <2>1. th'[u] = th[u] /\ ThreadOK(u)
    BY <1>2 DEF TypesOK, OnlyMoves
  <2> QED BY <2>1 DEF ThreadOK
<1> QED BY <1>1, <1>2

\* What waits for an insert still does, if thread t inserts nothing.
LEMMA PendingKept ==
    ASSUME StgAssumption, NEW t \in Thread, OnlyMoves(t),
           th[t].pc \notin CachePC \cup BootPC, th'[t].pc \notin CachePC \cup BootPC,
           defaultStg' = defaultStg, NEW s, stp'[s] = stp[s]
    PROVE  (PendId(s)' <=> PendId(s)) /\ (PendPort(s)' <=> PendPort(s))
<1> USE StgAssumption DEF OnlyMoves, Thread
<1>1. BootPending(s)' <=> BootPending(s)
  BY DEF BootPending, BootPC
<1>2. \A u \in Thread : (th'[u].pc \in CachePC /\ th'[u].oid = s)
                        <=> (th[u].pc \in CachePC /\ th[u].oid = s)
  OBVIOUS
<1>3. \A u \in Thread : (th'[u].pc \in {"cache_id", "boot_cache_id"} /\ th'[u].oid = s)
                        <=> (th[u].pc \in {"cache_id", "boot_cache_id"} /\ th[u].oid = s)
  BY DEF CachePC
<1> QED BY <1>1, <1>2, <1>3 DEF PendId, PendPort

\* The lists are exact after a step that leaves them and SAI alone, and what
\* is pending.
LEMMA ListsKept ==
    ASSUME IInv, NEW t \in Thread, OnlyMoves(t),
           th[t].pc \notin UncachePC, th'[t].pc \notin UncachePC,
           UNCHANGED <<stp, idList, portList>>,
           \A s \in StpOid : (PendId(s)' <=> PendId(s)) /\ (PendPort(s)' <=> PendPort(s))
    PROVE  OneStp' /\ IdInv' /\ PortInv'
<1> USE DEF OnlyMoves
<1>2. OneStp'
  BY DEF OneStp, Live, IInv
<1>3. \A s \in StpOid : (PendId(s)' <=> PendId(s)) /\ (PendPort(s)' <=> PendPort(s))
  OBVIOUS
<1>4. \A u \in Thread : \A s, g, b : Victim(u, s, g, b)' <=> Victim(u, s, g, b)
  BY DEF Victim, UncachePC
<1>5. \A u \in Thread : th[u].pc \in UncachePC => th'[u].pc = th[u].pc
  OBVIOUS
<1>6. \A u \in Thread : \A s, g, b : Victim(u, s, g, b) => th[u].pc \in UncachePC
  BY DEF Victim, UncachePC
<1>7. \A s, g, b : /\ Live(s, g, b)' <=> Live(s, g, b)
                   /\ Listed(s, g, b)' <=> Listed(s, g, b)
                   /\ Indexed(s, g, b)' <=> Indexed(s, g, b)
  BY DEF Live, Listed, Indexed
<1>8. \A u \in Thread : \A s, g, b : Victim(u, s, g, b) => th'[u] = th[u]
  BY <1>6
<1>9. IdInv'
  <2> SUFFICES ASSUME NEW g \in Stg, NEW b \in Brport
               PROVE  /\ Len(idList'[<<g, b>>]) \in {0, 1}
                      /\ \A s \in StpOid : Live(s, g, b)' => (Indexed(s, g, b)' <=> ~ PendId(s)')
                      /\ \A s \in StpOid : Indexed(s, g, b)' =>
                            \/ Live(s, g, b)'
                            \/ stp'[s] = Null /\ \E u \in Thread :
                                  Victim(u, s, g, b)' /\ th'[u].pc # "uncache_port"
    BY DEF IdInv
  <2>1. IdInv
    BY DEF IInv
  <2>2. \A s \in StpOid : Indexed(s, g, b) =>
            \/ Live(s, g, b)
            \/ stp[s] = Null /\ \E u \in Thread : Victim(u, s, g, b) /\ th[u].pc # "uncache_port"
    BY <2>1 DEF IdInv
  <2>3. Len(idList[<<g, b>>]) \in {0, 1} /\ \A s \in StpOid : Live(s, g, b) => (Indexed(s, g, b) <=> ~ PendId(s))
    BY <2>1 DEF IdInv
  <2> QED BY <1>3, <1>4, <1>7, <1>8, <2>2, <2>3
<1>10. PortInv'
  <2> SUFFICES ASSUME NEW b \in Brport
               PROVE  /\ OneEach(portList'[b])
                      /\ \A g \in Stg, s \in StpOid : Live(s, g, b)' => (Listed(s, g, b)' <=> ~ PendPort(s)')
                      /\ \A g \in Stg, s \in StpOid : Listed(s, g, b)' =>
                            \/ Live(s, g, b)'
                            \/ stp'[s] = Null /\ \E u \in Thread :
                                  Victim(u, s, g, b)' /\ (th'[u].pc = "uncache_get" => Indexed(s, g, b)')
    BY DEF PortInv
  <2>1. PortInv
    BY DEF IInv
  <2>2. \A g \in Stg, s \in StpOid : Listed(s, g, b) =>
            \/ Live(s, g, b)
            \/ stp[s] = Null /\ \E u \in Thread :
                  Victim(u, s, g, b) /\ (th[u].pc = "uncache_get" => Indexed(s, g, b))
    BY <2>1 DEF PortInv
  <2>3. OneEach(portList[b]) /\ \A g \in Stg, s \in StpOid : Live(s, g, b) => (Listed(s, g, b) <=> ~ PendPort(s))
    BY <2>1 DEF PortInv
  <2> QED BY <1>3, <1>4, <1>7, <1>8, <2>2, <2>3
<1> QED BY <1>2, <1>9, <1>10

LEMMA QuietLists ==
    ASSUME StgAssumption, IInv, NEW t \in Thread, OnlyMoves(t), Aside(t), Aside(t)',
           UNCHANGED <<stp, defaultStg, idList, portList>>
    PROVE  CachingInv' /\ OneStp' /\ IdInv' /\ PortInv'
<1>1. CachingInv'
  BY DEF CachingInv, Live, IInv, OnlyMoves, Aside
<1>2. \A s \in StpOid : (PendId(s)' <=> PendId(s)) /\ (PendPort(s)' <=> PendPort(s))
  BY PendingKept DEF Aside
<1>3. OneStp' /\ IdInv' /\ PortInv'
  BY <1>2, ListsKept DEF Aside
<1> QED BY <1>1, <1>3

LEMMA IdleRec == Idle \in ThreadRec
  BY DEF Idle, ThreadRec, SharedPC, PCs

LEMMA PCsAre == \A pc : pc \in SharedPC \/ pc \in SetterPC \/ pc \in PorterPC => pc \in PCs
  BY DEF PCs

\* No bridge port being created is touched, and none becomes the thread's.
LEMMA QuietNews ==
    ASSUME StgAssumption, IInv, NEW t \in Thread, OnlyMoves(t),
           t \in Porter => th[t].pc \notin NewPC /\ th'[t].pc \notin NewPC,
           th'[t].brport \in {th[t].brport, Null} \cup {brCache[p] : p \in Port},
           UNCHANGED <<stp, brports, brCache>>
    PROVE  NewsInv'
<1> SUFFICES ASSUME NEW u \in Porter, th'[u].pc \in NewPC
             PROVE  NewInv(u)'
  BY DEF NewsInv
<1>1. u # t /\ th'[u] = th[u] /\ u \in Thread /\ th[u].pc \in NewPC
  BY Threads DEF OnlyMoves
<1>2. NewInv(u)
  BY <1>1 DEF NewsInv, IInv
<1>3. th[u].brport \in Brport /\ Null \notin Brport
  BY <1>1, StgAssumption DEF IInv, TypesOK, ThreadOK
<1>4. th'[t].brport # th[u].brport
  BY <1>1, <1>2, <1>3 DEF NewInv
<1>5. \A v \in Thread \ {u} : th'[v].brport # th[u].brport
  BY <1>1, <1>2, <1>4 DEF NewInv, OnlyMoves
<1> QED BY <1>1, <1>2, <1>5 DEF NewInv, OnBrport

\* An STP port that ndi_stg_get_stp_port_id_from_cache does not find, SAI
\* does not have.
LEMMA NotFound ==
    ASSUME StgAssumption, Orderly, IInv, NEW t \in Setter, th[t].pc = "set_lookup",
           Lookup(th[t].stg, th[t].brport) = Null, NEW s \in StpOid
    PROVE  ~ Live(s, th[t].stg, th[t].brport)
<1> SUFFICES ASSUME Live(s, th[t].stg, th[t].brport)
             PROVE  FALSE
  OBVIOUS
<1> DEFINE k == <<th[t].stg, th[t].brport>>
<1>1. t \in Thread /\ th[t].brport \in Brport /\ th[t].stg \in Stg /\ ThreadOK(t) /\ stp[s] = k
  BY DEF IInv, TypesOK, ThreadOK, Thread, Live
<1>2. k \in Stg \X Brport /\ idList[k] \in Seq(StpOid) /\ Len(idList[k]) \in {0, 1}
  BY <1>1 DEF IInv, TypesOK, IdInv
<1>3. Len(idList[k]) = 0
  <2>1. Len(idList[k]) = 1 => idList[k][1] \in StpOid
    BY <1>2
  <2>2. Len(idList[k]) = 1 => idList[k][1] = Null
    BY DEF Lookup
  <2>3. Null \notin StpOid
    BY StgAssumption
  <2> HIDE DEF k
  <2> QED BY <1>2, <2>1, <2>2, <2>3, Zenon
<1>4. ~ Indexed(s, th[t].stg, th[t].brport)
  BY <1>3 DEF Indexed
<1>5. PendId(s)
  BY <1>1, <1>4 DEF IInv, IdInv
<1>6. ~ BootPending(s)
  <2>1. \A u \in Setter : th[u].pc \notin BootPC
    BY DEF Orderly, BootPC
  <2>2. stp[s][1] = DefaultStg => defaultStg # Null
    BY <1>1 DEF IInv, SetterInv
  <2> QED BY <2>1, <2>2 DEF BootPending, BootPC
<1>7. PICK u \in Thread : th[u].pc \in {"cache_id", "boot_cache_id"} /\ th[u].oid = s
  BY <1>5, <1>6 DEF PendId
<1>8. u \notin Setter
  BY <1>7 DEF Orderly
<1>9. u \in Porter /\ th[u].pc = "cache_id" /\ u # t
  BY <1>7, <1>8, StgAssumption DEF Thread, IInv, TypesOK, ThreadOK, PorterPC, SharedPC
<1>10. Live(s, th[u].stg, th[u].brport)
  BY <1>7 DEF IInv, CachingInv, CachePC
<1>11. th[u].brport = th[t].brport
  BY <1>1, <1>10 DEF Live
<1>12. NewInv(u)
  BY <1>9 DEF IInv, NewsInv, NewPC
<1> QED BY <1>1, <1>9, <1>11, <1>12 DEF NewInv

\* To a thread that is about to hold the mutex, or holds it for a deletion,
\* the second list shows every STP port of its bridge port.
LEMMA AllListed ==
    ASSUME StgAssumption, Orderly, IInv, NEW t \in Porter, th[t].pc \in {"del_lock", "del_list"},
           mutex \in {Null, t}, NEW s \in OnBrport(th[t].brport)
    PROVE  stp[s][1] \in Stg /\ Listed(s, stp[s][1], th[t].brport)
<1> USE StgAssumption
<1>1. /\ t \in Thread /\ th[t].brport \in Brport /\ s \in StpOid
      /\ stp[s][1] \in Stg /\ stp[s] = <<stp[s][1], th[t].brport>>
  BY DEF OnBrport, IInv, TypesOK, ThreadOK, Thread, DelPC
<1>2. defaultStg # Null /\ \A u \in Setter : th[u].pc \notin BootPC
  BY DEF IInv, BootInv
<1>3. \A u \in Thread : th[u].pc \notin CachePC
  <2> SUFFICES ASSUME NEW u \in Thread, th[u].pc \in CachePC PROVE FALSE
    OBVIOUS
  <2>1. u \in Setter \/ u \in Porter
    BY DEF Thread
  <2>2. th[u].pc \in {"cache_id", "cache_port"}
    BY <1>2, <2>1 DEF CachePC, BootPC, IInv, TypesOK, ThreadOK, PorterPC, SharedPC
  <2>3. mutex = u
    BY <2>2 DEF IInv, MutexInv, Holds
  <2> QED BY <2>2, <2>3
<1>4. ~ PendPort(s)
  BY <1>2, <1>3 DEF PendPort, BootPending, BootPC
<1> QED BY <1>1, <1>4 DEF IInv, PortInv, Live

LEMMA NothingListed ==
    ASSUME StgAssumption, Orderly, IInv, NEW t \in Porter, th[t].pc = "del_lock", mutex = Null,
           Len(portList[th[t].brport]) = 0
    PROVE  OnBrport(th[t].brport) = {}
  BY AllListed DEF Listed

\* A thread lets go of no bridge port in the cache.
LEMMA QuietDefault ==
    ASSUME StgAssumption, IInv, NEW t \in Thread, OnlyMoves(t), UNCHANGED <<stp, brCache>>,
           hurt \subseteq hurt',
           t \in Porter => /\ th'[t].pc # "new_cache"
                           /\ \A p \in Port : brCache[p] = th[t].brport /\ brCache[p] # Null
                                  => th'[t].brport = th[t].brport \/ brCache[p] \in hurt'
    PROVE  DefaultInv'
<1> USE DEF OnlyMoves
<1>1. DefaultInv
  BY DEF IInv
<1>2. ASSUME NEW p \in Port, brCache[p] # Null, brCache[p] \notin hurt',
             \A u \in Porter : th'[u].brport # brCache[p]
      PROVE  InStg(DefaultStg) \cap OnBrport(brCache[p]) # {}
  <2>1. \A u \in Porter : th[u].brport # brCache[p]
    BY <1>2 DEF Thread
  <2> QED BY <1>1, <1>2, <2>1 DEF DefaultInv, InDefaultStg
<1>3. ASSUME NEW u \in Porter, th'[u].pc = "new_cache"
      PROVE  InStg(DefaultStg) \cap OnBrport(th[u].brport) # {} /\ th'[u] = th[u]
  BY <1>1, <1>3 DEF DefaultInv, Thread
<1> QED BY <1>2, <1>3 DEF DefaultInv, InDefaultStg, InStg, OnBrport

\* SAI's counts are numbers.
LEMMA Counts ==
    ASSUME Orderly, NEW g
    PROVE  /\ IsFiniteSet(InStg(g)) /\ Cardinality(InStg(g)) \in Nat
           /\ Cardinality(InStg(g)) = 0 <=> InStg(g) = {}
  BY FS_Subset, FS_CardinalityType, FS_EmptySet DEF Orderly, InStg

(* The disjuncts of the actions that have several.                         *)
StpRemoved(t, e) ==
    /\ th[t].pc = "del_stp" /\ e \in th[t].todo /\ stp[e[1]] # Null
    /\ stp' = [stp EXCEPT ![e[1]] = Null]
    /\ Step(t, [th[t] EXCEPT !.todo = @ \ {e}, !.pc = "uncache_get", !.stg = e[2]])
    /\ UNCHANGED <<stgs, brports, brCache, defaultStg, lists, mutex, hurt>>
StpKept(t, e) ==
    /\ th[t].pc = "del_stp" /\ e \in th[t].todo
    /\ hurt' = IF stp[e[1]] = Null THEN hurt ELSE hurt \cup {th[t].brport}
    /\ Step(t, [th[t] EXCEPT !.todo = @ \ {e}])
    /\ UNCHANGED <<stgs, stp, brports, brCache, defaultStg, lists, mutex>>
StpsDone(t) ==
    /\ th[t].pc = "del_stp" /\ th[t].todo = {}
    /\ Goto(t, "del_brport")
    /\ UNCHANGED <<stgs, stp, brports, brCache, defaultStg, lists, mutex, hurt>>

LEMMA DeleteStpSplits ==
    ASSUME NEW t, DeleteStp(t)
    PROVE  StpsDone(t) \/ \E e \in th[t].todo : StpRemoved(t, e) \/ StpKept(t, e)
<1>1. CASE th[t].todo = {} /\ StpsDone(t)
  BY <1>1
<1>2. CASE ~ (th[t].todo = {} /\ StpsDone(t))
  <2>1. PICK e \in th[t].todo :
            LET rest == [th[t] EXCEPT !.todo = @ \ {e}]
            IN  \/ /\ stp[e[1]] # Null
                   /\ stp' = [stp EXCEPT ![e[1]] = Null]
                   /\ Step(t, [rest EXCEPT !.pc = "uncache_get", !.stg = e[2]])
                   /\ UNCHANGED hurt
                \/ /\ stp[e[1]] = Null \/ "remove_stp" \in MayFail
                   /\ hurt' = IF stp[e[1]] = Null THEN hurt ELSE hurt \cup {th[t].brport}
                   /\ Step(t, rest)
                   /\ UNCHANGED stp
    BY <1>2 DEF DeleteStp, StpsDone
  <2> QED BY <2>1 DEF DeleteStp, StpRemoved, StpKept, Step
<1> QED BY <1>1, <1>2

Rest == <<stgs, stp, brports, brCache, defaultStg, idList, portList, mutex, hurt>>
GivesUp(t) == th[t].pc \in {"stg_list", "stg_attr", "stg_stp"} /\ Return(t) /\ UNCHANGED Rest
StgLists(t, all) ==
    /\ th[t].pc = "stg_list" /\ all \subseteq Garbage \cup InStg(th[t].inst)
    /\ Step(t, [th[t] EXCEPT !.n = 0, !.todo = {<<s, th[t].inst>> : s \in all}, !.pc = "stg_attr"])
    /\ UNCHANGED Rest
BootLists(t) ==
    /\ th[t].pc = "boot_list"
    /\ Step(t, [th[t] EXCEPT !.n = 0, !.pc = "boot_attr",
                             !.todo = {<<s, DefaultStg>> : s \in InStg(DefaultStg)}])
    /\ UNCHANGED Rest

LEMMA ListSplits ==
    ASSUME StgAssumption, Orderly, IInv, NEW t \in Setter, List(t)
    PROVE  GivesUp(t) \/ (\E all : StgLists(t, all)) \/ BootLists(t)
<1>1. CASE th[t].pc = "stg_list"
  <2>1. CASE Return(t)
    BY <1>1, <2>1 DEF List, GivesUp, Rest, sai, lists
  <2>2. CASE ~ Return(t)
    <3>1. PICK all \in SUBSET (Garbage \cup InStg(th[t].inst)) :
              Step(t, [th[t] EXCEPT !.n = 0, !.todo = {<<s, th[t].inst>> : s \in all},
                                    !.pc = "stg_attr"])
      BY <1>1, <2>2 DEF List, Step
    <3>2. StgLists(t, all)
      BY <1>1, <3>1 DEF List, StgLists, Rest, sai, lists
    <3> QED BY <3>2
  <2> QED BY <2>1, <2>2
<1>2. CASE th[t].pc = "boot_list"
  <2> DEFINE now == InStg(DefaultStg)
  <2>1. th[t].inst = DefaultStg /\ th[t].n = Cardinality(now)
    BY <1>2 DEF IInv, BootInv, BootPC
  <2>2. Cardinality(now) \in Nat /\ IsFiniteSet(now) /\ Null \notin now
    <3>1. Cardinality(now) \in Nat /\ IsFiniteSet(now) /\ now \subseteq StpOid
      <4>1. now \subseteq StpOid
        BY DEF InStg
      <4> HIDE DEF now
      <4> QED BY <4>1, FS_Subset, FS_CardinalityType DEF Orderly
    <3> HIDE DEF now
    <3> QED BY <3>1, StgAssumption
  <2>3. PICK all \in SUBSET (Garbage \cup now) :
            /\ now \subseteq all
            /\ Cardinality(all) <= th[t].n
            /\ Cardinality(now) < th[t].n => all # now \/ now \cap Garbage # {}
            /\ Step(t, [th[t] EXCEPT !.n = 0, !.todo = {<<s, th[t].inst>> : s \in all},
                                     !.pc = "boot_attr"])
    <3>1. ~ (Cardinality(now) > th[t].n)
      <4> HIDE DEF now
      <4> QED BY <2>1, <2>2
    <3> QED BY <1>2, <2>1, <3>1 DEF List, Step
  <2>4. all = now
    <3>1. IsFiniteSet(Garbage \cup now)
      <4>1. IsFiniteSet({Null}) /\ IsFiniteSet(Garbage)
        BY FS_Singleton, FS_Subset DEF Orderly
      <4> HIDE DEF now
      <4> QED BY <2>2, <4>1, FS_Union
    <3>2. IsFiniteSet(all) /\ Cardinality(all) \in Nat
      <4> HIDE DEF now
      <4> QED BY <3>1, FS_Subset, FS_CardinalityType
    <3>3. Cardinality(now) <= Cardinality(all) /\ (Cardinality(all) = Cardinality(now) => all = now)
      <4> HIDE DEF now
      <4> QED BY <2>3, <3>2, FS_Subset
    <3> HIDE DEF now
    <3> QED BY <2>1, <2>2, <2>3, <3>2, <3>3
  <2>5. BootLists(t)
    <3>1. {<<s, th[t].inst>> : s \in all} = {<<s, DefaultStg>> : s \in InStg(DefaultStg)}
      BY <2>1, <2>4
    <3>2. Step(t, [th[t] EXCEPT !.n = 0, !.todo = {<<s, DefaultStg>> : s \in InStg(DefaultStg)},
                                !.pc = "boot_attr"])
      <4> HIDE DEF now
      <4> QED BY <2>3, <3>1
    <3>3. Step(t, [th[t] EXCEPT !.n = 0, !.pc = "boot_attr",
                                !.todo = {<<s, DefaultStg>> : s \in InStg(DefaultStg)}])
      BY <3>2 DEF Step
    <3> QED BY <1>2, <3>3 DEF List, BootLists, Rest, sai, lists
  <2> QED BY <2>5
<1> QED BY <1>1, <1>2 DEF List

AttrsDone(t, from, to) ==
    th[t].pc = from /\ th[t].todo = {} /\ Step(t, to) /\ UNCHANGED Rest
StgAttr(t, e) ==
    /\ th[t].pc = "stg_attr" /\ e \in th[t].todo /\ e[1] # Null /\ stp[e[1]] # Null
    /\ Step(t, [th[t] EXCEPT !.pc = "stg_stp", !.oid = e[1], !.brport = stp[e[1]][2],
                             !.todo = @ \ {e}, !.stg = stp[e[1]][1]])
    /\ UNCHANGED Rest
BootAttr(t, e) ==
    /\ th[t].pc = "boot_attr" /\ e \in th[t].todo /\ e[1] # Null /\ stp[e[1]] # Null
    /\ Step(t, [th[t] EXCEPT !.pc = "boot_cache_id", !.oid = e[1], !.brport = stp[e[1]][2],
                             !.todo = @ \ {e}, !.stg = DefaultStg])
    /\ UNCHANGED Rest

LEMMA AttrSplits ==
    ASSUME IInv, NEW t \in Setter, Attr(t)
    PROVE  \/ GivesUp(t)
           \/ AttrsDone(t, "stg_attr", [th[t] EXCEPT !.pc = "stg_remove"])
           \/ AttrsDone(t, "boot_attr", Idle)
           \/ \E e \in th[t].todo : StgAttr(t, e) \/ BootAttr(t, e)
<1>1. CASE th[t].todo = {}
  BY <1>1 DEF Attr, AttrsDone, Goto, Return, Step, Rest, sai, lists
<1>2. CASE th[t].todo # {}
  <2>1. PICK e \in th[t].todo :
             IF e[1] = Null \/ stp[e[1]] = Null
             THEN Return(t)
             ELSE Step(t, [th[t] EXCEPT
                      !.pc = IF th[t].pc = "stg_attr" THEN "stg_stp" ELSE "boot_cache_id",
                      !.oid = e[1], !.brport = stp[e[1]][2], !.todo = @ \ {e},
                      !.stg = IF th[t].pc = "stg_attr" THEN stp[e[1]][1] ELSE th[t].inst])
    BY <1>2 DEF Attr
  <2>2. CASE th[t].pc = "stg_attr"
    BY <2>1, <2>2 DEF Attr, GivesUp, StgAttr, Step, Rest, sai, lists
  <2>3. CASE th[t].pc = "boot_attr"
    <3>1. e[1] # Null /\ stp[e[1]] # Null /\ th[t].inst = DefaultStg
      BY <2>3 DEF IInv, BootInv, BootPC
    <3> QED BY <2>1, <2>3, <3>1 DEF Attr, BootAttr, Step, Rest, sai, lists
  <2> QED BY <2>2, <2>3 DEF Attr
<1> QED BY <1>1, <1>2

-----------------------------------------------------------------------------
(* The steps of a thread that sets a state.                                *)

LEMMA SetStateStep ==
    ASSUME StgAssumption, Orderly, IInv, NEW t \in Setter, NEW g \in Stg, NEW p \in Port,
           SetState(t, g, p)
    PROVE  IInv'
<1> USE StgAssumption
<1> DEFINE r == [Idle EXCEPT !.pc = "set_lookup", !.stg = g, !.brport = brCache[p]]
<1>1. /\ t \in Thread /\ t \notin Porter /\ th[t].pc = "idle"
      /\ UNCHANGED <<stgs, stp, brports, brCache, defaultStg, idList, portList, mutex, hurt>>
      /\ g \in stgs /\ (g = DefaultStg => defaultStg # Null) /\ brCache[p] \in Brport
      /\ th' = [th EXCEPT ![t] = r]
  BY DEF SetState, Thread, sai, lists, IInv, TypesOK, Step
<1>2. OnlyMoves(t) /\ th'[t] = r
  BY <1>1, Moves DEF IInv, Step
<1>3. /\ th'[t].pc = "set_lookup" /\ th'[t].stg = g /\ th'[t].brport = brCache[p]
      /\ th'[t].oid = Null /\ th'[t].todo = {} /\ th'[t].port = Null
  BY <1>2 DEF Idle
<1>4. th'[t] \in ThreadRec
  <2>1. "set_lookup" \in PCs
    BY DEF PCs, SetterPC
  <2>2. brCache[p] \in Brport
    BY <1>1
  <2>3. r \in ThreadRec
    BY <2>1, <2>2, IdleRec DEF ThreadRec
  <2> QED BY <1>2, <2>3
<1>5. CachingInv' /\ OneStp' /\ IdInv' /\ PortInv'
  BY <1>1, <1>2, <1>3, QuietLists DEF Aside, UncachePC, CachePC, BootPC
<1>6. TypesOK'
  <2>1. ThreadOK(t)'
    BY <1>1, <1>3 DEF ThreadOK, SharedPC, SetterPC, NewPC, UncachePC, DelPC, CachePC, BootPC
  <2> QED BY <1>1, <1>2, <1>4, <2>1, QuietTypes DEF TypesOK, IInv
<1>7. MutexInv'
  BY <1>1, <1>2, <1>3 DEF MutexInv, IInv, Holds, OnlyMoves, UncachePC
<1>8. BrportInv'
  BY <1>1, <1>2, <1>3 DEF BrportInv, IInv, OnlyMoves, Thread
<1>9. NewsInv'
  BY <1>1, <1>2, <1>3 DEF NewsInv, NewInv, IInv, OnlyMoves, Thread, OnBrport
<1>10. SetterInv'
  BY <1>1, <1>2, <1>3 DEF SetterInv, DeletesInv, IInv, OnlyMoves, Thread, Live, UncachePC
<1>11. BootInv'
  BY <1>1, <1>2, <1>3 DEF BootInv, IInv, OnlyMoves, Thread, BootPC, InStg
<1>12. DeletionInv'
  BY <1>1, <1>2, <1>3 DEF DeletionInv, IInv, OnlyMoves, Thread, OnBrport
<1>13. DefaultInv'
  BY <1>1, <1>2, <1>3 DEF DefaultInv, IInv, OnlyMoves, Thread, OnBrport, InStg, InDefaultStg
<1> QED BY <1>5, <1>6, <1>7, <1>8, <1>9, <1>10, <1>11, <1>12, <1>13 DEF IInv

LEMMA SetLookupStep ==
    ASSUME StgAssumption, Orderly, IInv, NEW t \in Setter,
           SetLookup(t)
    PROVE  IInv'
<1> USE StgAssumption
<1> DEFINE r == IF Lookup(th[t].stg, th[t].brport) = Null THEN [th[t] EXCEPT !.pc = "set_create"] ELSE Idle
<1>1. /\ t \in Thread /\ t \notin Porter /\ th[t].pc = "set_lookup"
      /\ UNCHANGED <<stgs, stp, brports, brCache, defaultStg, idList, portList, mutex, hurt>>
      /\ th[t].brport \in Brport /\ th[t].stg \in Stg /\ th[t] \in ThreadRec /\ th[t].port = Null
      /\ th' = [th EXCEPT ![t] = r]
  BY DEF SetLookup, ThreadOK, sai, lists, IInv, TypesOK, Step, Goto, Return, Thread
<1>2. OnlyMoves(t) /\ th'[t] = r
  BY <1>1, Moves DEF IInv, Step
<1>3. /\ th'[t].pc \in {"idle", "set_create"}
      /\ th'[t].brport \in {th[t].brport, Null}
      /\ th'[t].pc = "set_create" => th'[t].brport = th[t].brport /\ th'[t].stg = th[t].stg
      /\ th'[t].pc = "idle" => th'[t].oid = Null /\ th'[t].todo = {} /\ th'[t].brport = Null
      /\ th'[t].port = Null
  BY <1>1, <1>2 DEF Idle, IInv, TypesOK, ThreadRec
<1>4. th'[t] \in ThreadRec
  <2>1. "set_create" \in PCs
    BY DEF PCs, SetterPC, PorterPC, SharedPC
  <2>2. th[t] \in ThreadRec
    BY <1>1 DEF IInv, TypesOK
  <2>3. r \in ThreadRec
    BY <2>1, <2>2, IdleRec DEF ThreadRec
  <2> QED BY <1>2, <2>3
<1>5. CachingInv' /\ OneStp' /\ IdInv' /\ PortInv'
  BY <1>1, <1>2, <1>3, QuietLists DEF Aside, UncachePC, CachePC, BootPC
<1>6. TypesOK'
  <2>0. ThreadOK(t)
    BY <1>1 DEF IInv, TypesOK
  <2>1. ThreadOK(t)'
    BY <1>1, <1>3, <2>0 DEF ThreadOK, SharedPC, SetterPC, PorterPC, NewPC, UncachePC, DelPC, CachePC, BootPC
  <2> QED BY <1>1, <1>2, <1>4, <2>1, QuietTypes DEF TypesOK, IInv
<1>7. MutexInv'
  BY <1>1, <1>2, <1>3 DEF MutexInv, IInv, Holds, OnlyMoves, UncachePC
<1>8. BrportInv'
  BY <1>1, <1>2, <1>3 DEF BrportInv, IInv, OnlyMoves, Thread, DelPC, UncachePC
<1>9. NewsInv'
  BY <1>1, <1>2, <1>3, QuietNews DEF NewPC
<1>10. SetterInv'
  <2>1. SetterInv /\ (th'[t].pc = "set_create" => Lookup(th[t].stg, th[t].brport) = Null)
    BY <1>2 DEF IInv, Idle
  <2>2. ASSUME th'[t].pc = "set_create", NEW s \in StpOid
        PROVE  ~ Live(s, th[t].stg, th[t].brport)
    BY <1>1, <1>3, <2>1, <2>2, NotFound
  <2> QED BY <1>1, <1>2, <1>3, <2>1, <2>2 DEF SetterInv, DeletesInv, OnlyMoves, Thread, Live, UncachePC
<1>11. BootInv'
  <2>1. InStg(DefaultStg)' = InStg(DefaultStg)
    BY <1>1 DEF InStg
  <2> QED BY <1>1, <1>2, <1>3, <2>1 DEF BootInv, IInv, OnlyMoves, Thread, BootPC
<1>12. DeletionInv'
  BY <1>1, <1>2, <1>3 DEF DeletionInv, IInv, OnlyMoves, Thread, OnBrport, UncachePC
<1>13. DefaultInv'
  BY <1>1, <1>2, <1>3 DEF DefaultInv, IInv, OnlyMoves, Thread, OnBrport, InStg, InDefaultStg
<1> QED BY <1>5, <1>6, <1>7, <1>8, <1>9, <1>10, <1>11, <1>12, <1>13 DEF IInv

LEMMA CreateStpFailsStep ==
    ASSUME StgAssumption, Orderly, IInv, NEW t \in Thread,
           CreateStpFails(t)
    PROVE  IInv'
<1> USE StgAssumption
<1> DEFINE r == Idle
<1>1. /\ t \in Thread /\ th[t].pc \in {"set_create", "new_stp"}
      /\ UNCHANGED <<stgs, stp, brports, brCache, defaultStg, idList, portList, mutex, hurt>>
      /\ th' = [th EXCEPT ![t] = r]
  BY DEF CreateStpFails, sai, lists, IInv, TypesOK, Step, Goto, Return, Thread
<1>2. OnlyMoves(t) /\ th'[t] = r
  BY <1>1, Moves DEF IInv, Step
<1>3. /\ th'[t].pc = "idle" /\ th'[t].brport = Null /\ th'[t].todo = {}
      /\ th'[t].port = Null /\ th'[t].oid = Null
  BY <1>1, <1>2 DEF Idle, IInv, TypesOK, ThreadRec
<1>4. th'[t] \in ThreadRec
  BY <1>2, IdleRec
<1>5. CachingInv' /\ OneStp' /\ IdInv' /\ PortInv'
  BY <1>1, <1>2, <1>3, QuietLists DEF Aside, UncachePC, CachePC, BootPC
<1>6. TypesOK'
  <2>0. ThreadOK(t)
    BY <1>1 DEF IInv, TypesOK
  <2>1. ThreadOK(t)'
    BY <1>1, <1>3, <2>0 DEF ThreadOK, SharedPC, SetterPC, PorterPC, NewPC, UncachePC, DelPC, CachePC, BootPC
  <2> QED BY <1>1, <1>2, <1>4, <2>1, QuietTypes DEF TypesOK, IInv
<1>7. MutexInv'
  BY <1>1, <1>2, <1>3 DEF MutexInv, IInv, Holds, OnlyMoves, UncachePC
<1>8. BrportInv'
  BY <1>1, <1>2, <1>3 DEF BrportInv, IInv, OnlyMoves, Thread, DelPC, UncachePC
<1>9. NewsInv'
  <2> SUFFICES ASSUME NEW u \in Porter, th'[u].pc \in NewPC
               PROVE  NewInv(u)'
    BY DEF NewsInv
  <2>1. u # t /\ th'[u] = th[u] /\ u \in Thread /\ NewInv(u)
    BY <1>2, <1>3 DEF NewPC, OnlyMoves, Thread, NewsInv, IInv
  <2>2. th[u].brport # Null
    BY <2>1 DEF IInv, TypesOK, ThreadOK
  <2> QED BY <1>1, <1>2, <1>3, <2>1, <2>2 DEF NewInv, OnlyMoves, OnBrport
<1>10. SetterInv'
  BY <1>1, <1>2, <1>3 DEF SetterInv, DeletesInv, IInv, OnlyMoves, Thread, Live, UncachePC
<1>11. BootInv'
  <2>1. InStg(DefaultStg)' = InStg(DefaultStg)
    BY <1>1 DEF InStg
  <2> QED BY <1>1, <1>2, <1>3, <2>1 DEF BootInv, IInv, OnlyMoves, Thread, BootPC
<1>12. DeletionInv'
  BY <1>1, <1>2, <1>3 DEF DeletionInv, IInv, OnlyMoves, Thread, OnBrport, UncachePC
<1>13. DefaultInv'
  <2>1. \A p \in Port : t \in Porter => brCache[p] # th[t].brport
    BY <1>1 DEF IInv, NewsInv, NewInv, NewPC, SetterPC, PorterPC, SharedPC, TypesOK, ThreadOK
  <2> QED BY <1>1, <1>2, <1>3, <2>1, QuietDefault
<1> QED BY <1>5, <1>6, <1>7, <1>8, <1>9, <1>10, <1>11, <1>12, <1>13 DEF IInv

LEMMA DeleteBridgePortStep ==
    ASSUME StgAssumption, Orderly, IInv, NEW t \in Porter, NEW p \in Port,
           DeleteBridgePort(t, p)
    PROVE  IInv'
<1> USE StgAssumption
<1> DEFINE r == [Idle EXCEPT !.pc = "del_lock", !.port = p, !.brport = brCache[p]]
<1>1. /\ t \in Thread /\ t \in Porter /\ t \notin Setter /\ th[t].pc = "idle"
      /\ UNCHANGED <<stgs, stp, brports, brCache, defaultStg, idList, portList, mutex, hurt>>
      /\ brCache[p] \in Brport /\ L2Ready
      /\ th' = [th EXCEPT ![t] = r]
  BY DEF DeleteBridgePort, StgAssumption, sai, lists, IInv, TypesOK, Step, Goto, Return, Thread
<1>2. OnlyMoves(t) /\ th'[t] = r
  BY <1>1, Moves DEF IInv, Step
<1>3. /\ th'[t].pc = "del_lock" /\ th'[t].port = p /\ th'[t].brport = brCache[p]
      /\ th'[t].todo = {} /\ th'[t].oid = Null
  BY <1>1, <1>2 DEF Idle, IInv, TypesOK, ThreadRec
<1>4. th'[t] \in ThreadRec
  <2>1. "del_lock" \in PCs /\ brCache[p] \in Brport
    BY <1>1 DEF PCs, PorterPC
  <2>2. r \in ThreadRec
    BY <2>1, IdleRec DEF ThreadRec
  <2> QED BY <1>2, <2>2
<1>5. CachingInv' /\ OneStp' /\ IdInv' /\ PortInv'
  BY <1>1, <1>2, <1>3, QuietLists DEF Aside, UncachePC, CachePC, BootPC
<1>6. TypesOK'
  <2>0. ThreadOK(t)
    BY <1>1 DEF IInv, TypesOK
  <2>1. ThreadOK(t)'
    BY <1>1, <1>3, <2>0 DEF ThreadOK, SharedPC, SetterPC, PorterPC, NewPC, UncachePC, DelPC, CachePC, BootPC
  <2> QED BY <1>1, <1>2, <1>4, <2>1, QuietTypes DEF TypesOK, IInv
<1>7. MutexInv'
  BY <1>1, <1>2, <1>3 DEF MutexInv, IInv, Holds, OnlyMoves, UncachePC
<1>8. BrportInv'
  BY <1>1, <1>2, <1>3 DEF BrportInv, IInv, OnlyMoves, Thread, DelPC, UncachePC
<1>9. NewsInv'
  BY <1>1, <1>2, <1>3, QuietNews DEF NewPC
<1>10. SetterInv'
  BY <1>1, <1>2, <1>3 DEF SetterInv, DeletesInv, IInv, OnlyMoves, Thread, Live, UncachePC
<1>11. BootInv'
  <2>1. defaultStg # Null /\ \A u \in Setter : th[u].pc \notin BootPC
    BY <1>1 DEF L2Ready, Orderly
  <2> QED BY <1>1, <1>2, <1>3, <2>1 DEF BootInv, IInv, OnlyMoves, Thread, InStg
<1>12. DeletionInv'
  BY <1>1, <1>2, <1>3 DEF DeletionInv, IInv, OnlyMoves, Thread, OnBrport, UncachePC
<1>13. DefaultInv'
  <2>1. th[t].brport = Null
    BY <1>1 DEF IInv, TypesOK, ThreadOK, Idle
  <2> QED BY <1>1, <1>2, <1>3, <2>1, QuietDefault
<1> QED BY <1>5, <1>6, <1>7, <1>8, <1>9, <1>10, <1>11, <1>12, <1>13 DEF IInv

LEMMA DeleteLockStep ==
    ASSUME StgAssumption, Orderly, IInv, NEW t \in Porter,
           DeleteLock(t)
    PROVE  IInv'
<1> USE StgAssumption
<1> DEFINE r == LET n == Len(portList[th[t].brport])
              IN  [th[t] EXCEPT !.n = n, !.pc = IF n = 0 THEN "del_brport" ELSE "del_list"]
<1>1. /\ t \in Thread /\ t \in Porter /\ t \notin Setter /\ th[t].pc = "del_lock" /\ mutex = Null /\ mutex' = t
      /\ UNCHANGED <<stgs, stp, brports, brCache, defaultStg, idList, portList, hurt>>
      /\ th[t].brport \in Brport /\ portList[th[t].brport] \in Seq(StpOid \X Stg)
      /\ th' = [th EXCEPT ![t] = r]
  BY DEF DeleteLock, ThreadOK, StgAssumption, DelPC, sai, lists, IInv, TypesOK, Step, Goto, Return, Thread
<1>2. OnlyMoves(t) /\ th'[t] = r
  BY <1>1, Moves DEF IInv, Step
<1>3. /\ th'[t].pc \in {"del_brport", "del_list"} /\ (th'[t].pc = "del_brport" => Len(portList[th[t].brport]) = 0)
      /\ th'[t].port = th[t].port /\ th'[t].brport = th[t].brport
      /\ th'[t].oid = th[t].oid
  BY <1>1, <1>2 DEF Idle, IInv, TypesOK, ThreadRec
<1>4. th'[t] \in ThreadRec
  <2>1. "del_brport" \in PCs /\ "del_list" \in PCs /\ th[t] \in ThreadRec
    BY <1>1 DEF PCs, PorterPC, IInv, TypesOK
  <2>2. Len(portList[th[t].brport]) \in Nat
    BY <1>1
  <2>3. r \in ThreadRec
    BY <2>1, <2>2 DEF ThreadRec
  <2> QED BY <1>2, <2>3
<1>5. CachingInv' /\ OneStp' /\ IdInv' /\ PortInv'
  BY <1>1, <1>2, <1>3, QuietLists DEF Aside, UncachePC, CachePC, BootPC
<1>6. TypesOK'
  <2>0. ThreadOK(t)
    BY <1>1 DEF IInv, TypesOK
  <2>1. ThreadOK(t)'
    BY <1>1, <1>3, <2>0 DEF ThreadOK, SharedPC, SetterPC, PorterPC, NewPC, UncachePC, DelPC, CachePC, BootPC
  <2> QED BY <1>1, <1>2, <1>4, <2>1, QuietTypes DEF TypesOK, IInv
<1>7. MutexInv'
  BY <1>1, <1>2, <1>3 DEF MutexInv, IInv, Holds, OnlyMoves, UncachePC
<1>8. BrportInv'
  BY <1>1, <1>2, <1>3 DEF BrportInv, IInv, OnlyMoves, Thread, DelPC, UncachePC
<1>9. NewsInv'
  BY <1>1, <1>2, <1>3, QuietNews DEF NewPC
<1>10. SetterInv'
  BY <1>1, <1>2, <1>3 DEF SetterInv, DeletesInv, IInv, OnlyMoves, Thread, Live, UncachePC
<1>11. BootInv'
  <2>1. InStg(DefaultStg)' = InStg(DefaultStg)
    BY <1>1 DEF InStg
  <2> QED BY <1>1, <1>2, <1>3, <2>1 DEF BootInv, IInv, OnlyMoves, Thread, BootPC
<1>12. DeletionInv'
  <2>1. ASSUME th'[t].pc = "del_brport"
        PROVE  OnBrport(th[t].brport) = {}
    BY <1>1, <1>3, <2>1, NothingListed
  <2> QED BY <1>1, <1>2, <1>3, <2>1 DEF DeletionInv, IInv, OnlyMoves, Thread, OnBrport, UncachePC
<1>13. DefaultInv'
  BY <1>1, <1>2, <1>3 DEF DefaultInv, IInv, OnlyMoves, Thread, OnBrport, InStg, InDefaultStg
<1> QED BY <1>5, <1>6, <1>7, <1>8, <1>9, <1>10, <1>11, <1>12, <1>13 DEF IInv

LEMMA DeleteListStep ==
    ASSUME StgAssumption, Orderly, IInv, NEW t \in Porter,
           DeleteList(t)
    PROVE  IInv'
<1> USE StgAssumption
<1> DEFINE r == [th[t] EXCEPT !.pc = "del_stp", !.n = 0,
                            !.todo = {portList[th[t].brport][i] : i \in DOMAIN portList[th[t].brport]}]
<1>1. /\ t \in Thread /\ t \in Porter /\ t \notin Setter /\ th[t].pc = "del_list" /\ mutex = t
      /\ UNCHANGED <<stgs, stp, brports, brCache, defaultStg, idList, portList, mutex, hurt>>
      /\ th[t].brport \in Brport /\ portList[th[t].brport] \in Seq(StpOid \X Stg)
      /\ th' = [th EXCEPT ![t] = r]
  <2>1. t \in Thread /\ t \notin Setter /\ th[t].pc = "del_list"
    BY DEF DeleteList, Thread, StgAssumption
  <2>2. mutex = t
    BY <2>1 DEF IInv, MutexInv, Holds
  <2>3. th[t].brport \in Brport /\ portList[th[t].brport] \in Seq(StpOid \X Stg)
    BY <2>1 DEF IInv, TypesOK, ThreadOK, DelPC
  <2>4. Len(portList[th[t].brport]) <= th[t].n /\ th[t].n \in Nat
    BY <2>1 DEF IInv, DeletionInv, TypesOK, ThreadRec
  <2>5. ~ (Len(portList[th[t].brport]) > th[t].n)
    BY <2>3, <2>4
  <2> QED BY <2>1, <2>2, <2>3, <2>5 DEF DeleteList, Step, sai, lists
<1>2. OnlyMoves(t) /\ th'[t] = r
  BY <1>1, Moves DEF IInv, Step
<1>3. /\ th'[t].pc = "del_stp" /\ th'[t].port = th[t].port /\ th'[t].brport = th[t].brport
      /\ th'[t].oid = th[t].oid
      /\ th'[t].todo = {portList[th[t].brport][i] : i \in DOMAIN portList[th[t].brport]}
  BY <1>1, <1>2 DEF Idle, IInv, TypesOK, ThreadRec
<1>4. th'[t] \in ThreadRec
  <2>1. "del_stp" \in PCs /\ th[t] \in ThreadRec
    BY <1>1 DEF PCs, PorterPC, IInv, TypesOK
  <2>2. {portList[th[t].brport][i] : i \in DOMAIN portList[th[t].brport]} \subseteq (StpOid \cup {Null}) \X Stg
    BY <1>1
  <2>3. r \in ThreadRec
    BY <2>1, <2>2 DEF ThreadRec
  <2> QED BY <1>2, <2>3
<1>5. CachingInv' /\ OneStp' /\ IdInv' /\ PortInv'
  BY <1>1, <1>2, <1>3, QuietLists DEF Aside, UncachePC, CachePC, BootPC
<1>6. TypesOK'
  <2>0. ThreadOK(t)
    BY <1>1 DEF IInv, TypesOK
  <2>1. ThreadOK(t)'
    BY <1>1, <1>3, <2>0 DEF ThreadOK, SharedPC, SetterPC, PorterPC, NewPC, UncachePC, DelPC, CachePC, BootPC
  <2> QED BY <1>1, <1>2, <1>4, <2>1, QuietTypes DEF TypesOK, IInv
<1>7. MutexInv'
  BY <1>1, <1>2, <1>3 DEF MutexInv, IInv, Holds, OnlyMoves, UncachePC
<1>8. BrportInv'
  BY <1>1, <1>2, <1>3 DEF BrportInv, IInv, OnlyMoves, Thread, DelPC, UncachePC
<1>9. NewsInv'
  BY <1>1, <1>2, <1>3, QuietNews DEF NewPC
<1>10. SetterInv'
  BY <1>1, <1>2, <1>3 DEF SetterInv, DeletesInv, IInv, OnlyMoves, Thread, Live, UncachePC
<1>11. BootInv'
  <2>1. InStg(DefaultStg)' = InStg(DefaultStg)
    BY <1>1 DEF InStg
  <2> QED BY <1>1, <1>2, <1>3, <2>1 DEF BootInv, IInv, OnlyMoves, Thread, BootPC
<1>12. DeletionInv'
  <2> DEFINE b == th[t].brport
  <2>1. ASSUME NEW e \in th'[t].todo
        PROVE  e[1] # Null /\ stp[e[1]] \in {Null, <<e[2], b>>}
    <3>1. PICK i \in 1 .. Len(portList[b]) : e = portList[b][i]
      BY <1>1, <1>3
    <3>2. e \in StpOid \X Stg
      BY <1>1, <3>1
    <3>3. Listed(e[1], e[2], b) /\ e[1] \in StpOid /\ e[2] \in Stg
      BY <3>1, <3>2 DEF Listed
    <3>4. Live(e[1], e[2], b) \/ stp[e[1]] = Null
      BY <1>1, <3>3 DEF IInv, PortInv
    <3> QED BY <3>3, <3>4 DEF Live
  <2>2. ASSUME NEW s \in OnBrport(b)
        PROVE  <<s, stp[s][1]>> \in th'[t].todo
    <3>1. Listed(s, stp[s][1], b)
      BY <1>1, AllListed
    <3>2. PICK i \in 1 .. Len(portList[b]) : portList[b][i] = <<s, stp[s][1]>>
      BY <3>1 DEF Listed
    <3>3. DOMAIN portList[b] = 1 .. Len(portList[b])
      BY <1>1
    <3> QED BY <1>3, <3>2, <3>3
  <2>3. OnBrport(b)' = OnBrport(b)
    BY <1>1, <1>3 DEF OnBrport
  <2> QED BY <1>1, <1>2, <1>3, <2>1, <2>2, <2>3 DEF DeletionInv, IInv, OnlyMoves, Thread, OnBrport, UncachePC
<1>13. DefaultInv'
  BY <1>1, <1>2, <1>3 DEF DefaultInv, IInv, OnlyMoves, Thread, OnBrport, InStg, InDefaultStg
<1> QED BY <1>5, <1>6, <1>7, <1>8, <1>9, <1>10, <1>11, <1>12, <1>13 DEF IInv

LEMMA CacheBridgePortStep ==
    ASSUME StgAssumption, Orderly, IInv, NEW t \in Porter,
           CacheBridgePort(t)
    PROVE  IInv'
<1> USE StgAssumption
<1> DEFINE r == Idle
<1>1. /\ t \in Thread /\ t \in Porter /\ t \notin Setter /\ th[t].pc = "new_cache"
      /\ UNCHANGED <<stgs, stp, brports, defaultStg, idList, portList, mutex, hurt>>
      /\ th[t].brport \in Brport /\ th[t].port \in Port
      /\ brCache' = [brCache EXCEPT ![th[t].port] = th[t].brport] /\ NewInv(t)
      /\ th' = [th EXCEPT ![t] = r]
  BY DEF CacheBridgePort, ThreadOK, StgAssumption, NewPC, NewInv, NewsInv, sai, lists, IInv, TypesOK, Step, Goto, Return, Thread
<1>2. OnlyMoves(t) /\ th'[t] = r
  BY <1>1, Moves DEF IInv, Step
<1>3. /\ th'[t].pc = "idle" /\ th'[t].brport = Null /\ th'[t].todo = {}
      /\ th'[t].port = Null /\ th'[t].oid = Null
      /\ brCache \in [Port -> Brport \cup {Null}]
      /\ \A p \in Port : brCache'[p] = IF p = th[t].port THEN th[t].brport ELSE brCache[p]
  BY <1>1, <1>2 DEF Idle, IInv, TypesOK, ThreadRec
<1>4. th'[t] \in ThreadRec
  BY <1>2, IdleRec
<1>5. CachingInv' /\ OneStp' /\ IdInv' /\ PortInv'
  BY <1>1, <1>2, <1>3, QuietLists DEF Aside, UncachePC, CachePC, BootPC
<1>6. TypesOK'
  <2>0. ThreadOK(t)
    BY <1>1 DEF IInv, TypesOK
  <2>1. ThreadOK(t)'
    BY <1>1, <1>3, <2>0 DEF ThreadOK, SharedPC, SetterPC, PorterPC, NewPC, UncachePC, DelPC, CachePC, BootPC
  <2> QED BY <1>1, <1>2, <1>4, <2>1, QuietTypes DEF TypesOK, IInv
<1>7. MutexInv'
  BY <1>1, <1>2, <1>3 DEF MutexInv, IInv, Holds, OnlyMoves, UncachePC
<1>8. BrportInv'
  BY <1>1, <1>2, <1>3 DEF NewInv, BrportInv, IInv, OnlyMoves, Thread, DelPC, UncachePC
<1>9. NewsInv'
  <2> SUFFICES ASSUME NEW u \in Porter, th'[u].pc \in NewPC
               PROVE  NewInv(u)'
    BY DEF NewsInv
  <2>1. u # t /\ th'[u] = th[u] /\ u \in Thread /\ NewInv(u)
    BY <1>2, <1>3 DEF NewPC, OnlyMoves, Thread, NewsInv, IInv
  <2>2. th[u].brport # Null
    BY <2>1 DEF IInv, TypesOK, ThreadOK
  <2>3. th[u].brport # th[t].brport
    BY <1>1, <2>1 DEF NewInv
  <2>4. \A v \in Thread \ {u} : th'[v].brport # th[u].brport
    BY <1>1, <1>2, <1>3, <2>1, <2>2 DEF NewInv, OnlyMoves
  <2> QED BY <1>1, <1>2, <1>3, <2>1, <2>3, <2>4 DEF NewInv, OnBrport
<1>10. SetterInv'
  BY <1>1, <1>2, <1>3 DEF SetterInv, DeletesInv, IInv, OnlyMoves, Thread, Live, UncachePC
<1>11. BootInv'
  <2>1. InStg(DefaultStg)' = InStg(DefaultStg)
    BY <1>1 DEF InStg
  <2> QED BY <1>1, <1>2, <1>3, <2>1 DEF BootInv, IInv, OnlyMoves, Thread, BootPC
<1>12. DeletionInv'
  BY <1>1, <1>2, <1>3 DEF DeletionInv, IInv, OnlyMoves, Thread, OnBrport, UncachePC
<1>13. DefaultInv'
  <2> DEFINE b == th[t].brport
  <2>1. InStg(DefaultStg) \cap OnBrport(b) # {}
    BY <1>1 DEF IInv, DefaultInv
  <2>2. ASSUME NEW p \in Port, brCache'[p] # Null, brCache'[p] \notin hurt,
               \A u \in Porter : th'[u].brport # brCache'[p]
        PROVE  InStg(DefaultStg) \cap OnBrport(brCache'[p]) # {}
    <3>1. CASE brCache'[p] = b
      BY <2>1, <3>1
    <3>2. CASE brCache'[p] # b
      <4>1. brCache'[p] = brCache[p]
        BY <1>3, <3>2
      <4>2. \A u \in Porter : th[u].brport # brCache[p]
        BY <1>1, <1>2, <2>2, <3>2, <4>1 DEF OnlyMoves, Thread
      <4> QED BY <2>2, <4>1, <4>2 DEF IInv, DefaultInv, InDefaultStg
    <3> QED BY <3>1, <3>2
  <2>3. ASSUME NEW u \in Porter, th'[u].pc = "new_cache"
        PROVE  InStg(DefaultStg) \cap OnBrport(th[u].brport) # {} /\ th'[u] = th[u]
    BY <1>1, <1>2, <1>3, <2>3 DEF DefaultInv, IInv, Thread, OnlyMoves
  <2> QED BY <1>1, <2>2, <2>3 DEF DefaultInv, InDefaultStg, InStg, OnBrport
<1> QED BY <1>5, <1>6, <1>7, <1>8, <1>9, <1>10, <1>11, <1>12, <1>13 DEF IInv

LEMMA CreateBridgePortStep ==
    ASSUME StgAssumption, Orderly, IInv, NEW t \in Porter, NEW p \in Port, NEW b \in Brport,
           CreateBridgePort(t, p, b)
    PROVE  IInv'
<1> USE StgAssumption
<1> DEFINE r == [Idle EXCEPT !.pc = "new_stp", !.port = p, !.brport = b, !.stg = defaultStg]
<1>1. /\ t \in Thread /\ t \in Porter /\ t \notin Setter /\ th[t].pc = "idle" /\ th[t].brport = Null
      /\ UNCHANGED <<stgs, stp, brCache, defaultStg, idList, portList, mutex>>
      /\ defaultStg = DefaultStg /\ (\A u \in Setter : th[u].pc \notin BootPC)
      /\ (\A c \in Brport : brports[c] # p) /\ FreshBrport(b)
      /\ brports' = [brports EXCEPT ![b] = p] /\ hurt' = hurt \ {b}
      /\ th' = th \/ th' = [th EXCEPT ![t] = r]
  BY DEF CreateBridgePort, L2Ready, Orderly, ThreadOK, StgAssumption, sai, lists, IInv, TypesOK, Step, Goto, Return, Thread
<1>2. OnlyMoves(t) /\ th'[t] \in {th[t], r} /\ th' = [th EXCEPT ![t] = th'[t]]
  BY <1>1 DEF IInv, TypesOK, OnlyMoves
<1>3. /\ th'[t].pc = "idle" => th'[t] = th[t]
      /\ th'[t].pc # "idle" => th'[t].pc = "new_stp" /\ th'[t].port = p /\ th'[t].brport = b /\ th'[t].stg = DefaultStg
      /\ th'[t].pc \in {"idle", "new_stp"}
      /\ th[t].brport = Null /\ th'[t].brport \in {Null, b}
      /\ p # Null /\ b # Null
      /\ brports[b] = Null /\ \A u \in Thread : th[u].brport # b
      /\ \A c \in Brport : brports'[c] = IF c = b THEN p ELSE brports[c]
      /\ OnBrport(b) = {} /\ \A q \in Port : brCache[q] # b
  <2>1. brports[b] = Null /\ \A u \in Thread : th[u].brport # b
    BY <1>1 DEF FreshBrport
  <2>2. OnBrport(b) = {} /\ \A q \in Port : brCache[q] # b
    BY <2>1, <1>1 DEF IInv, BrportInv, OnBrport
  <2>3. \A c \in Brport : brports'[c] = IF c = b THEN p ELSE brports[c]
    BY <1>1 DEF IInv, TypesOK
  <2>4. /\ r.pc = "new_stp" /\ r.port = p /\ r.brport = b /\ r.stg = DefaultStg
    BY <1>1 DEF Idle
  <2>5. b # Null /\ p # Null
    BY DEF StgAssumption
  <2> HIDE DEF r
  <2> QED BY <1>1, <1>2, <2>1, <2>2, <2>3, <2>4, <2>5
<1>4. th'[t] \in ThreadRec
  <2>1. "new_stp" \in PCs /\ DefaultStg \in Stg
    BY DEF PCs, PorterPC, StgAssumption
  <2>2. r \in ThreadRec
    BY <1>1, <2>1, IdleRec DEF ThreadRec
  <2> QED BY <1>1, <1>2, <2>2 DEF IInv, TypesOK
<1>5. CachingInv' /\ OneStp' /\ IdInv' /\ PortInv'
  BY <1>1, <1>2, <1>3, QuietLists DEF Aside, UncachePC, CachePC, BootPC
<1>6. TypesOK'
  <2>0. ThreadOK(t)
    BY <1>1 DEF IInv, TypesOK
  <2>1. ThreadOK(t)'
    BY <1>1, <1>3, <2>0 DEF ThreadOK, SharedPC, SetterPC, PorterPC, NewPC, UncachePC, DelPC, CachePC, BootPC
  <2> QED BY <1>1, <1>2, <1>4, <2>1, QuietTypes DEF TypesOK, IInv
<1>7. MutexInv'
  BY <1>1, <1>2, <1>3 DEF MutexInv, IInv, Holds, OnlyMoves, UncachePC
<1>8. BrportInv'
  <2>1. BrportInv
    BY DEF IInv
  <2>2. \A q \in Port : brCache[q] # Null => brCache[q] \in Brport /\ brports'[brCache[q]] = q
    BY <1>3, <2>1 DEF BrportInv, IInv, TypesOK
  <2>3. \A c, d \in Brport : brports'[c] = brports'[d] /\ brports'[c] # Null => c = d
    BY <1>1, <1>3, <2>1 DEF BrportInv
  <2>4. \A s \in StpOid : stp[s] # Null => stp[s][2] \in Brport /\ brports'[stp[s][2]] # Null
    BY <1>3, <2>1 DEF BrportInv, IInv, TypesOK
  <2>5. ASSUME NEW u \in Porter, th'[u].pc \in DelPC \cup UncachePC
        PROVE  th'[u].port \in Port /\ brports'[th'[u].brport] \in {th'[u].port, Null}
    <3>1. th'[u] = th[u] /\ u \in Thread
      BY <1>2, <1>3, <2>5 DEF OnlyMoves, Thread, DelPC, UncachePC
    <3>2. th[u].brport \in Brport /\ th[u].brport # b
      BY <1>3, <2>5, <3>1 DEF IInv, TypesOK, ThreadOK
    <3> QED BY <1>3, <2>1, <2>5, <3>1, <3>2 DEF BrportInv
  <2> QED BY <1>1, <2>2, <2>3, <2>4, <2>5 DEF BrportInv
<1>9. NewsInv'
  <2> SUFFICES ASSUME NEW u \in Porter, th'[u].pc \in NewPC
               PROVE  NewInv(u)'
    BY DEF NewsInv
  <2>1. CASE u = t
    <3>1. th'[t].pc = "new_stp"
      BY <1>3, <2>1 DEF NewPC
    <3>2. \A v \in Thread \ {t} : th'[v].brport # b
      BY <1>2, <1>3 DEF OnlyMoves
    <3>3. OnBrport(b)' = {}
      BY <1>1, <1>3 DEF OnBrport
    <3> QED BY <1>1, <1>3, <2>1, <3>1, <3>2, <3>3 DEF NewInv
  <2>2. CASE u # t
    <3>1. th'[u] = th[u] /\ u \in Thread /\ NewInv(u)
      BY <1>2, <2>2 DEF OnlyMoves, Thread, NewsInv, IInv
    <3>2. th[u].brport \in Brport /\ th[u].brport # Null /\ th[u].brport # b
      BY <1>3, <3>1 DEF IInv, TypesOK, ThreadOK
    <3>3. \A v \in Thread \ {u} : th'[v].brport # th[u].brport
      BY <1>1, <1>2, <1>3, <3>1, <3>2 DEF NewInv, OnlyMoves
    <3> QED BY <1>1, <1>2, <1>3, <3>1, <3>2, <3>3 DEF NewInv, OnBrport
  <2> QED BY <2>1, <2>2
<1>10. SetterInv'
  BY <1>1, <1>2, <1>3 DEF SetterInv, DeletesInv, IInv, OnlyMoves, Thread, Live, UncachePC
<1>11. BootInv'
  <2>1. InStg(DefaultStg)' = InStg(DefaultStg)
    BY <1>1 DEF InStg
  <2> QED BY <1>1, <1>2, <1>3, <2>1 DEF BootInv, IInv, OnlyMoves, Thread, BootPC
<1>12. DeletionInv'
  BY <1>1, <1>2, <1>3 DEF DeletionInv, IInv, OnlyMoves, Thread, OnBrport, UncachePC
<1>13. DefaultInv'
  <2>1. ASSUME NEW q \in Port, brCache[q] # Null, brCache[q] \notin hurt',
               \A u \in Porter : th'[u].brport # brCache[q]
        PROVE  InStg(DefaultStg) \cap OnBrport(brCache[q]) # {}
    <3>1. brCache[q] \notin hurt
      BY <1>1, <1>3, <2>1
    <3>2. \A u \in Porter : th[u].brport # brCache[q]
      BY <1>2, <1>3, <2>1 DEF OnlyMoves, Thread
    <3> QED BY <2>1, <3>1, <3>2 DEF IInv, DefaultInv, InDefaultStg
  <2>2. ASSUME NEW u \in Porter, th'[u].pc = "new_cache"
        PROVE  InStg(DefaultStg) \cap OnBrport(th[u].brport) # {} /\ th'[u] = th[u]
    BY <1>1, <1>2, <1>3, <2>2 DEF DefaultInv, IInv, Thread, OnlyMoves
  <2> QED BY <1>1, <2>1, <2>2 DEF DefaultInv, InDefaultStg, InStg, OnBrport
<1> QED BY <1>5, <1>6, <1>7, <1>8, <1>9, <1>10, <1>11, <1>12, <1>13 DEF IInv

LEMMA RemoveBridgePortStep ==
    ASSUME StgAssumption, Orderly, IInv, NEW t \in Porter,
           RemoveBridgePort(t)
    PROVE  IInv'
<1> USE StgAssumption
<1> DEFINE r == Idle
<1>1. /\ t \in Thread /\ t \in Porter /\ t \notin Setter /\ th[t].pc = "del_brport" /\ mutex = t /\ mutex' = Null
      /\ UNCHANGED <<stgs, stp, defaultStg, idList, portList>>
      /\ th[t].brport \in Brport /\ th[t].port \in Port
      /\ th' = [th EXCEPT ![t] = r]
  <2>1. t \in Thread /\ t \notin Setter /\ th[t].pc = "del_brport"
    BY DEF RemoveBridgePort, Thread, StgAssumption
  <2>2. mutex = t
    BY <2>1 DEF IInv, MutexInv, Holds
  <2>3. th[t].brport \in Brport
    BY <2>1 DEF IInv, TypesOK, ThreadOK, DelPC
  <2>4. th[t].port \in Port
    BY <2>1 DEF IInv, BrportInv, DelPC
  <2> QED BY <2>1, <2>2, <2>3, <2>4 DEF RemoveBridgePort, Return, lists
<1>2. OnlyMoves(t) /\ th'[t] = r
  BY <1>1, Moves DEF IInv, Step
<1>3. /\ th'[t].pc = "idle" /\ th'[t].brport = Null /\ th'[t].todo = {}
      /\ th'[t].port = Null /\ th'[t].oid = Null
      /\ \/ UNCHANGED <<brports, brCache>> /\ hurt' = hurt \cup {th[t].brport}
         \/ /\ OnBrport(th[t].brport) = {} /\ hurt' = hurt \ {th[t].brport}
            /\ \A c \in Brport : brports'[c] = IF c = th[t].brport THEN Null ELSE brports[c]
            /\ \A q \in Port : brCache'[q] = IF q = th[t].port THEN Null ELSE brCache[q]
            /\ brports[th[t].brport] = th[t].port
      /\ brports' \in [Brport -> Port \cup {Null}] /\ brCache' \in [Port -> Brport \cup {Null}] /\ hurt' \subseteq Brport
  <2>1. /\ th'[t].pc = "idle" /\ th'[t].brport = Null /\ th'[t].todo = {}
        /\ th'[t].port = Null /\ th'[t].oid = Null
    BY <1>2 DEF Idle
  <2>2. brports \in [Brport -> Port \cup {Null}] /\ brCache \in [Port -> Brport \cup {Null}] /\ hurt \subseteq Brport
    BY DEF IInv, TypesOK
  <2>3. brports[th[t].brport] \in {th[t].port, Null}
    BY <1>1 DEF IInv, BrportInv, DelPC
  <2>4. \/ UNCHANGED <<brports, brCache>> /\ hurt' = hurt \cup {th[t].brport}
        \/ /\ brports[th[t].brport] # Null /\ OnBrport(th[t].brport) = {} /\ hurt' = hurt \ {th[t].brport}
           /\ brports' = [brports EXCEPT ![th[t].brport] = Null]
           /\ brCache' = [brCache EXCEPT ![th[t].port] = Null]
    BY DEF RemoveBridgePort
  <2> QED BY <1>1, <2>1, <2>2, <2>3, <2>4
<1>4. th'[t] \in ThreadRec
  BY <1>2, IdleRec
<1>5. CachingInv' /\ OneStp' /\ IdInv' /\ PortInv'
  BY <1>1, <1>2, <1>3, QuietLists DEF Aside, UncachePC, CachePC, BootPC
<1>6. TypesOK'
  <2>0. ThreadOK(t)
    BY <1>1 DEF IInv, TypesOK
  <2>1. ThreadOK(t)'
    BY <1>1, <1>3, <2>0 DEF ThreadOK, SharedPC, SetterPC, PorterPC, NewPC, UncachePC, DelPC, CachePC, BootPC
  <2> QED BY <1>1, <1>2, <1>3, <1>4, <2>1, QuietTypes DEF TypesOK, IInv
<1>7. MutexInv'
  BY <1>1, <1>2, <1>3 DEF MutexInv, IInv, Holds, OnlyMoves, UncachePC
<1>8. BrportInv'
  <2> DEFINE b == th[t].brport
  <2>1. BrportInv /\ Null \notin Port
    BY DEF IInv, StgAssumption
  <2>2. CASE UNCHANGED <<brports, brCache>>
    BY <1>1, <1>2, <1>3, <2>1, <2>2 DEF BrportInv, OnlyMoves, Thread, DelPC, UncachePC
  <2>3. CASE ~ UNCHANGED <<brports, brCache>>
    <3>1. /\ OnBrport(b) = {} /\ brports[b] = th[t].port
          /\ \A c \in Brport : brports'[c] = IF c = b THEN Null ELSE brports[c]
          /\ \A q \in Port : brCache'[q] = IF q = th[t].port THEN Null ELSE brCache[q]
      BY <1>3, <2>3
    <3>2. \A p \in Port : brCache'[p] # Null => brports'[brCache'[p]] = p
      BY <1>1, <1>3, <2>1, <3>1 DEF BrportInv
    <3>3. \A c, d \in Brport : brports'[c] = brports'[d] /\ brports'[c] # Null => c = d
      BY <2>1, <3>1 DEF BrportInv
    <3>4. \A s \in StpOid : stp'[s] # Null => brports'[stp'[s][2]] # Null
      <4>1. \A s \in StpOid : stp[s] # Null => stp[s][2] \in Brport /\ stp[s][2] # b
        BY <3>1 DEF IInv, TypesOK, OnBrport
      <4> QED BY <1>1, <2>1, <3>1, <4>1 DEF BrportInv
    <3>5. ASSUME NEW u \in Porter, th'[u].pc \in DelPC \cup UncachePC
          PROVE  th'[u].port \in Port /\ brports'[th'[u].brport] \in {th'[u].port, Null}
      <4>1. th'[u] = th[u] /\ u \in Thread
        BY <1>2, <1>3, <3>5 DEF OnlyMoves, Thread, DelPC, UncachePC
      <4>2. th[u].brport \in Brport
        BY <3>5, <4>1 DEF IInv, TypesOK, ThreadOK
      <4> QED BY <2>1, <3>1, <3>5, <4>1, <4>2 DEF BrportInv
    <3> QED BY <3>2, <3>3, <3>4, <3>5 DEF BrportInv
  <2> QED BY <2>2, <2>3
<1>9. NewsInv'
  <2> SUFFICES ASSUME NEW u \in Porter, th'[u].pc \in NewPC
               PROVE  NewInv(u)'
    BY DEF NewsInv
  <2>1. u # t /\ th'[u] = th[u] /\ u \in Thread /\ NewInv(u)
    BY <1>2, <1>3 DEF NewPC, OnlyMoves, Thread, NewsInv, IInv
  <2>2. th[u].brport \in Brport /\ th[u].brport # Null
    BY <2>1 DEF IInv, TypesOK, ThreadOK
  <2>3. th[u].brport # th[t].brport
    BY <1>1, <2>1 DEF NewInv
  <2>4. \A v \in Thread \ {u} : th'[v].brport # th[u].brport
    BY <1>1, <1>2, <1>3, <2>1, <2>2 DEF NewInv, OnlyMoves
  <2>5. brports'[th[u].brport] = brports[th[u].brport]
    BY <1>3, <2>2, <2>3
  <2>6. \A q \in Port : brCache'[q] # th[u].brport
    BY <1>3, <2>1, <2>2 DEF NewInv
  <2> QED BY <1>1, <2>1, <2>4, <2>5, <2>6 DEF NewInv, OnBrport
<1>10. SetterInv'
  BY <1>1, <1>2, <1>3 DEF SetterInv, DeletesInv, IInv, OnlyMoves, Thread, Live, UncachePC
<1>11. BootInv'
  <2>1. InStg(DefaultStg)' = InStg(DefaultStg)
    BY <1>1 DEF InStg
  <2> QED BY <1>1, <1>2, <1>3, <2>1 DEF BootInv, IInv, OnlyMoves, Thread, BootPC
<1>12. DeletionInv'
  BY <1>1, <1>2, <1>3 DEF DeletionInv, IInv, OnlyMoves, Thread, OnBrport, UncachePC
<1>13. DefaultInv'
  <2> DEFINE b == th[t].brport
  <2>1. BrportInv /\ DefaultInv
    BY DEF IInv
  <2>2. ASSUME NEW q \in Port, brCache'[q] # Null, brCache'[q] \notin hurt',
               \A u \in Porter : th'[u].brport # brCache'[q]
        PROVE  InStg(DefaultStg) \cap OnBrport(brCache'[q]) # {}
    <3>1. brCache'[q] = brCache[q]
      BY <1>3, <2>2
    <3>2. brCache[q] # b
      BY <1>1, <1>3, <2>1, <2>2, <3>1 DEF BrportInv
    <3>3. brCache[q] \notin hurt
      BY <1>3, <2>2, <3>1, <3>2
    <3>4. \A u \in Porter : th[u].brport # brCache[q]
      BY <1>2, <2>2, <3>1, <3>2 DEF OnlyMoves, Thread
    <3> QED BY <2>1, <2>2, <3>1, <3>3, <3>4 DEF DefaultInv, InDefaultStg
  <2>3. ASSUME NEW u \in Porter, th'[u].pc = "new_cache"
        PROVE  InStg(DefaultStg) \cap OnBrport(th[u].brport) # {} /\ th'[u] = th[u]
    BY <1>1, <1>2, <1>3, <2>1, <2>3 DEF DefaultInv, Thread, OnlyMoves
  <2> QED BY <1>1, <2>2, <2>3 DEF DefaultInv, InDefaultStg, InStg, OnBrport
<1> QED BY <1>5, <1>6, <1>7, <1>8, <1>9, <1>10, <1>11, <1>12, <1>13 DEF IInv

LEMMA StgDeleteStep ==
    ASSUME StgAssumption, Orderly, IInv, NEW t \in Setter, NEW g \in Stg,
           StgDelete(t, g)
    PROVE  IInv'
<1> USE StgAssumption
<1> DEFINE r == LET n == Cardinality(InStg(g))
              IN  [Idle EXCEPT !.inst = g, !.n = n, !.pc = IF n = 0 THEN "stg_remove" ELSE "stg_list"]
<1>1. /\ t \in Thread /\ t \in Setter /\ t \notin Porter /\ th[t].pc = "idle" /\ g # DefaultStg
      /\ UNCHANGED <<stgs, stp, brports, brCache, defaultStg, idList, portList, mutex, hurt>>
      /\ th' = [th EXCEPT ![t] = r]
  BY DEF StgDelete, Count, StgAssumption, sai, lists, IInv, TypesOK, Step, Goto, Return, Thread
<1>2. OnlyMoves(t) /\ th'[t] = r
  BY <1>1, Moves DEF IInv, Step
<1>3. /\ th'[t].pc \in {"stg_list", "stg_remove"} /\ th'[t].inst = g
      /\ th'[t].todo = {} /\ th'[t].brport = Null
      /\ th'[t].port = Null /\ th'[t].oid = Null
  BY <1>1, <1>2 DEF Idle, IInv, TypesOK, ThreadRec
<1>4. th'[t] \in ThreadRec
  <2>1. "stg_remove" \in PCs /\ "stg_list" \in PCs
    BY DEF PCs, SetterPC
  <2>2. Cardinality(InStg(g)) \in Nat
    BY Counts
  <2>3. r \in ThreadRec
    BY <2>1, <2>2, IdleRec DEF ThreadRec
  <2> QED BY <1>2, <2>3
<1>5. CachingInv' /\ OneStp' /\ IdInv' /\ PortInv'
  BY <1>1, <1>2, <1>3, QuietLists DEF Aside, UncachePC, CachePC, BootPC
<1>6. TypesOK'
  <2>0. ThreadOK(t)
    BY <1>1 DEF IInv, TypesOK
  <2>1. ThreadOK(t)'
    BY <1>1, <1>3, <2>0 DEF ThreadOK, SharedPC, SetterPC, PorterPC, NewPC, UncachePC, DelPC, CachePC, BootPC
  <2> QED BY <1>1, <1>2, <1>4, <2>1, QuietTypes DEF TypesOK, IInv
<1>7. MutexInv'
  BY <1>1, <1>2, <1>3 DEF MutexInv, IInv, Holds, OnlyMoves, UncachePC
<1>8. BrportInv'
  BY <1>1, <1>2, <1>3 DEF BrportInv, IInv, OnlyMoves, Thread, DelPC, UncachePC
<1>9. NewsInv'
  BY <1>1, <1>2, <1>3, QuietNews DEF NewPC
<1>10. SetterInv'
  BY <1>1, <1>2, <1>3 DEF SetterInv, DeletesInv, IInv, OnlyMoves, Thread, Live, UncachePC
<1>11. BootInv'
  <2>1. InStg(DefaultStg)' = InStg(DefaultStg)
    BY <1>1 DEF InStg
  <2> QED BY <1>1, <1>2, <1>3, <2>1 DEF BootInv, IInv, OnlyMoves, Thread, BootPC
<1>12. DeletionInv'
  BY <1>1, <1>2, <1>3 DEF DeletionInv, IInv, OnlyMoves, Thread, OnBrport, UncachePC
<1>13. DefaultInv'
  BY <1>1, <1>2, <1>3 DEF DefaultInv, IInv, OnlyMoves, Thread, OnBrport, InStg, InDefaultStg
<1> QED BY <1>5, <1>6, <1>7, <1>8, <1>9, <1>10, <1>11, <1>12, <1>13 DEF IInv

LEMMA StgRemoveStep ==
    ASSUME StgAssumption, Orderly, IInv, NEW t \in Setter,
           StgRemove(t)
    PROVE  IInv'
<1> USE StgAssumption
<1> DEFINE r == Idle
<1>1. /\ t \in Thread /\ t \in Setter /\ t \notin Porter /\ th[t].pc = "stg_remove" /\ th[t].inst # DefaultStg
      /\ UNCHANGED <<stp, brports, brCache, defaultStg, idList, portList, mutex, hurt>>
      /\ DefaultStg \in stgs' /\ stgs' \subseteq Stg
      /\ th' = [th EXCEPT ![t] = r]
  BY DEF StgRemove, SetterInv, StgAssumption, sai, lists, IInv, TypesOK, Step, Goto, Return, Thread
<1>2. OnlyMoves(t) /\ th'[t] = r
  BY <1>1, Moves DEF IInv, Step
<1>3. /\ th'[t].pc = "idle" /\ th'[t].todo = {} /\ th'[t].brport = Null
      /\ th'[t].port = Null /\ th'[t].oid = Null
  BY <1>1, <1>2 DEF Idle, IInv, TypesOK, ThreadRec
<1>4. th'[t] \in ThreadRec
  BY <1>2, IdleRec
<1>5. CachingInv' /\ OneStp' /\ IdInv' /\ PortInv'
  BY <1>1, <1>2, <1>3, QuietLists DEF Aside, UncachePC, CachePC, BootPC
<1>6. TypesOK'
  <2>0. ThreadOK(t)
    BY <1>1 DEF IInv, TypesOK
  <2>1. ThreadOK(t)'
    BY <1>1, <1>3, <2>0 DEF ThreadOK, SharedPC, SetterPC, PorterPC, NewPC, UncachePC, DelPC, CachePC, BootPC
  <2> QED BY <1>1, <1>2, <1>4, <2>1, QuietTypes DEF TypesOK, IInv
<1>7. MutexInv'
  BY <1>1, <1>2, <1>3 DEF MutexInv, IInv, Holds, OnlyMoves, UncachePC
<1>8. BrportInv'
  BY <1>1, <1>2, <1>3 DEF BrportInv, IInv, OnlyMoves, Thread, DelPC, UncachePC
<1>9. NewsInv'
  BY <1>1, <1>2, <1>3, QuietNews DEF NewPC
<1>10. SetterInv'
  BY <1>1, <1>2, <1>3 DEF SetterInv, DeletesInv, IInv, OnlyMoves, Thread, Live, UncachePC
<1>11. BootInv'
  <2>1. InStg(DefaultStg)' = InStg(DefaultStg)
    BY <1>1 DEF InStg
  <2> QED BY <1>1, <1>2, <1>3, <2>1 DEF BootInv, IInv, OnlyMoves, Thread, BootPC
<1>12. DeletionInv'
  BY <1>1, <1>2, <1>3 DEF DeletionInv, IInv, OnlyMoves, Thread, OnBrport, UncachePC
<1>13. DefaultInv'
  BY <1>1, <1>2, <1>3 DEF DefaultInv, IInv, OnlyMoves, Thread, OnBrport, InStg, InDefaultStg
<1> QED BY <1>5, <1>6, <1>7, <1>8, <1>9, <1>10, <1>11, <1>12, <1>13 DEF IInv

LEMMA StgAddStep ==
    ASSUME StgAssumption, IInv, NEW t \in Setter, NEW g \in Stg, StgAdd(t, g)
    PROVE  IInv'
<1> USE DEF StgAdd, lists
<1>1. TypesOK'
  BY DEF IInv, TypesOK, ThreadOK
<1>2. MutexInv' /\ BrportInv' /\ CachingInv' /\ OneStp' /\ BootInv'
  <2>1. MutexInv' /\ BrportInv'
    BY DEF IInv, MutexInv, Holds, BrportInv
  <2>2. CachingInv' /\ OneStp'
    BY DEF IInv, CachingInv, Live, OneStp
  <2>3. BootInv'
    BY DEF IInv, BootInv, InStg
  <2> QED BY <2>1, <2>2, <2>3
<1>3. NewsInv' /\ SetterInv' /\ DeletionInv' /\ DefaultInv'
  BY DEF IInv, NewsInv, NewInv, OnBrport, SetterInv, DeletesInv, Live, DeletionInv,
         DefaultInv, InDefaultStg, InStg
<1>4. IdInv' /\ PortInv'
  <2>1. t \in Thread /\ OnlyMoves(t) /\ Aside(t) /\ Aside(t)'
    BY DEF Thread, OnlyMoves, Aside, UncachePC, CachePC, BootPC
  <2> QED BY <2>1, QuietLists
<1> QED BY <1>1, <1>2, <1>3, <1>4 DEF IInv

LEMMA StpsDoneStep ==
    ASSUME StgAssumption, Orderly, IInv, NEW t \in Porter,
           StpsDone(t)
    PROVE  IInv'
<1> USE StgAssumption
<1> DEFINE r == [th[t] EXCEPT !.pc = "del_brport"]
<1>1. /\ t \in Thread /\ t \in Porter /\ t \notin Setter /\ th[t].pc = "del_stp" /\ th[t].todo = {}
      /\ UNCHANGED <<stgs, stp, brports, brCache, defaultStg, idList, portList, mutex, hurt>>
      /\ th[t].brport \in Brport
      /\ th' = [th EXCEPT ![t] = r]
  BY DEF StpsDone, ThreadOK, DelPC, StgAssumption, sai, lists, IInv, TypesOK, Step, Goto, Return, Thread
<1>2. OnlyMoves(t) /\ th'[t] = r
  BY <1>1, Moves DEF IInv, Step
<1>3. /\ th'[t].pc = "del_brport" /\ th'[t].brport = th[t].brport /\ th'[t].port = th[t].port
      /\ th'[t].oid = th[t].oid
  BY <1>1, <1>2 DEF Idle, IInv, TypesOK, ThreadRec
<1>4. th'[t] \in ThreadRec
  <2>1. "del_brport" \in PCs
    BY DEF PCs, SetterPC, PorterPC, SharedPC
  <2>2. th[t] \in ThreadRec
    BY <1>1 DEF IInv, TypesOK
  <2>3. r \in ThreadRec
    BY <2>1, <2>2, IdleRec DEF ThreadRec
  <2> QED BY <1>2, <2>3
<1>5. CachingInv' /\ OneStp' /\ IdInv' /\ PortInv'
  BY <1>1, <1>2, <1>3, QuietLists DEF Aside, UncachePC, CachePC, BootPC
<1>6. TypesOK'
  <2>0. ThreadOK(t)
    BY <1>1 DEF IInv, TypesOK
  <2>1. ThreadOK(t)'
    BY <1>1, <1>3, <2>0 DEF ThreadOK, SharedPC, SetterPC, PorterPC, NewPC, UncachePC, DelPC, CachePC, BootPC
  <2> QED BY <1>1, <1>2, <1>4, <2>1, QuietTypes DEF TypesOK, IInv
<1>7. MutexInv'
  BY <1>1, <1>2, <1>3 DEF MutexInv, IInv, Holds, OnlyMoves, UncachePC
<1>8. BrportInv'
  BY <1>1, <1>2, <1>3 DEF BrportInv, IInv, OnlyMoves, Thread, DelPC, UncachePC
<1>9. NewsInv'
  BY <1>1, <1>2, <1>3, QuietNews DEF NewPC
<1>10. SetterInv'
  BY <1>1, <1>2, <1>3 DEF SetterInv, DeletesInv, IInv, OnlyMoves, Thread, Live, UncachePC
<1>11. BootInv'
  <2>1. InStg(DefaultStg)' = InStg(DefaultStg)
    BY <1>1 DEF InStg
  <2> QED BY <1>1, <1>2, <1>3, <2>1 DEF BootInv, IInv, OnlyMoves, Thread, BootPC
<1>12. DeletionInv'
  <2>1. th[t].brport \notin hurt => OnBrport(th[t].brport) = {}
    BY <1>1 DEF DeletionInv, IInv
  <2> QED BY <1>1, <1>2, <1>3, <2>1 DEF DeletionInv, IInv, OnlyMoves, Thread, OnBrport, UncachePC
<1>13. DefaultInv'
  BY <1>1, <1>2, <1>3, QuietDefault
<1> QED BY <1>5, <1>6, <1>7, <1>8, <1>9, <1>10, <1>11, <1>12, <1>13 DEF IInv

LEMMA StpKeptStep ==
    ASSUME StgAssumption, Orderly, IInv, NEW t \in Porter, NEW e \in th[t].todo,
           StpKept(t, e)
    PROVE  IInv'
<1> USE StgAssumption
<1> DEFINE r == [th[t] EXCEPT !.todo = @ \ {e}]
<1>1. /\ t \in Thread /\ t \in Porter /\ t \notin Setter /\ th[t].pc = "del_stp"
      /\ UNCHANGED <<stgs, stp, brports, brCache, defaultStg, idList, portList, mutex>>
      /\ hurt' = IF stp[e[1]] = Null THEN hurt ELSE hurt \cup {th[t].brport}
      /\ th[t].brport \in Brport
      /\ th' = [th EXCEPT ![t] = r]
  BY DEF StpKept, ThreadOK, DelPC, StgAssumption, sai, lists, IInv, TypesOK, Step, Goto, Return, Thread
<1>2. OnlyMoves(t) /\ th'[t] = r
  BY <1>1, Moves DEF IInv, Step
<1>3. /\ th'[t].pc = "del_stp" /\ th'[t].brport = th[t].brport /\ th'[t].port = th[t].port
      /\ th'[t].oid = th[t].oid
      /\ th'[t].todo = th[t].todo \ {e}
  BY <1>1, <1>2 DEF Idle, IInv, TypesOK, ThreadRec
<1>4. th'[t] \in ThreadRec
  <2>1. th[t] \in ThreadRec
    BY DEF IInv, TypesOK, Thread
  <2> QED BY <1>2, <2>1 DEF ThreadRec
<1>5. CachingInv' /\ OneStp' /\ IdInv' /\ PortInv'
  BY <1>1, <1>2, <1>3, QuietLists DEF Aside, UncachePC, CachePC, BootPC
<1>6. TypesOK'
  <2>0. ThreadOK(t)
    BY <1>1 DEF IInv, TypesOK
  <2>1. ThreadOK(t)'
    BY <1>1, <1>3, <2>0 DEF ThreadOK, SharedPC, SetterPC, PorterPC, NewPC, UncachePC, DelPC, CachePC, BootPC
  <2> QED BY <1>1, <1>2, <1>4, <2>1, QuietTypes DEF TypesOK, IInv
<1>7. MutexInv'
  BY <1>1, <1>2, <1>3 DEF MutexInv, IInv, Holds, OnlyMoves, UncachePC
<1>8. BrportInv'
  BY <1>1, <1>2, <1>3 DEF BrportInv, IInv, OnlyMoves, Thread, DelPC, UncachePC
<1>9. NewsInv'
  BY <1>1, <1>2, <1>3, QuietNews DEF NewPC
<1>10. SetterInv'
  BY <1>1, <1>2, <1>3 DEF SetterInv, DeletesInv, IInv, OnlyMoves, Thread, Live, UncachePC
<1>11. BootInv'
  <2>1. InStg(DefaultStg)' = InStg(DefaultStg)
    BY <1>1 DEF InStg
  <2> QED BY <1>1, <1>2, <1>3, <2>1 DEF BootInv, IInv, OnlyMoves, Thread, BootPC
<1>12. DeletionInv'
  BY <1>1, <1>2, <1>3 DEF DeletionInv, IInv, OnlyMoves, Thread, OnBrport, UncachePC
<1>13. DefaultInv'
  BY <1>1, <1>2, <1>3, QuietDefault
<1> QED BY <1>5, <1>6, <1>7, <1>8, <1>9, <1>10, <1>11, <1>12, <1>13 DEF IInv

LEMMA GivesUpStep ==
    ASSUME StgAssumption, Orderly, IInv, NEW t \in Setter,
           GivesUp(t)
    PROVE  IInv'
<1> USE StgAssumption
<1> DEFINE r == Idle
<1>1. /\ t \in Thread /\ t \in Setter /\ t \notin Porter /\ th[t].pc \in {"stg_list", "stg_attr", "stg_stp"}
      /\ UNCHANGED <<stgs, stp, brports, brCache, defaultStg, idList, portList, mutex, hurt>>
      /\ th' = [th EXCEPT ![t] = r]
  BY DEF GivesUp, Rest, StgAssumption, sai, lists, IInv, TypesOK, Step, Goto, Return, Thread
<1>2. OnlyMoves(t) /\ th'[t] = r
  BY <1>1, Moves DEF IInv, Step
<1>3. /\ th'[t].pc = "idle" /\ th'[t].todo = {} /\ th'[t].brport = Null /\ th'[t].oid = Null
      /\ th'[t].port = Null
  BY <1>1, <1>2 DEF Idle, IInv, TypesOK, ThreadRec
<1>4. th'[t] \in ThreadRec
  BY <1>2, IdleRec
<1>5. CachingInv' /\ OneStp' /\ IdInv' /\ PortInv'
  BY <1>1, <1>2, <1>3, QuietLists DEF Aside, UncachePC, CachePC, BootPC
<1>6. TypesOK'
  <2>0. ThreadOK(t)
    BY <1>1 DEF IInv, TypesOK
  <2>1. ThreadOK(t)'
    BY <1>1, <1>3, <2>0 DEF ThreadOK, SharedPC, SetterPC, PorterPC, NewPC, UncachePC, DelPC, CachePC, BootPC
  <2> QED BY <1>1, <1>2, <1>4, <2>1, QuietTypes DEF TypesOK, IInv
<1>7. MutexInv'
  BY <1>1, <1>2, <1>3 DEF MutexInv, IInv, Holds, OnlyMoves, UncachePC
<1>8. BrportInv'
  BY <1>1, <1>2, <1>3 DEF BrportInv, IInv, OnlyMoves, Thread, DelPC, UncachePC
<1>9. NewsInv'
  BY <1>1, <1>2, <1>3, QuietNews DEF NewPC
<1>10. SetterInv'
  BY <1>1, <1>2, <1>3 DEF SetterInv, DeletesInv, IInv, OnlyMoves, Thread, Live, UncachePC
<1>11. BootInv'
  <2>1. InStg(DefaultStg)' = InStg(DefaultStg)
    BY <1>1 DEF InStg
  <2> QED BY <1>1, <1>2, <1>3, <2>1 DEF BootInv, IInv, OnlyMoves, Thread, BootPC
<1>12. DeletionInv'
  BY <1>1, <1>2, <1>3 DEF DeletionInv, IInv, OnlyMoves, Thread, OnBrport, UncachePC
<1>13. DefaultInv'
  BY <1>1, <1>2, <1>3 DEF DefaultInv, IInv, OnlyMoves, Thread, OnBrport, InStg, InDefaultStg
<1> QED BY <1>5, <1>6, <1>7, <1>8, <1>9, <1>10, <1>11, <1>12, <1>13 DEF IInv

LEMMA StgListsStep ==
    ASSUME StgAssumption, Orderly, IInv, NEW t \in Setter, NEW all,
           StgLists(t, all)
    PROVE  IInv'
<1> USE StgAssumption
<1> DEFINE r == [th[t] EXCEPT !.n = 0, !.todo = {<<s, th[t].inst>> : s \in all}, !.pc = "stg_attr"]
<1>1. /\ t \in Thread /\ t \in Setter /\ t \notin Porter /\ th[t].pc = "stg_list"
      /\ UNCHANGED <<stgs, stp, brports, brCache, defaultStg, idList, portList, mutex, hurt>>
      /\ th[t].inst \in Stg /\ th[t].inst # DefaultStg
      /\ all \subseteq {Null} \cup InStg(th[t].inst)
      /\ th' = [th EXCEPT ![t] = r]
  BY DEF StgLists, ThreadOK, Orderly, SetterInv, Rest, StgAssumption, sai, lists, IInv, TypesOK, Step, Goto, Return, Thread
<1>2. OnlyMoves(t) /\ th'[t] = r
  BY <1>1, Moves DEF IInv, Step
<1>3. /\ th'[t].pc = "stg_attr" /\ th'[t].inst = th[t].inst /\ th'[t].brport = th[t].brport
      /\ th'[t].port = th[t].port
      /\ th'[t].todo = {<<s, th[t].inst>> : s \in all}
  BY <1>1, <1>2 DEF Idle, IInv, TypesOK, ThreadRec
<1>4. th'[t] \in ThreadRec
  <2>1. "stg_attr" \in PCs /\ th[t] \in ThreadRec
    BY <1>1 DEF PCs, SetterPC, IInv, TypesOK
  <2>2. {<<s, th[t].inst>> : s \in all} \subseteq (StpOid \cup {Null}) \X Stg
    BY <1>1 DEF InStg
  <2>3. r \in ThreadRec
    BY <2>1, <2>2 DEF ThreadRec
  <2> QED BY <1>2, <2>3
<1>5. CachingInv' /\ OneStp' /\ IdInv' /\ PortInv'
  BY <1>1, <1>2, <1>3, QuietLists DEF Aside, UncachePC, CachePC, BootPC
<1>6. TypesOK'
  <2>0. ThreadOK(t)
    BY <1>1 DEF IInv, TypesOK
  <2>1. ThreadOK(t)'
    BY <1>1, <1>3, <2>0 DEF ThreadOK, SharedPC, SetterPC, PorterPC, NewPC, UncachePC, DelPC, CachePC, BootPC
  <2> QED BY <1>1, <1>2, <1>4, <2>1, QuietTypes DEF TypesOK, IInv
<1>7. MutexInv'
  BY <1>1, <1>2, <1>3 DEF MutexInv, IInv, Holds, OnlyMoves, UncachePC
<1>8. BrportInv'
  BY <1>1, <1>2, <1>3 DEF BrportInv, IInv, OnlyMoves, Thread, DelPC, UncachePC
<1>9. NewsInv'
  BY <1>1, <1>2, <1>3, QuietNews DEF NewPC
<1>10. SetterInv'
  <2>1. \A e \in th'[t].todo :
            e[2] = th[t].inst /\ (e[1] # Null => stp[e[1]] = Null \/ stp[e[1]][1] = th[t].inst)
    BY <1>1, <1>3 DEF InStg
  <2> QED BY <1>1, <1>2, <1>3, <2>1 DEF SetterInv, DeletesInv, IInv, OnlyMoves, Thread, Live, UncachePC
<1>11. BootInv'
  <2>1. InStg(DefaultStg)' = InStg(DefaultStg)
    BY <1>1 DEF InStg
  <2> QED BY <1>1, <1>2, <1>3, <2>1 DEF BootInv, IInv, OnlyMoves, Thread, BootPC
<1>12. DeletionInv'
  BY <1>1, <1>2, <1>3 DEF DeletionInv, IInv, OnlyMoves, Thread, OnBrport, UncachePC
<1>13. DefaultInv'
  BY <1>1, <1>2, <1>3 DEF DefaultInv, IInv, OnlyMoves, Thread, OnBrport, InStg, InDefaultStg
<1> QED BY <1>5, <1>6, <1>7, <1>8, <1>9, <1>10, <1>11, <1>12, <1>13 DEF IInv

LEMMA StgAttrsDoneStep ==
    ASSUME StgAssumption, Orderly, IInv, NEW t \in Setter,
           AttrsDone(t, "stg_attr", [th[t] EXCEPT !.pc = "stg_remove"])
    PROVE  IInv'
<1> USE StgAssumption
<1> DEFINE r == [th[t] EXCEPT !.pc = "stg_remove"]
<1>1. /\ t \in Thread /\ t \in Setter /\ t \notin Porter /\ th[t].pc = "stg_attr"
      /\ UNCHANGED <<stgs, stp, brports, brCache, defaultStg, idList, portList, mutex, hurt>>
      /\ th[t].inst \in Stg /\ th[t].inst # DefaultStg
      /\ th' = [th EXCEPT ![t] = r]
  BY DEF AttrsDone, ThreadOK, SetterInv, DeletesInv, Rest, StgAssumption, sai, lists, IInv, TypesOK, Step, Goto, Return, Thread
<1>2. OnlyMoves(t) /\ th'[t] = r
  BY <1>1, Moves DEF IInv, Step
<1>3. /\ th'[t].pc = "stg_remove" /\ th'[t].inst = th[t].inst /\ th'[t].brport = th[t].brport
      /\ th'[t].port = th[t].port
  BY <1>1, <1>2 DEF Idle, IInv, TypesOK, ThreadRec
<1>4. th'[t] \in ThreadRec
  <2>1. "stg_remove" \in PCs
    BY DEF PCs, SetterPC, PorterPC, SharedPC
  <2>2. th[t] \in ThreadRec
    BY <1>1 DEF IInv, TypesOK
  <2>3. r \in ThreadRec
    BY <2>1, <2>2, IdleRec DEF ThreadRec
  <2> QED BY <1>2, <2>3
<1>5. CachingInv' /\ OneStp' /\ IdInv' /\ PortInv'
  BY <1>1, <1>2, <1>3, QuietLists DEF Aside, UncachePC, CachePC, BootPC
<1>6. TypesOK'
  <2>0. ThreadOK(t)
    BY <1>1 DEF IInv, TypesOK
  <2>1. ThreadOK(t)'
    BY <1>1, <1>3, <2>0 DEF ThreadOK, SharedPC, SetterPC, PorterPC, NewPC, UncachePC, DelPC, CachePC, BootPC
  <2> QED BY <1>1, <1>2, <1>4, <2>1, QuietTypes DEF TypesOK, IInv
<1>7. MutexInv'
  BY <1>1, <1>2, <1>3 DEF MutexInv, IInv, Holds, OnlyMoves, UncachePC
<1>8. BrportInv'
  BY <1>1, <1>2, <1>3 DEF BrportInv, IInv, OnlyMoves, Thread, DelPC, UncachePC
<1>9. NewsInv'
  BY <1>1, <1>2, <1>3, QuietNews DEF NewPC
<1>10. SetterInv'
  BY <1>1, <1>2, <1>3 DEF SetterInv, DeletesInv, IInv, OnlyMoves, Thread, Live, UncachePC
<1>11. BootInv'
  <2>1. InStg(DefaultStg)' = InStg(DefaultStg)
    BY <1>1 DEF InStg
  <2> QED BY <1>1, <1>2, <1>3, <2>1 DEF BootInv, IInv, OnlyMoves, Thread, BootPC
<1>12. DeletionInv'
  BY <1>1, <1>2, <1>3 DEF DeletionInv, IInv, OnlyMoves, Thread, OnBrport, UncachePC
<1>13. DefaultInv'
  BY <1>1, <1>2, <1>3 DEF DefaultInv, IInv, OnlyMoves, Thread, OnBrport, InStg, InDefaultStg
<1> QED BY <1>5, <1>6, <1>7, <1>8, <1>9, <1>10, <1>11, <1>12, <1>13 DEF IInv

LEMMA StgAttrStep ==
    ASSUME StgAssumption, Orderly, IInv, NEW t \in Setter, NEW e \in th[t].todo,
           StgAttr(t, e)
    PROVE  IInv'
<1> USE StgAssumption
<1> DEFINE r == [th[t] EXCEPT !.pc = "stg_stp", !.oid = e[1], !.brport = stp[e[1]][2],
                            !.todo = @ \ {e}, !.stg = stp[e[1]][1]]
<1>1. /\ t \in Thread /\ t \in Setter /\ t \notin Porter /\ th[t].pc = "stg_attr"
      /\ UNCHANGED <<stgs, stp, brports, brCache, defaultStg, idList, portList, mutex, hurt>>
      /\ th' = [th EXCEPT ![t] = r]
  BY DEF StgAttr, Rest, StgAssumption, sai, lists, IInv, TypesOK, Step, Goto, Return, Thread
<1>2. OnlyMoves(t) /\ th'[t] = r
  BY <1>1, Moves DEF IInv, Step
<1>3. /\ th'[t].pc = "stg_stp" /\ th'[t].inst = th[t].inst /\ th'[t].brport = stp[e[1]][2]
      /\ th'[t].port = th[t].port
      /\ th'[t].stg = stp[e[1]][1] /\ th'[t].oid = e[1] /\ th'[t].todo = th[t].todo \ {e}
      /\ e[1] \in StpOid /\ stp[e[1]] # Null /\ stp[e[1]] = <<stp[e[1]][1], stp[e[1]][2]>>
      /\ th[t].inst \in Stg /\ th[t].inst # DefaultStg /\ stp[e[1]][1] = th[t].inst /\ stp[e[1]][2] \in Brport
  <2>1. e \in (StpOid \cup {Null}) \X Stg /\ th[t] \in ThreadRec
    BY <1>1 DEF IInv, TypesOK, ThreadRec
  <2>2. e[1] # Null /\ stp[e[1]] # Null
    BY DEF StgAttr
  <2>3. e[1] \in StpOid
    BY <2>1, <2>2
  <2>4. stp[e[1]] \in Stg \X Brport
    BY <2>2, <2>3 DEF IInv, TypesOK
  <2>5. th[t].inst \in Stg /\ th[t].inst # DefaultStg /\ stp[e[1]][1] = th[t].inst
    BY <1>1, <2>2 DEF IInv, TypesOK, ThreadOK, SetterInv, DeletesInv
  <2> QED BY <1>2, <2>1, <2>2, <2>3, <2>4, <2>5 DEF ThreadRec
<1>4. th'[t] \in ThreadRec
  <2>1. "stg_stp" \in PCs /\ th[t] \in ThreadRec
    BY <1>1 DEF PCs, SetterPC, IInv, TypesOK
  <2>2. e[1] \in StpOid /\ stp[e[1]][1] \in Stg /\ stp[e[1]][2] \in Brport
    BY <1>3
  <2>3. r \in ThreadRec
    BY <2>1, <2>2 DEF ThreadRec
  <2> QED BY <1>2, <2>3
<1>5. CachingInv' /\ OneStp' /\ IdInv' /\ PortInv'
  BY <1>1, <1>2, <1>3, QuietLists DEF Aside, UncachePC, CachePC, BootPC
<1>6. TypesOK'
  <2>0. ThreadOK(t)
    BY <1>1 DEF IInv, TypesOK
  <2>1. ThreadOK(t)'
    BY <1>1, <1>3, <2>0 DEF ThreadOK, SharedPC, SetterPC, PorterPC, NewPC, UncachePC, DelPC, CachePC, BootPC
  <2> QED BY <1>1, <1>2, <1>4, <2>1, QuietTypes DEF TypesOK, IInv
<1>7. MutexInv'
  BY <1>1, <1>2, <1>3 DEF MutexInv, IInv, Holds, OnlyMoves, UncachePC
<1>8. BrportInv'
  BY <1>1, <1>2, <1>3 DEF BrportInv, IInv, OnlyMoves, Thread, DelPC, UncachePC
<1>9. NewsInv'
  <2> SUFFICES ASSUME NEW u \in Porter, th'[u].pc \in NewPC
               PROVE  NewInv(u)'
    BY DEF NewsInv
  <2>1. u # t /\ th'[u] = th[u] /\ u \in Thread /\ NewInv(u)
    BY <1>1, <1>2, <1>3 DEF OnlyMoves, Thread, NewsInv, IInv
  <2>2. stp[e[1]][2] # th[u].brport
    BY <1>3, <2>1 DEF NewInv, OnBrport
  <2>3. th'[t].brport # th[u].brport
    BY <1>3, <2>2
  <2>4. \A v \in Thread \ {u} : th'[v].brport # th[u].brport
    BY <1>2, <2>1, <2>3 DEF NewInv, OnlyMoves
  <2> QED BY <1>1, <2>1, <2>4 DEF NewInv, OnBrport
<1>10. SetterInv'
  <2>1. DeletesInv(t)
    BY <1>1 DEF IInv, SetterInv
  <2>2. DeletesInv(t)'
    BY <1>1, <1>3, <2>1 DEF DeletesInv
  <2> QED BY <1>1, <1>2, <1>3, <2>2 DEF SetterInv, DeletesInv, IInv, OnlyMoves, Thread, Live, UncachePC, Orderly
<1>11. BootInv'
  <2>1. th'[t].pc \notin BootPC
    BY <1>3 DEF BootPC
  <2> QED BY <1>1, <1>2, <2>1 DEF BootInv, IInv, OnlyMoves, Thread, InStg, Orderly
<1>12. DeletionInv'
  BY <1>1, <1>2, <1>3 DEF DeletionInv, IInv, OnlyMoves, Thread, OnBrport, UncachePC
<1>13. DefaultInv'
  BY <1>1, <1>2, <1>3 DEF DefaultInv, IInv, OnlyMoves, Thread, OnBrport, InStg, InDefaultStg
<1> QED BY <1>5, <1>6, <1>7, <1>8, <1>9, <1>10, <1>11, <1>12, <1>13 DEF IInv

LEMMA BootListsStep ==
    ASSUME StgAssumption, Orderly, IInv, NEW t \in Setter,
           BootLists(t)
    PROVE  IInv'
<1> USE StgAssumption
<1> DEFINE r == [th[t] EXCEPT !.n = 0, !.pc = "boot_attr",
                            !.todo = {<<s, DefaultStg>> : s \in InStg(DefaultStg)}]
<1>1. /\ t \in Thread /\ t \in Setter /\ t \notin Porter /\ th[t].pc = "boot_list"
      /\ UNCHANGED <<stgs, stp, brports, brCache, defaultStg, idList, portList, mutex, hurt>>
      /\ th[t].inst = DefaultStg /\ defaultStg # Null /\ \A u \in Porter : th[u].pc = "idle"
      /\ th' = [th EXCEPT ![t] = r]
  BY DEF BootLists, BootInv, BootPC, Rest, StgAssumption, sai, lists, IInv, TypesOK, Step, Goto, Return, Thread
<1>2. OnlyMoves(t) /\ th'[t] = r
  BY <1>1, Moves DEF IInv, Step
<1>3. /\ th'[t].pc = "boot_attr" /\ th'[t].inst = th[t].inst /\ th'[t].brport = th[t].brport
      /\ th'[t].port = th[t].port
      /\ th'[t].todo = {<<s, DefaultStg>> : s \in InStg(DefaultStg)}
  BY <1>1, <1>2 DEF Idle, IInv, TypesOK, ThreadRec
<1>4. th'[t] \in ThreadRec
  <2>1. "boot_attr" \in PCs /\ th[t] \in ThreadRec
    BY <1>1 DEF PCs, SetterPC, BootPC, IInv, TypesOK
  <2>2. {<<s, DefaultStg>> : s \in InStg(DefaultStg)} \subseteq (StpOid \cup {Null}) \X Stg
    BY DEF InStg
  <2>3. r \in ThreadRec
    BY <2>1, <2>2 DEF ThreadRec
  <2> QED BY <1>2, <2>3
<1>5. CachingInv' /\ OneStp' /\ IdInv' /\ PortInv'
  <2>1. CachingInv'
    BY <1>1, <1>2, <1>3 DEF CachingInv, IInv, Live, OnlyMoves, CachePC
  <2>2. ASSUME NEW s \in StpOid
        PROVE  (PendId(s)' <=> PendId(s)) /\ (PendPort(s)' <=> PendPort(s))
    <3>1. stp[s] # Null /\ stp[s][1] = DefaultStg => BootPending(s) /\ BootPending(s)'
      BY <1>1, <1>3 DEF BootPending, InStg, BootPC
    <3>2. BootPending(s)' <=> BootPending(s)
      BY <1>1, <3>1 DEF BootPending
    <3> QED BY <1>1, <1>2, <1>3, <3>2 DEF PendId, PendPort, CachePC, OnlyMoves
  <2>3. OneStp' /\ IdInv' /\ PortInv'
    BY <1>1, <1>2, <1>3, <2>2, ListsKept DEF UncachePC
  <2> QED BY <2>1, <2>3
<1>6. TypesOK'
  <2>0. ThreadOK(t)
    BY <1>1 DEF IInv, TypesOK
  <2>1. ThreadOK(t)'
    BY <1>1, <1>3, <2>0 DEF ThreadOK, SharedPC, SetterPC, PorterPC, NewPC, UncachePC, DelPC, CachePC, BootPC
  <2> QED BY <1>1, <1>2, <1>4, <2>1, QuietTypes DEF TypesOK, IInv
<1>7. MutexInv'
  BY <1>1, <1>2, <1>3 DEF MutexInv, IInv, Holds, OnlyMoves, UncachePC
<1>8. BrportInv'
  BY <1>1, <1>2, <1>3 DEF BrportInv, IInv, OnlyMoves, Thread, DelPC, UncachePC
<1>9. NewsInv'
  BY <1>1, <1>2, <1>3, QuietNews DEF NewPC
<1>10. SetterInv'
  BY <1>1, <1>2, <1>3 DEF SetterInv, DeletesInv, IInv, OnlyMoves, Thread, Live, UncachePC
<1>11. BootInv'
  <2>1. \A e \in th'[t].todo : e[1] # Null /\ stp[e[1]] # Null
                                 /\ stp[e[1]][1] = DefaultStg /\ e[2] = DefaultStg
    BY <1>3 DEF InStg, StgAssumption
  <2>2. InStg(DefaultStg)' = InStg(DefaultStg)
    BY <1>1 DEF InStg
  <2> QED BY <1>1, <1>2, <1>3, <2>1, <2>2 DEF BootInv, IInv, OnlyMoves, Thread, Orderly
<1>12. DeletionInv'
  BY <1>1, <1>2, <1>3 DEF DeletionInv, IInv, OnlyMoves, Thread, OnBrport, UncachePC
<1>13. DefaultInv'
  BY <1>1, <1>2, <1>3 DEF DefaultInv, IInv, OnlyMoves, Thread, OnBrport, InStg, InDefaultStg
<1> QED BY <1>5, <1>6, <1>7, <1>8, <1>9, <1>10, <1>11, <1>12, <1>13 DEF IInv

LEMMA BootAttrsDoneStep ==
    ASSUME StgAssumption, Orderly, IInv, NEW t \in Setter,
           AttrsDone(t, "boot_attr", Idle)
    PROVE  IInv'
<1> USE StgAssumption
<1> DEFINE r == Idle
<1>1. /\ t \in Thread /\ t \in Setter /\ t \notin Porter /\ th[t].pc = "boot_attr" /\ th[t].todo = {}
      /\ UNCHANGED <<stgs, stp, brports, brCache, defaultStg, idList, portList, mutex, hurt>>
      /\ defaultStg # Null
      /\ th' = [th EXCEPT ![t] = r]
  BY DEF AttrsDone, BootInv, BootPC, Rest, StgAssumption, sai, lists, IInv, TypesOK, Step, Goto, Return, Thread
<1>2. OnlyMoves(t) /\ th'[t] = r
  BY <1>1, Moves DEF IInv, Step
<1>3. /\ th'[t].pc = "idle" /\ th'[t].todo = {} /\ th'[t].brport = Null /\ th'[t].oid = Null
      /\ th'[t].port = Null
  BY <1>1, <1>2 DEF Idle, IInv, TypesOK, ThreadRec
<1>4. th'[t] \in ThreadRec
  BY <1>2, IdleRec
<1>5. CachingInv' /\ OneStp' /\ IdInv' /\ PortInv'
  <2>1. CachingInv'
    <3>1. \A u \in Thread : th'[u].pc \in CachePC => th'[u] = th[u]
      BY <1>2, <1>3 DEF OnlyMoves, CachePC
    <3>2. CachingInv
      BY DEF IInv
    <3> QED BY <1>1, <3>1, <3>2 DEF CachingInv, Live
  <2>2. ASSUME NEW s \in StpOid
        PROVE  (PendId(s)' <=> PendId(s)) /\ (PendPort(s)' <=> PendPort(s))
    <3>1. ~ BootPending(s) /\ ~ BootPending(s)'
      BY <1>1, <1>2, <1>3 DEF BootPending, BootPC, Orderly
    <3> QED BY <1>1, <1>2, <1>3, <3>1 DEF PendId, PendPort, CachePC, OnlyMoves
  <2>3. OneStp' /\ IdInv' /\ PortInv'
    BY <1>1, <1>2, <1>3, <2>2, ListsKept DEF UncachePC
  <2> QED BY <2>1, <2>3
<1>6. TypesOK'
  <2>0. ThreadOK(t)
    BY <1>1 DEF IInv, TypesOK
  <2>1. ThreadOK(t)'
    BY <1>1, <1>3, <2>0 DEF ThreadOK, SharedPC, SetterPC, PorterPC, NewPC, UncachePC, DelPC, CachePC, BootPC
  <2> QED BY <1>1, <1>2, <1>4, <2>1, QuietTypes DEF TypesOK, IInv
<1>7. MutexInv'
  BY <1>1, <1>2, <1>3 DEF MutexInv, IInv, Holds, OnlyMoves, UncachePC
<1>8. BrportInv'
  BY <1>1, <1>2, <1>3 DEF BrportInv, IInv, OnlyMoves, Thread, DelPC, UncachePC
<1>9. NewsInv'
  BY <1>1, <1>2, <1>3, QuietNews DEF NewPC
<1>10. SetterInv'
  BY <1>1, <1>2, <1>3 DEF SetterInv, DeletesInv, IInv, OnlyMoves, Thread, Live, UncachePC
<1>11. BootInv'
  <2>1. InStg(DefaultStg)' = InStg(DefaultStg)
    BY <1>1 DEF InStg
  <2> QED BY <1>1, <1>2, <1>3, <2>1 DEF BootInv, IInv, OnlyMoves, Thread, BootPC
<1>12. DeletionInv'
  BY <1>1, <1>2, <1>3 DEF DeletionInv, IInv, OnlyMoves, Thread, OnBrport, UncachePC
<1>13. DefaultInv'
  BY <1>1, <1>2, <1>3 DEF DefaultInv, IInv, OnlyMoves, Thread, OnBrport, InStg, InDefaultStg
<1> QED BY <1>5, <1>6, <1>7, <1>8, <1>9, <1>10, <1>11, <1>12, <1>13 DEF IInv

LEMMA BootAttrStep ==
    ASSUME StgAssumption, Orderly, IInv, NEW t \in Setter, NEW e \in th[t].todo,
           BootAttr(t, e)
    PROVE  IInv'
<1> USE StgAssumption
<1> DEFINE r == [th[t] EXCEPT !.pc = "boot_cache_id", !.oid = e[1], !.brport = stp[e[1]][2],
                            !.todo = @ \ {e}, !.stg = DefaultStg]
<1>1. /\ t \in Thread /\ t \in Setter /\ t \notin Porter /\ th[t].pc = "boot_attr"
      /\ UNCHANGED <<stgs, stp, brports, brCache, defaultStg, idList, portList, mutex, hurt>>
      /\ defaultStg # Null /\ \A u \in Porter : th[u].pc = "idle"
      /\ th' = [th EXCEPT ![t] = r]
  BY DEF BootAttr, BootInv, BootPC, Rest, StgAssumption, sai, lists, IInv, TypesOK, Step, Goto, Return, Thread
<1>2. OnlyMoves(t) /\ th'[t] = r
  BY <1>1, Moves DEF IInv, Step
<1>3. /\ th'[t].pc = "boot_cache_id" /\ th'[t].inst = th[t].inst /\ th'[t].brport = stp[e[1]][2]
      /\ th'[t].port = th[t].port
      /\ th'[t].stg = DefaultStg /\ th'[t].oid = e[1] /\ th'[t].todo = th[t].todo \ {e}
      /\ e[1] \in StpOid /\ stp[e[1]] = <<DefaultStg, stp[e[1]][2]>> /\ stp[e[1]] # Null
      /\ stp[e[1]][2] \in Brport /\ e = <<e[1], DefaultStg>> /\ th[t].inst = DefaultStg
  <2>1. e \in (StpOid \cup {Null}) \X Stg /\ th[t] \in ThreadRec
    BY <1>1 DEF IInv, TypesOK, ThreadRec
  <2>2. /\ e[1] # Null /\ stp[e[1]] # Null /\ stp[e[1]][1] = DefaultStg /\ e[2] = DefaultStg
        /\ th[t].inst = DefaultStg
    BY <1>1 DEF IInv, BootInv, BootPC
  <2>3. e[1] \in StpOid
    BY <2>1, <2>2
  <2>4. stp[e[1]] \in Stg \X Brport
    BY <2>2, <2>3 DEF IInv, TypesOK
  <2> QED BY <1>2, <2>1, <2>2, <2>3, <2>4 DEF ThreadRec
<1>4. th'[t] \in ThreadRec
  <2>1. "boot_cache_id" \in PCs /\ th[t] \in ThreadRec
    BY <1>1 DEF PCs, SetterPC, BootPC, IInv, TypesOK
  <2>2. e[1] \in StpOid /\ stp[e[1]][2] \in Brport
    BY <1>3
  <2>3. r \in ThreadRec
    BY <2>1, <2>2 DEF ThreadRec
  <2> QED BY <1>2, <2>3
<1>5. CachingInv' /\ OneStp' /\ IdInv' /\ PortInv'
  <2>1. CachingInv'
    <3>1. Live(th'[t].oid, th'[t].stg, th'[t].brport)
      BY <1>3 DEF Live
    <3> QED BY <1>1, <1>2, <3>1 DEF CachingInv, IInv, Live, OnlyMoves
  <2>2. ASSUME NEW s \in StpOid
        PROVE  (PendId(s)' <=> PendId(s)) /\ (PendPort(s)' <=> PendPort(s))
    <3>1. CASE s = e[1]
      <4>1. BootPending(s)
        BY <1>1, <1>3, <3>1 DEF BootPending, BootPC
      <4>2. PendId(s)' /\ PendPort(s)'
        BY <1>1, <1>3, <3>1 DEF PendId, PendPort, CachePC
      <4> QED BY <4>1, <4>2 DEF PendId, PendPort
    <3>2. CASE s # e[1]
      <4>1. <<s, DefaultStg>> \in th'[t].todo <=> <<s, DefaultStg>> \in th[t].todo
        BY <1>3, <3>2
      <4>2. BootPending(s)' <=> BootPending(s)
        BY <1>1, <1>2, <1>3, <4>1 DEF BootPending, BootPC, Orderly
      <4> QED BY <1>1, <1>2, <1>3, <3>2, <4>2 DEF PendId, PendPort, CachePC, OnlyMoves
    <3> QED BY <3>1, <3>2
  <2>3. OneStp' /\ IdInv' /\ PortInv'
    BY <1>1, <1>2, <1>3, <2>2, ListsKept DEF UncachePC
  <2> QED BY <2>1, <2>3
<1>6. TypesOK'
  <2>0. ThreadOK(t)
    BY <1>1 DEF IInv, TypesOK
  <2>1. ThreadOK(t)'
    BY <1>1, <1>3, <2>0 DEF ThreadOK, SharedPC, SetterPC, PorterPC, NewPC, UncachePC, DelPC, CachePC, BootPC
  <2> QED BY <1>1, <1>2, <1>4, <2>1, QuietTypes DEF TypesOK, IInv
<1>7. MutexInv'
  BY <1>1, <1>2, <1>3 DEF MutexInv, IInv, Holds, OnlyMoves, UncachePC
<1>8. BrportInv'
  BY <1>1, <1>2, <1>3 DEF BrportInv, IInv, OnlyMoves, Thread, DelPC, UncachePC
<1>9. NewsInv'
  BY <1>1, <1>2 DEF NewsInv, NewPC, OnlyMoves, Thread
<1>10. SetterInv'
  BY <1>1, <1>2, <1>3 DEF SetterInv, DeletesInv, IInv, OnlyMoves, Thread, Live, UncachePC
<1>11. BootInv'
  <2>1. \A x \in th'[t].todo : x \in th[t].todo /\ x # e
    BY <1>3
  <2>2. th'[t].todo \subseteq th[t].todo /\ <<th'[t].oid, DefaultStg>> \notin th'[t].todo
    BY <1>3
  <2>3. \A u \in Setter : u = t
    BY DEF Orderly
  <2>4. \A x \in th'[t].todo : x[1] # Null /\ stp[x[1]] # Null
                                 /\ stp[x[1]][1] = DefaultStg /\ x[2] = DefaultStg
    BY <1>1, <2>2 DEF BootInv, IInv, BootPC
  <2> QED BY <1>1, <1>2, <1>3, <2>2, <2>3, <2>4 DEF BootInv, IInv, OnlyMoves, Thread
<1>12. DeletionInv'
  BY <1>1, <1>2, <1>3 DEF DeletionInv, IInv, OnlyMoves, Thread, OnBrport, UncachePC
<1>13. DefaultInv'
  BY <1>1, <1>2, <1>3 DEF DefaultInv, IInv, OnlyMoves, Thread, OnBrport, InStg, InDefaultStg
<1> QED BY <1>5, <1>6, <1>7, <1>8, <1>9, <1>10, <1>11, <1>12, <1>13 DEF IInv

LEMMA GetDefaultIdStep ==
    ASSUME StgAssumption, Orderly, IInv, NEW t \in Setter,
           GetDefaultId(t)
    PROVE  IInv'
<1> USE StgAssumption
<1> DEFINE r == LET n == Cardinality(InStg(DefaultStg))
              IN  [Idle EXCEPT !.inst = DefaultStg, !.n = n, !.pc = IF n = 0 THEN "idle" ELSE "boot_list"]
<1>1. /\ t \in Thread /\ t \in Setter /\ t \notin Porter /\ th[t].pc = "idle" /\ defaultStg = Null /\ defaultStg' = DefaultStg
      /\ UNCHANGED <<stgs, stp, brports, brCache, idList, portList, mutex, hurt>>
      /\ (\A u \in Porter : th[u].pc = "idle") /\ Cardinality(InStg(DefaultStg)) \in Nat
      /\ Cardinality(InStg(DefaultStg)) = 0 => InStg(DefaultStg) = {}
      /\ th' = [th EXCEPT ![t] = r]
  <2>1. t \in Thread /\ t \notin Porter
    BY DEF Thread, StgAssumption
  <2>2. \A u \in Porter : th[u].pc = "idle"
    BY DEF GetDefaultId, IInv, BootInv
  <2>3. Cardinality(InStg(DefaultStg)) \in Nat /\ (Cardinality(InStg(DefaultStg)) = 0 => InStg(DefaultStg) = {})
    BY Counts
  <2> QED BY <2>1, <2>2, <2>3 DEF GetDefaultId, Count, Step, sai, lists
<1>2. OnlyMoves(t) /\ th'[t] = r
  BY <1>1, Moves DEF IInv, Step
<1>3. /\ th'[t].pc \in {"idle", "boot_list"} /\ (th'[t].pc = "idle" => InStg(DefaultStg) = {})
      /\ th'[t].inst = DefaultStg /\ th'[t].brport = Null
      /\ th'[t].n = Cardinality(InStg(DefaultStg)) /\ th'[t].todo = {} /\ th'[t].oid = Null
      /\ th'[t].port = Null
  BY <1>1, <1>2 DEF Idle, IInv, TypesOK, ThreadRec
<1>4. th'[t] \in ThreadRec
  <2>1. "boot_list" \in PCs /\ "idle" \in PCs
    BY DEF PCs, SetterPC, BootPC, SharedPC
  <2>2. r \in ThreadRec
    BY <1>1, <2>1, IdleRec DEF ThreadRec, StgAssumption
  <2> QED BY <1>2, <2>2
<1>5. CachingInv' /\ OneStp' /\ IdInv' /\ PortInv'
  <2>1. CachingInv'
    <3>1. th'[t].pc \notin CachePC
      BY <1>3 DEF CachePC
    <3> QED BY <1>1, <1>2, <3>1 DEF CachingInv, IInv, Live, OnlyMoves
  <2>2. ASSUME NEW s \in StpOid
        PROVE  (PendId(s)' <=> PendId(s)) /\ (PendPort(s)' <=> PendPort(s))
    <3>1. BootPending(s) <=> s \in InStg(DefaultStg)
      BY <1>1 DEF BootPending, InStg
    <3>2. BootPending(s)' <=> s \in InStg(DefaultStg)
      BY <1>1, <1>2, <1>3, Counts DEF BootPending, InStg, BootPC, Orderly, StgAssumption
    <3> QED BY <1>1, <1>2, <1>3, <3>1, <3>2 DEF PendId, PendPort, CachePC, OnlyMoves
  <2>3. OneStp' /\ IdInv' /\ PortInv'
    BY <1>1, <1>2, <1>3, <2>2, ListsKept DEF UncachePC
  <2> QED BY <2>1, <2>3
<1>6. TypesOK'
  <2>0. ThreadOK(t)
    BY <1>1 DEF IInv, TypesOK
  <2>1. ThreadOK(t)'
    BY <1>1, <1>3, <2>0 DEF ThreadOK, SharedPC, SetterPC, PorterPC, NewPC, UncachePC, DelPC, CachePC, BootPC
  <2> QED BY <1>1, <1>2, <1>4, <2>1, QuietTypes DEF TypesOK, IInv
<1>7. MutexInv'
  BY <1>1, <1>2, <1>3 DEF MutexInv, IInv, Holds, OnlyMoves, UncachePC
<1>8. BrportInv'
  BY <1>1, <1>2, <1>3 DEF BrportInv, IInv, OnlyMoves, Thread, DelPC, UncachePC
<1>9. NewsInv'
  BY <1>1, <1>2, <1>3, QuietNews DEF NewPC
<1>10. SetterInv'
  BY <1>1, <1>2, <1>3 DEF SetterInv, DeletesInv, IInv, OnlyMoves, Thread, Live, UncachePC
<1>11. BootInv'
  <2>1. \A u \in Setter : u = t
    BY DEF Orderly
  <2>2. InStg(DefaultStg)' = InStg(DefaultStg) /\ DefaultStg # Null
    BY <1>1 DEF InStg, StgAssumption
  <2> QED BY <1>1, <1>2, <1>3, <2>1, <2>2 DEF BootInv, OnlyMoves, Thread
<1>12. DeletionInv'
  BY <1>1, <1>2, <1>3 DEF DeletionInv, IInv, OnlyMoves, Thread, OnBrport, UncachePC
<1>13. DefaultInv'
  BY <1>1, <1>2, <1>3 DEF DefaultInv, IInv, OnlyMoves, Thread, OnBrport, InStg, InDefaultStg
<1> QED BY <1>5, <1>6, <1>7, <1>8, <1>9, <1>10, <1>11, <1>12, <1>13 DEF IInv

-----------------------------------------------------------------------------
(* The creation of an STP port and its way into the lists.                 *)

LEMMA LiveIs ==
    ASSUME StgAssumption, TypesOK, NEW s \in StpOid
    PROVE  /\ \A g \in Stg, b \in Brport :
                 Live(s, g, b) <=> s \in OnBrport(b) /\ s \in InStg(g)
           /\ \A g \in Stg, b \in Brport : Live(s, g, b) => stp[s] # Null
           /\ stp[s] # Null => /\ stp[s][1] \in Stg /\ stp[s][2] \in Brport
                               /\ Live(s, stp[s][1], stp[s][2])
<1>1. stp[s] # Null => /\ stp[s][1] \in Stg /\ stp[s][2] \in Brport
                       /\ stp[s] = <<stp[s][1], stp[s][2]>>
  BY DEF TypesOK
<1>2. \A g \in Stg, b \in Brport : <<g, b>> # Null
  BY NullAssumption
<1> QED BY <1>1, <1>2 DEF Live, OnBrport, InStg

\* ndi_stg_create_stp_port makes the first STP port of an instance and a
\* bridge port, and no thread is taking an earlier one from the lists.
LEMMA FirstOfItsKind ==
    ASSUME StgAssumption, Orderly, IInv, NEW t \in Thread,
           th[t].pc \in {"set_create", "new_stp"}, mutex = Null
    PROVE  /\ \A u \in StpOid : ~ Live(u, th[t].stg, th[t].brport)
           /\ \A u \in Thread : th[u].pc \in UncachePC =>
                 th[u].stg # th[t].stg \/ th[u].brport # th[t].brport
<1> USE Threads
<1>1. t \in Porter => th[t].pc = "new_stp" /\ NewInv(t)
  BY DEF IInv, TypesOK, ThreadOK, NewsInv, NewPC, PorterPC, SharedPC
<1>2. t \in Setter => th[t].pc = "set_create"
  BY DEF IInv, TypesOK, ThreadOK, SetterPC, SharedPC, BootPC
<1>3. \A u \in StpOid : ~ Live(u, th[t].stg, th[t].brport)
  <2>1. CASE t \in Porter
    <3>1. OnBrport(th[t].brport) = {}
      BY <1>1, <2>1 DEF NewInv
    <3>2. \A u \in StpOid : Live(u, th[t].stg, th[t].brport) => u \in OnBrport(th[t].brport)
      <4>1. th[t].stg \in Stg /\ th[t].brport \in Brport
        BY <1>1, <2>1 DEF IInv, TypesOK, ThreadOK, NewPC
      <4> QED BY <4>1, LiveIs DEF IInv
    <3> QED BY <3>1, <3>2
  <2>2. CASE t \in Setter
    BY <1>2, <2>2 DEF IInv, SetterInv
  <2> QED BY <2>1, <2>2
<1>4. ASSUME NEW u \in Thread, th[u].pc \in UncachePC
      PROVE  th[u].brport # th[t].brport
  <2>1. u \notin Porter
    BY <1>4 DEF IInv, MutexInv, Holds
  <2>2. t \in Porter /\ u # t
    BY <1>1, <1>2, <1>4, <2>1 DEF Orderly, UncachePC
  <2> QED BY <1>1, <2>2 DEF NewInv
<1> QED BY <1>3, <1>4

LEMMA CreateStpTypes ==
    ASSUME StgAssumption, Orderly, IInv, NEW t \in Thread, NEW s \in StpOid,
           th[t].pc \in {"set_create", "new_stp"},
           stp' = [stp EXCEPT ![s] = <<th[t].stg, th[t].brport>>],
           Step(t, [th[t] EXCEPT !.pc = "cache_id", !.oid = s]), mutex' = t,
           UNCHANGED <<stgs, brports, brCache, defaultStg, lists, hurt>>
    PROVE  TypesOK' /\ th'[t] = [th[t] EXCEPT !.pc = "cache_id", !.oid = s] /\ OnlyMoves(t)
<1>1. /\ th[t] \in ThreadRec /\ ThreadOK(t) /\ th[t].stg \in Stg /\ th[t].brport \in Brport
      /\ th' = [th EXCEPT ![t] = [th[t] EXCEPT !.pc = "cache_id", !.oid = s]]
  BY DEF IInv, TypesOK, ThreadOK, NewPC, Step
<1>2. OnlyMoves(t) /\ th'[t] = [th[t] EXCEPT !.pc = "cache_id", !.oid = s]
  BY Moves DEF IInv
<1>3. th'[t] \in ThreadRec
  <2>1. "cache_id" \in PCs /\ s \in StpOid \cup {Null} /\ th[t] \in ThreadRec
    BY <1>1 DEF PCs, SharedPC
  <2>2. [th[t] EXCEPT !.pc = "cache_id", !.oid = s] \in ThreadRec
    BY <2>1 DEF ThreadRec
  <2> QED BY <1>2, <2>2
<1>4. ThreadOK(t)'
  <2>1. /\ th'[t].pc = "cache_id" /\ th'[t].oid = s /\ th'[t].stg = th[t].stg
        /\ th'[t].brport = th[t].brport /\ th'[t].port = th[t].port
    <3>1. th[t] \in ThreadRec
      BY <1>1
    <3> QED BY <1>2, <3>1 DEF ThreadRec
  <2> QED BY <1>1, <2>1 DEF ThreadOK, SharedPC, NewPC, UncachePC, DelPC, CachePC, BootPC
<1>5. stp' \in [StpOid -> {Null} \cup (Stg \X Brport)]
  BY <1>1 DEF IInv, TypesOK
<1> QED BY <1>1, <1>2, <1>3, <1>4, <1>5, QuietTypes DEF IInv, TypesOK, lists

LEMMA CreateStpStep ==
    ASSUME StgAssumption, Orderly, IInv, NEW t \in Thread, CreateStp(t)
    PROVE  IInv'
<1> USE StgAssumption
<1> DEFINE g == th[t].stg
           b == th[t].brport
<1>1. PICK s \in StpOid :
          /\ FreshStp(s) /\ g \in stgs /\ brports[b] # Null
          /\ stp' = [stp EXCEPT ![s] = <<g, b>>]
          /\ Step(t, [th[t] EXCEPT !.pc = "cache_id", !.oid = s])
  BY DEF CreateStp
<1>2. /\ th[t].pc \in {"set_create", "new_stp"} /\ mutex = Null /\ mutex' = t
      /\ UNCHANGED <<stgs, brports, brCache, defaultStg, idList, portList, hurt>>
  BY DEF CreateStp, lists
<1>3. TypesOK' /\ OnlyMoves(t) /\ th'[t] = [th[t] EXCEPT !.pc = "cache_id", !.oid = s]
  BY <1>1, <1>2, CreateStpTypes DEF lists
<1>4. /\ th'[t].pc = "cache_id" /\ th'[t].oid = s /\ th'[t].stg = g /\ th'[t].brport = b
      /\ th'[t].port = th[t].port /\ th'[t].inst = th[t].inst /\ th'[t].todo = th[t].todo
  BY <1>3 DEF IInv, TypesOK, ThreadRec
<1>5. /\ stp[s] = Null /\ g \in Stg /\ b \in Brport
      /\ \A u \in Thread : th[u].oid # s /\ \A e \in th[u].todo : e[1] # s
  BY <1>1, <1>2 DEF FreshStp, IInv, TypesOK, ThreadOK, NewPC
<1>6. stp'[s] = <<g, b>> /\ \A u : u \in StpOid /\ u # s => stp'[u] = stp[u]
  BY <1>1 DEF IInv, TypesOK
<1>7. /\ \A u \in StpOid : ~ Live(u, g, b)
      /\ \A u \in Thread : th[u].pc \in UncachePC => th[u].stg # g \/ th[u].brport # b
  BY <1>2, FirstOfItsKind
<1>8. t \in Porter => th[t].pc = "new_stp" /\ NewInv(t)
  BY <1>2, Threads DEF IInv, TypesOK, ThreadOK, NewsInv, NewPC, PorterPC, SharedPC
<1>9. t \in Setter => th[t].pc = "set_create"
  BY <1>2, Threads DEF IInv, TypesOK, ThreadOK, SetterPC, SharedPC, BootPC
<1>10. \A x, h, c : Live(x, h, c) /\ x \in StpOid /\ x # s => Live(x, h, c)'
  BY <1>6 DEF Live
<1>11. \A x, h, c : Live(x, h, c)' /\ x \in StpOid => Live(x, h, c) \/ (x = s /\ h = g /\ c = b)
  BY <1>6 DEF Live
<1>12. \A h \in Stg, c \in Brport : ~ Indexed(s, h, c) /\ ~ Listed(s, h, c)
  <2> SUFFICES ASSUME NEW h \in Stg, NEW c \in Brport, Indexed(s, h, c) \/ Listed(s, h, c)
               PROVE  FALSE
    OBVIOUS
  <2>1. ~ Live(s, h, c)
    BY <1>5, NullAssumption DEF Live
  <2>2. PICK u \in Thread : Victim(u, s, h, c)
    BY <2>1 DEF IInv, IdInv, PortInv
  <2>3. u \in Porter /\ th[u].pc = "uncache_get"
    BY <1>5, <2>2, Threads DEF Victim
  <2> QED BY <1>2, <2>3, Threads DEF IInv, MutexInv, Holds, UncachePC
<1>13. \A x, h, c : (Indexed(x, h, c)' <=> Indexed(x, h, c)) /\ (Listed(x, h, c)' <=> Listed(x, h, c))
  BY <1>2 DEF Indexed, Listed
<1>14. \A x \in StpOid : x # s => (PendId(x)' <=> PendId(x)) /\ (PendPort(x)' <=> PendPort(x))
  <2> SUFFICES ASSUME NEW x \in StpOid, x # s
               PROVE  (PendId(x)' <=> PendId(x)) /\ (PendPort(x)' <=> PendPort(x))
    OBVIOUS
  <2>1. \A u \in Thread : /\ th'[u].pc \in BootPC <=> th[u].pc \in BootPC
                          /\ th'[u].pc = "boot_list" <=> th[u].pc = "boot_list"
                          /\ th'[u].todo = th[u].todo
    <3>1. th[t].pc \notin BootPC /\ th'[t].pc \notin BootPC /\ th[t].pc # "boot_list" /\ th'[t].pc # "boot_list"
      BY <1>2, <1>4 DEF BootPC
    <3>2. \A u \in Thread : u # t => th'[u] = th[u]
      BY <1>3 DEF OnlyMoves
    <3>3. th'[t].todo = th[t].todo
      BY <1>4
    <3> QED BY <3>1, <3>2, <3>3, Zenon
  <2>2. BootPending(x)' <=> BootPending(x)
    <3>1. stp'[x] = stp[x] /\ defaultStg' = defaultStg /\ \A u \in Setter : u \in Thread
      BY <1>2, <1>6, Threads
    <3>2. \A u \in Setter : /\ th'[u].pc \in BootPC <=> th[u].pc \in BootPC
                            /\ th'[u].pc = "boot_list" <=> th[u].pc = "boot_list"
                            /\ th'[u].todo = th[u].todo
      BY <2>1, <3>1
    <3> QED BY <3>1, <3>2, Zenon DEF BootPending
  <2>3. \A u \in Thread : th'[u].pc \in CachePC /\ th'[u].oid = x <=> th[u].pc \in CachePC /\ th[u].oid = x
    BY <1>2, <1>3, <1>4, <1>5 DEF CachePC, OnlyMoves
  <2>4. \A u \in Thread : th'[u].pc \in {"cache_id", "boot_cache_id"} /\ th'[u].oid = x
                          <=> th[u].pc \in {"cache_id", "boot_cache_id"} /\ th[u].oid = x
    BY <1>2, <1>3, <1>4, <1>5 DEF OnlyMoves
  <2> QED BY <2>2, <2>3, <2>4 DEF PendId, PendPort
<1>15. \A u \in Thread : \A x, h, c : Victim(u, x, h, c) => Victim(u, x, h, c)' /\ th'[u] = th[u]
  BY <1>2, <1>3, <1>4 DEF Victim, OnlyMoves
<1>16. MutexInv'
  BY <1>2, <1>3, <1>4 DEF MutexInv, IInv, Holds, OnlyMoves, UncachePC, Threads
<1>17. BrportInv'
  <2>1. \A x \in StpOid : stp'[x] # Null => brports'[stp'[x][2]] # Null
    BY <1>1, <1>2, <1>6 DEF IInv, BrportInv
  <2>2. th'[t].pc \notin DelPC \cup UncachePC
    BY <1>4 DEF DelPC, UncachePC
  <2>3. \A u \in Porter : th'[u].pc \in DelPC \cup UncachePC =>
          th'[u].port \in Port /\ brports[th'[u].brport] \in {th'[u].port, Null}
    BY <1>3, <2>2, Threads DEF IInv, BrportInv, OnlyMoves
  <2> QED BY <1>2, <2>1, <2>3 DEF BrportInv, IInv
<1>18. NewsInv'
  <2> SUFFICES ASSUME NEW u \in Porter, th'[u].pc \in NewPC
               PROVE  NewInv(u)'
    BY DEF NewsInv
  <2>1. u \in Thread /\ th[u].pc \in NewPC /\ th'[u].brport = th[u].brport
    BY <1>2, <1>3, <1>4, Threads, <1>8 DEF OnlyMoves, NewPC
  <2>2. NewInv(u)
    BY <2>1 DEF IInv, NewsInv
  <2>3. \A v \in Thread : th'[v].brport = th[v].brport
    BY <1>3, <1>4 DEF OnlyMoves
  <2>4. CASE u = t
    <3>1. \A x \in OnBrport(th[t].brport)' : stp'[x][1] = DefaultStg
      BY <1>4, <1>5, <1>6, <1>8, <2>2, <2>4 DEF NewInv, OnBrport
    <3> QED BY <1>2, <1>4, <2>2, <2>3, <2>4, <3>1, <1>8 DEF NewInv
  <2>5. CASE u # t
    <3>1. th'[u] = th[u] /\ th[u].brport # b
      BY <1>3, <2>1, <2>2, <2>5 DEF NewInv, OnlyMoves
    <3>2. OnBrport(th[u].brport)' = OnBrport(th[u].brport)
      BY <1>5, <1>6, <3>1 DEF OnBrport
    <3>3. \A x \in OnBrport(th[u].brport) : stp'[x] = stp[x]
      BY <1>5, <1>6 DEF OnBrport
    <3> QED BY <1>2, <2>2, <2>3, <3>1, <3>2, <3>3 DEF NewInv
  <2> QED BY <2>4, <2>5
<1>19. CachingInv'
  <2> SUFFICES ASSUME NEW u \in Thread, th'[u].pc \in CachePC
               PROVE  stp'[th'[u].oid] = <<th'[u].stg, th'[u].brport>>
    BY DEF CachingInv, Live
  <2>1. CASE u = t
    BY <1>4, <1>6, <2>1
  <2>2. CASE u # t
    <3>1. th'[u] = th[u] /\ Live(th[u].oid, th[u].stg, th[u].brport) /\ th[u].oid \in StpOid
      BY <1>3, <2>2 DEF CachingInv, IInv, OnlyMoves, TypesOK, ThreadOK
    <3> QED BY <1>5, <1>6, <3>1 DEF Live
  <2> QED BY <2>1, <2>2
<1>20. SetterInv'
  <2> SUFFICES ASSUME t \in Setter
               PROVE  SetterInv'
    <3>1. ASSUME t \notin Setter
          PROVE  SetterInv'
      <4>1. \A u \in Setter : /\ th'[u] = th[u] /\ th[u].oid # s
                              /\ \A e \in th[u].todo : e[1] # s
        BY <1>3, <1>5, <3>1, Threads DEF OnlyMoves
      <4>2. ASSUME NEW u \in Setter, th[u].pc = "set_create", NEW x \in StpOid
            PROVE  ~ Live(x, th[u].stg, th[u].brport)'
        <5>1. u # t /\ u \in Thread /\ NewInv(t) /\ ~ Live(x, th[u].stg, th[u].brport)
          BY <1>8, <3>1, <4>2, Threads DEF IInv, SetterInv
        <5>2. th[u].brport # b
          BY <5>1 DEF NewInv
        <5> QED BY <1>11, <5>1, <5>2, <4>1, <1>6 DEF Live
      <4>3. \A u \in Setter : DeletesInv(u) /\ th[u].pc \in {"stg_attr", "stg_stp"} \cup UncachePC => DeletesInv(u)'
        <5> SUFFICES ASSUME NEW u \in Setter, DeletesInv(u), th[u].pc \in {"stg_attr", "stg_stp"} \cup UncachePC
                     PROVE  DeletesInv(u)'
          OBVIOUS
        <5>1. th[u] \in ThreadRec /\ ThreadOK(u) /\ th'[u] = th[u]
          BY <4>1, Threads DEF IInv, TypesOK
        <5>2. \A e \in th[u].todo : e[1] # Null => stp'[e[1]] = stp[e[1]]
          BY <1>6, <4>1, <5>1 DEF ThreadRec
        <5>3. th[u].pc = "stg_stp" => stp'[th[u].oid] = stp[th[u].oid]
          BY <1>6, <4>1, <5>1 DEF ThreadOK
        <5> QED BY <5>1, <5>2, <5>3 DEF DeletesInv
      <4> QED BY <1>2, <4>1, <4>2, <4>3 DEF IInv, SetterInv
    <3> QED BY <3>1
  <2>1. \A u \in Setter : u = t
    BY DEF Orderly
  <2>2. g = DefaultStg => defaultStg' # Null
    BY <1>2, <1>9 DEF IInv, SetterInv
  <2> QED BY <1>4, <2>1, <2>2 DEF SetterInv, UncachePC
<1>21. BootInv'
  <2>1. \A u \in Porter : th'[u].pc # "idle" <=> th[u].pc # "idle"
    BY <1>2, <1>3, <1>4, Threads DEF OnlyMoves
  <2>2. \A u \in Setter : /\ th'[u].pc \in BootPC <=> th[u].pc \in BootPC
                          /\ th'[u].pc \in BootPC => th'[u] = th[u]
    <3>1. th[t].pc \notin BootPC /\ th'[t].pc \notin BootPC
      BY <1>2, <1>4 DEF BootPC
    <3>2. \A u \in Setter : u \in Thread /\ (u # t => th'[u] = th[u])
      BY <1>3, Threads DEF OnlyMoves
    <3> QED BY <3>1, <3>2, Zenon
  <2>3. \A u \in Setter : th[u].pc \in BootPC => FALSE
    BY <1>2, <1>8, <1>9 DEF Orderly, BootPC, IInv, BootInv, Thread
  <2>4. \A u \in Setter : th'[u].pc \notin BootPC
    BY <2>2, <2>3
  <2> QED BY <1>2, <2>1, <2>3, <2>4 DEF BootInv, IInv
<1>22. OneStp'
  <2>1. \A x, y \in StpOid : stp'[x] = stp'[y] /\ stp'[x] # Null => x = y
    <3>1. \A x \in StpOid : stp[x] # <<g, b>>
      BY <1>7 DEF Live
    <3> QED BY <1>6, <3>1 DEF OneStp, IInv
  <2> SUFFICES ASSUME NEW u \in Thread, th'[u].pc \in UncachePC
               PROVE  /\ \A x \in StpOid : ~ Live(x, th[u].stg, th[u].brport)'
                      /\ th'[u].oid # Null => stp'[th'[u].oid] = Null
                      /\ \A v \in Thread : th'[v].pc \in UncachePC /\ th'[v].stg = th'[u].stg
                               /\ th'[v].brport = th'[u].brport => v = u
    BY <2>1 DEF OneStp
  <2>2. u # t /\ th'[u] = th[u]
    BY <1>3, <1>4 DEF OnlyMoves, UncachePC
  <2>3. th[u].stg # g \/ th[u].brport # b
    BY <1>7, <2>2
  <2>4. th[u].oid # s /\ th[u] \in ThreadRec
    BY <1>5 DEF IInv, TypesOK
  <2>5. OneStp
    BY DEF IInv
  <2>6. \A v \in Thread : th'[v].pc \in UncachePC => th'[v] = th[v]
    BY <1>3, <1>4 DEF OnlyMoves, UncachePC
  <2>7. \A x \in StpOid : stp'[x] # <<th[u].stg, th[u].brport>>
    BY <1>6, <2>2, <2>3, <2>5 DEF OneStp, Live
  <2>8. th[u].oid # Null => stp'[th[u].oid] = Null
    BY <1>6, <2>2, <2>4, <2>5 DEF OneStp, ThreadRec
  <2>9. \A v \in Thread : th'[v].pc \in UncachePC /\ th'[v].stg = th'[u].stg
                               /\ th'[v].brport = th'[u].brport => v = u
    BY <2>2, <2>5, <2>6 DEF OneStp
  <2> QED BY <2>2, <2>7, <2>8, <2>9 DEF Live
<1>23. IdInv'
  <2> SUFFICES ASSUME NEW h \in Stg, NEW c \in Brport
               PROVE  /\ Len(idList'[<<h, c>>]) \in {0, 1}
                      /\ \A x \in StpOid : Live(x, h, c)' => (Indexed(x, h, c)' <=> ~ PendId(x)')
                      /\ \A x \in StpOid : Indexed(x, h, c)' =>
                            \/ Live(x, h, c)'
                            \/ stp'[x] = Null /\ \E u \in Thread :
                                  Victim(u, x, h, c)' /\ th'[u].pc # "uncache_port"
    BY DEF IdInv
  <2>1. IdInv
    BY DEF IInv
  <2>2. PendId(s)' /\ ~ Indexed(s, h, c)'
    BY <1>3, <1>4, <1>12, <1>13 DEF PendId
  <2>3. ASSUME NEW x \in StpOid, x # s
        PROVE  /\ Live(x, h, c)' => (Indexed(x, h, c)' <=> ~ PendId(x)')
               /\ Indexed(x, h, c)' =>
                            \/ Live(x, h, c)'
                            \/ stp'[x] = Null /\ \E u \in Thread :
                                  Victim(u, x, h, c)' /\ th'[u].pc # "uncache_port"
    <3>1. Live(x, h, c)' <=> Live(x, h, c)
      BY <1>6, <2>3 DEF Live
    <3>2. Indexed(x, h, c) => \/ Live(x, h, c)
                              \/ stp[x] = Null /\ \E u \in Thread :
                                    Victim(u, x, h, c) /\ th[u].pc # "uncache_port"
      BY <2>1 DEF IdInv
    <3>3. Live(x, h, c) => (Indexed(x, h, c) <=> ~ PendId(x))
      BY <2>1 DEF IdInv
    <3> QED BY <1>6, <1>13, <1>14, <1>15, <2>3, <3>1, <3>2, <3>3
  <2>4. Len(idList'[<<h, c>>]) \in {0, 1}
    BY <1>2, <2>1 DEF IdInv
  <2> QED BY <2>2, <2>3, <2>4
<1>24. PortInv'
  <2> SUFFICES ASSUME NEW c \in Brport
               PROVE  /\ OneEach(portList'[c])
                      /\ \A h \in Stg, x \in StpOid : Live(x, h, c)' => (Listed(x, h, c)' <=> ~ PendPort(x)')
                      /\ \A h \in Stg, x \in StpOid : Listed(x, h, c)' =>
                            \/ Live(x, h, c)'
                            \/ stp'[x] = Null /\ \E u \in Thread :
                                  Victim(u, x, h, c)' /\ (th'[u].pc = "uncache_get" => Indexed(x, h, c)')
    BY DEF PortInv
  <2>1. PortInv
    BY DEF IInv
  <2>2. PendPort(s)' /\ \A h \in Stg : ~ Listed(s, h, c)'
    BY <1>3, <1>4, <1>12, <1>13 DEF PendPort, CachePC
  <2>3. ASSUME NEW h \in Stg, NEW x \in StpOid, x # s
        PROVE  /\ Live(x, h, c)' => (Listed(x, h, c)' <=> ~ PendPort(x)')
               /\ Listed(x, h, c)' =>
                            \/ Live(x, h, c)'
                            \/ stp'[x] = Null /\ \E u \in Thread :
                                  Victim(u, x, h, c)' /\ (th'[u].pc = "uncache_get" => Indexed(x, h, c)')
    <3>1. Live(x, h, c)' <=> Live(x, h, c)
      BY <1>6, <2>3 DEF Live
    <3>2. Listed(x, h, c) => \/ Live(x, h, c)
                             \/ stp[x] = Null /\ \E u \in Thread :
                                   Victim(u, x, h, c) /\ (th[u].pc = "uncache_get" => Indexed(x, h, c))
      BY <2>1 DEF PortInv
    <3>3. Live(x, h, c) => (Listed(x, h, c) <=> ~ PendPort(x))
      BY <2>1 DEF PortInv
    <3> QED BY <1>6, <1>13, <1>14, <1>15, <2>3, <3>1, <3>2, <3>3
  <2>4. OneEach(portList'[c])
    BY <1>2, <2>1 DEF PortInv
  <2> QED BY <2>2, <2>3, <2>4
<1>25. DeletionInv'
  <2> SUFFICES ASSUME NEW u \in Porter
               PROVE  /\ th'[u].pc \in {"del_stp"} \cup UncachePC =>
                            /\ \A e \in th'[u].todo :
                                  e[1] # Null /\ stp'[e[1]] \in {Null, <<e[2], th'[u].brport>>}
                            /\ th'[u].brport \notin hurt' =>
                                  \A x \in OnBrport(th[u].brport)' : <<x, stp'[x][1]>> \in th'[u].todo
                      /\ th'[u].pc = "del_list" => Len(portList'[th'[u].brport]) <= th'[u].n
                      /\ th'[u].pc = "del_brport" /\ th'[u].brport \notin hurt' =>
                            OnBrport(th[u].brport)' = {}
    BY DEF DeletionInv
  <2>1. u # t => mutex # u /\ th'[u] = th[u] /\ ~ Holds(u)
    BY <1>2, <1>3, Threads DEF OnlyMoves, IInv, MutexInv
  <2> QED BY <1>4, <2>1 DEF Holds, UncachePC
<1>26. DefaultInv'
  <2>1. \A c : InStg(DefaultStg) \cap OnBrport(c) # {} => (InStg(DefaultStg) \cap OnBrport(c))' # {}
    BY <1>5, <1>6 DEF InStg, OnBrport
  <2>2. \A u \in Porter : th'[u].brport = th[u].brport /\ (th'[u].pc = "new_cache" => th[u].pc = "new_cache")
    BY <1>3, <1>4, Threads DEF OnlyMoves
  <2> QED BY <1>2, <2>1, <2>2 DEF DefaultInv, InDefaultStg, IInv
<1> QED BY <1>3, <1>16, <1>17, <1>18, <1>19, <1>20, <1>21, <1>22, <1>23, <1>24, <1>25, <1>26 DEF IInv

-----------------------------------------------------------------------------
(* The two inserts into the lists.                                         *)

\* One thread at a time adds to the lists, and what it adds waits for nothing
\* else.
LEMMA Cacher ==
    ASSUME StgAssumption, Orderly, IInv, NEW t \in Thread, th[t].pc \in CachePC
    PROVE  /\ th[t].stg \in Stg /\ th[t].brport \in Brport /\ th[t].oid \in StpOid
           /\ stp[th[t].oid] = <<th[t].stg, th[t].brport>>
           /\ \A u \in Thread : th[u].pc \in CachePC => u = t
           /\ ~ BootPending(th[t].oid)
<1>1. th[t].stg \in Stg /\ th[t].brport \in Brport /\ th[t].oid \in StpOid
  BY DEF IInv, TypesOK, ThreadOK
<1>2. stp[th[t].oid] = <<th[t].stg, th[t].brport>>
  BY DEF IInv, CachingInv, Live
<1>3. \A u \in Porter : th[u].pc \in CachePC =>
          mutex = u /\ defaultStg # Null /\ \A v \in Setter : th[v].pc \notin BootPC
  <2> SUFFICES ASSUME NEW u \in Porter, th[u].pc \in CachePC
               PROVE  mutex = u /\ defaultStg # Null /\ \A v \in Setter : th[v].pc \notin BootPC
    OBVIOUS
  <2>1. u \in Thread /\ u \notin Setter
    BY Threads
  <2>2. th[u].pc \in {"cache_id", "cache_port"}
    BY <2>1 DEF IInv, TypesOK, ThreadOK, SharedPC, PorterPC, CachePC
  <2>3. mutex = u
    BY <2>1, <2>2 DEF IInv, MutexInv, Holds
  <2>4. defaultStg # Null /\ \A v \in Setter : th[v].pc \notin BootPC
    BY <2>2 DEF IInv, BootInv
  <2> QED BY <2>3, <2>4
<1>4. \A u \in Setter : th[u].pc \in CachePC => mutex = u \/ th[u].pc \in BootPC
  BY Threads DEF IInv, MutexInv, Holds, CachePC, BootPC
<1>5. \A u \in Thread : th[u].pc \in CachePC => u = t
  BY <1>3, <1>4, Threads DEF Orderly
<1>6. ~ BootPending(th[t].oid)
  <2>1. CASE t \in Porter
    <3>1. defaultStg # Null /\ \A v \in Setter : th[v].pc \notin BootPC
      BY <1>3, <2>1
    <3> QED BY <3>1 DEF BootPending, BootPC
  <2>2. CASE t \in Setter /\ th[t].pc \in BootPC
    <3>1. defaultStg # Null /\ <<th[t].oid, DefaultStg>> \notin th[t].todo /\ th[t].pc # "boot_list"
      <4>1. th[t].pc \in {"boot_cache_id", "boot_cache_port"}
        BY <2>2 DEF CachePC, BootPC
      <4>2. th[t].stg = DefaultStg => <<th[t].oid, DefaultStg>> \notin th[t].todo
        BY <2>2, <4>1 DEF IInv, BootInv
      <4> QED BY <2>2, <4>1, <4>2 DEF IInv, BootInv
    <3>2. \A v \in Setter : v = t
      BY <2>2 DEF Orderly
    <3> QED BY <3>1, <3>2 DEF BootPending
  <2>3. CASE t \in Setter /\ th[t].pc \notin BootPC
    <3>1. th[t].stg = DefaultStg => defaultStg # Null
      BY <2>3 DEF IInv, SetterInv, CachePC, BootPC
    <3>2. \A v \in Setter : v = t
      BY <2>3 DEF Orderly
    <3>3. stp[th[t].oid][1] = th[t].stg
      BY <1>2
    <3> QED BY <2>3, <3>1, <3>2, <3>3 DEF BootPending, BootPC
  <2> QED BY <2>1, <2>2, <2>3, Threads
<1> QED BY <1>1, <1>2, <1>5, <1>6

\* ndi_stg_add_port_to_cache finds the list of its key empty.
LEMMA KeyIsFree ==
    ASSUME StgAssumption, Orderly, IInv, NEW t \in Thread,
           th[t].pc \in {"cache_id", "boot_cache_id"}
    PROVE  Len(idList[<<th[t].stg, th[t].brport>>]) = 0
<1> DEFINE g == th[t].stg
           b == th[t].brport
           s == th[t].oid
           list == idList[<<g, b>>]
<1>1. g \in Stg /\ b \in Brport /\ s \in StpOid /\ Live(s, g, b)
  BY Cacher DEF CachePC, Live
<1>2. list \in Seq(StpOid) /\ Len(list) \in {0, 1}
  BY <1>1 DEF IInv, TypesOK, IdInv
<1>3. ~ Indexed(s, g, b)
  <2>1. PendId(s)
    BY DEF PendId
  <2> QED BY <1>1, <2>1 DEF IInv, IdInv
<1>4. ASSUME Len(list) = 1
      PROVE  FALSE
  <2>1. list[1] \in StpOid /\ Indexed(list[1], g, b) /\ list[1] # s
    BY <1>2, <1>3, <1>4 DEF Indexed
  <2>2. ~ Live(list[1], g, b)
    BY <1>1, <2>1, NullAssumption DEF IInv, OneStp, Live
  <2>3. PICK u \in Thread : Victim(u, list[1], g, b)
    BY <1>1, <2>1, <2>2 DEF IInv, IdInv
  <2> QED BY <1>1, <2>3 DEF Victim, UncachePC, IInv, OneStp
<1> QED BY <1>2, <1>4

\* The first list after the insert.
LEMMA CacheIdLists ==
    ASSUME StgAssumption, Orderly, IInv, NEW t \in Thread, OnlyMoves(t),
           th[t].pc \in {"cache_id", "boot_cache_id"},
           th'[t] = [th[t] EXCEPT !.pc = IF th[t].pc = "cache_id" THEN "cache_port"
                                         ELSE "boot_cache_port"],
           idList' = [idList EXCEPT ![<<th[t].stg, th[t].brport>>] = Append(@, th[t].oid)],
           UNCHANGED <<stp, defaultStg, portList>>
    PROVE  /\ idList' \in [Stg \X Brport -> Seq(StpOid)]
           /\ CachingInv' /\ OneStp' /\ IdInv' /\ PortInv'
<1> DEFINE g == th[t].stg
           b == th[t].brport
           s == th[t].oid
<1>1. /\ g \in Stg /\ b \in Brport /\ s \in StpOid /\ stp[s] = <<g, b>>
      /\ (\A u \in Thread : th[u].pc \in CachePC => u = t) /\ ~ BootPending(s)
  BY Cacher DEF CachePC
<1>2. /\ th'[t].pc = IF th[t].pc = "cache_id" THEN "cache_port" ELSE "boot_cache_port"
      /\ th'[t].oid = th[t].oid /\ th'[t].stg = th[t].stg /\ th'[t].brport = th[t].brport
      /\ th'[t].todo = th[t].todo
  BY DEF IInv, TypesOK, ThreadRec
<1>3. idList[<<g, b>>] = <<>>
  <2>1. idList[<<g, b>>] \in Seq(StpOid)
    BY <1>1 DEF IInv, TypesOK
  <2> QED BY <2>1, KeyIsFree
<1>4. /\ idList'[<<g, b>>] = <<s>>
      /\ \A h \in Stg, c \in Brport : <<h, c>> # <<g, b>> => idList'[<<h, c>>] = idList[<<h, c>>]
      /\ idList' \in [Stg \X Brport -> Seq(StpOid)]
  <2>1. Append(<<>>, s) = <<s>> /\ <<s>> \in Seq(StpOid) /\ idList \in [Stg \X Brport -> Seq(StpOid)]
        /\ <<g, b>> \in Stg \X Brport
    BY <1>1 DEF IInv, TypesOK
  <2> HIDE DEF g, b, s
  <2> QED BY <1>3, <2>1 DEF g, b, s
<1>5. CachingInv'
  <2> SUFFICES ASSUME NEW u \in Thread, th'[u].pc \in CachePC
               PROVE  stp'[th'[u].oid] = <<th'[u].stg, th'[u].brport>>
    BY DEF CachingInv, Live
  <2>1. u = t
    BY <1>1 DEF OnlyMoves
  <2> QED BY <1>1, <1>2, <2>1
<1>6. th[t].pc \notin UncachePC /\ th'[t].pc \notin UncachePC
  BY <1>2 DEF UncachePC
<1>7. OneStp'
  <2>1. \A u \in Thread : th'[u].pc \in UncachePC => th'[u] = th[u]
    BY <1>6 DEF OnlyMoves
  <2>2. OneStp
    BY DEF IInv
  <2> QED BY <2>1, <2>2 DEF OneStp, Live
<1>8. \A x \in StpOid : /\ PendId(x)' <=> PendId(x) /\ x # s
                        /\ PendPort(x)' <=> PendPort(x)
  <2>1. \A u \in Setter : /\ th'[u].pc = "boot_list" <=> th[u].pc = "boot_list"
                          /\ th'[u].pc \in BootPC <=> th[u].pc \in BootPC
                          /\ th'[u].todo = th[u].todo
    <3>1. /\ th'[t].pc = "boot_list" <=> th[t].pc = "boot_list"
          /\ th'[t].pc \in BootPC <=> th[t].pc \in BootPC
      BY <1>2 DEF BootPC
    <3> QED BY <1>2, <3>1, Threads DEF OnlyMoves
  <2>2. \A x : BootPending(x)' <=> BootPending(x)
    BY <2>1 DEF BootPending
  <2>3. \A u \in Thread : th'[u].pc \in CachePC => u = t
    BY <1>1 DEF OnlyMoves
  <2>4. /\ th'[t].pc \in CachePC /\ th[t].pc \in CachePC
        /\ th'[t].pc \notin {"cache_id", "boot_cache_id"} /\ {"cache_id", "boot_cache_id"} \subseteq CachePC
    BY <1>2 DEF CachePC
  <2>5. ASSUME NEW x \in StpOid
        PROVE  PendPort(x)' <=> PendPort(x)
    <3>1. PendPort(x) <=> BootPending(x) \/ x = s
      BY <1>1, <2>4 DEF PendPort
    <3>2. PendPort(x)' <=> BootPending(x)' \/ \E u \in Thread : th'[u].pc \in CachePC /\ th'[u].oid = x
      BY DEF PendPort
    <3>3. th'[t].oid = s
      BY <1>2
    <3> QED BY <1>1, <2>2, <2>3, <2>4, <3>1, <3>2, <3>3
  <2>6. ASSUME NEW x \in StpOid
        PROVE  PendId(x)' <=> PendId(x) /\ x # s
    <3>1. PendId(x)' <=> BootPending(x)
      <4>1. \A u \in Thread : th'[u].pc \notin {"cache_id", "boot_cache_id"}
        BY <2>3, <2>4
      <4> QED BY <2>2, <4>1 DEF PendId
    <3>2. PendId(x) <=> BootPending(x) \/ x = s
      BY <1>1, <1>2 DEF PendId, CachePC
    <3> QED BY <1>1, <3>1, <3>2
  <2> QED BY <2>5, <2>6
<1>9. \A x, h, c : (Live(x, h, c)' <=> Live(x, h, c)) /\ (Listed(x, h, c)' <=> Listed(x, h, c))
  BY DEF Live, Listed
<1>10. \A u \in Thread : \A x, h, c : Victim(u, x, h, c) => th'[u] = th[u] /\ Victim(u, x, h, c)'
  BY <1>6 DEF OnlyMoves, Victim, UncachePC
<1>11. \A x \in StpOid, h \in Stg, c \in Brport :
          Indexed(x, h, c)' <=> Indexed(x, h, c) \/ (x = s /\ h = g /\ c = b)
  <2> SUFFICES ASSUME NEW x \in StpOid, NEW h \in Stg, NEW c \in Brport
               PROVE  Indexed(x, h, c)' <=> Indexed(x, h, c) \/ (x = s /\ h = g /\ c = b)
    OBVIOUS
  <2>1. CASE h = g /\ c = b
    <3>1. ~ Indexed(x, g, b)
      BY <1>3 DEF Indexed
    <3>2. (\E i \in 1 .. Len(idList'[<<g, b>>]) : idList'[<<g, b>>][i] = x) <=> x = s
      <4>1. Len(<<s>>) = 1 /\ <<s>>[1] = s /\ 1 .. 1 = {1}
        OBVIOUS
      <4> HIDE DEF g, b, s
      <4> QED BY <1>4, <4>1
    <3> QED BY <2>1, <3>1, <3>2 DEF Indexed
  <2>2. CASE ~ (h = g /\ c = b)
    BY <1>4, <2>2 DEF Indexed
  <2> QED BY <2>1, <2>2
<1>12. IdInv'
  <2> SUFFICES ASSUME NEW h \in Stg, NEW c \in Brport
               PROVE  /\ Len(idList'[<<h, c>>]) \in {0, 1}
                      /\ \A x \in StpOid : Live(x, h, c)' => (Indexed(x, h, c)' <=> ~ PendId(x)')
                      /\ \A x \in StpOid : Indexed(x, h, c)' =>
                            \/ Live(x, h, c)'
                            \/ stp'[x] = Null /\ \E u \in Thread :
                                  Victim(u, x, h, c)' /\ th'[u].pc # "uncache_port"
    BY DEF IdInv
  <2>1. /\ Len(idList[<<h, c>>]) \in {0, 1}
        /\ \A x \in StpOid : Live(x, h, c) => (Indexed(x, h, c) <=> ~ PendId(x))
        /\ \A x \in StpOid : Indexed(x, h, c) =>
              \/ Live(x, h, c)
              \/ stp[x] = Null /\ \E u \in Thread : Victim(u, x, h, c) /\ th[u].pc # "uncache_port"
    BY DEF IInv, IdInv
  <2>2. Len(idList'[<<h, c>>]) \in {0, 1}
    <3>1. Len(<<s>>) = 1
      OBVIOUS
    <3> HIDE DEF g, b, s
    <3> QED BY <1>4, <2>1, <3>1
  <2>3. Live(s, g, b) /\ \A x : Live(s, h, c) => h = g /\ c = b
    BY <1>1 DEF Live
  <2> QED BY <1>8, <1>9, <1>10, <1>11, <2>1, <2>2, <2>3
<1>13. PortInv'
  <2> SUFFICES ASSUME NEW c \in Brport
               PROVE  /\ OneEach(portList'[c])
                      /\ \A h \in Stg, x \in StpOid : Live(x, h, c)' => (Listed(x, h, c)' <=> ~ PendPort(x)')
                      /\ \A h \in Stg, x \in StpOid : Listed(x, h, c)' =>
                            \/ Live(x, h, c)'
                            \/ stp'[x] = Null /\ \E u \in Thread :
                                  Victim(u, x, h, c)' /\ (th'[u].pc = "uncache_get" => Indexed(x, h, c)')
    BY DEF PortInv
  <2>1. /\ OneEach(portList[c])
        /\ \A h \in Stg, x \in StpOid : Live(x, h, c) => (Listed(x, h, c) <=> ~ PendPort(x))
        /\ \A h \in Stg, x \in StpOid : Listed(x, h, c) =>
              \/ Live(x, h, c)
              \/ stp[x] = Null /\ \E u \in Thread :
                    Victim(u, x, h, c) /\ (th[u].pc = "uncache_get" => Indexed(x, h, c))
    BY DEF IInv, PortInv
  <2> QED BY <1>8, <1>9, <1>10, <1>11, <2>1
<1> QED BY <1>4, <1>5, <1>7, <1>12, <1>13

\* The second list after the insert.
LEMMA CachePortLists ==
    ASSUME StgAssumption, Orderly, IInv, NEW t \in Thread, OnlyMoves(t),
           th[t].pc \in {"cache_port", "boot_cache_port"},
           th'[t].pc \notin CachePC \cup UncachePC \cup {"boot_list"},
           (th'[t].pc \in BootPC) <=> (th[t].pc \in BootPC),
           th'[t].pc \in BootPC => th'[t].todo = th[t].todo,
           portList' = [portList EXCEPT ![th[t].brport] = Append(@, <<th[t].oid, th[t].stg>>)],
           UNCHANGED <<stp, defaultStg, idList>>
    PROVE  /\ portList' \in [Brport -> Seq(StpOid \X Stg)]
           /\ CachingInv' /\ OneStp' /\ IdInv' /\ PortInv'
<1> DEFINE g == th[t].stg
           b == th[t].brport
           s == th[t].oid
           list == portList[b]
<1>1. /\ g \in Stg /\ b \in Brport /\ s \in StpOid /\ stp[s] = <<g, b>>
      /\ (\A u \in Thread : th[u].pc \in CachePC => u = t) /\ ~ BootPending(s)
  BY Cacher DEF CachePC
<1>2. th[t].pc \in CachePC /\ th[t].pc # "boot_list"
  BY DEF CachePC
<1>3. CachingInv'
  BY <1>1 DEF CachingInv, OnlyMoves
<1>4. th[t].pc \notin UncachePC /\ th'[t].pc \notin UncachePC
  BY DEF UncachePC
<1>5. OneStp'
  BY <1>4 DEF OneStp, Live, IInv, OnlyMoves
<1>6. \A x \in StpOid : /\ PendId(x)' <=> PendId(x)
                        /\ PendPort(x)' <=> PendPort(x) /\ x # s
  <2>1. \A u \in Setter : /\ th'[u].pc = "boot_list" <=> th[u].pc = "boot_list"
                          /\ th'[u].pc \in BootPC <=> th[u].pc \in BootPC
                          /\ th'[u].pc \in BootPC => th'[u].todo = th[u].todo
    <3>1. \A u \in Setter : u \in Thread /\ (u # t => th'[u] = th[u])
      BY Threads DEF OnlyMoves
    <3> QED BY <1>2, <3>1
  <2>2. \A x : BootPending(x)' <=> BootPending(x)
    BY <2>1 DEF BootPending
  <2>3. \A u \in Thread : th'[u].pc \notin CachePC
    BY <1>1 DEF OnlyMoves
  <2>4. {"cache_id", "boot_cache_id"} \subseteq CachePC /\ th[t].pc \notin {"cache_id", "boot_cache_id"}
    BY DEF CachePC
  <2> QED BY <1>1, <1>2, <2>2, <2>3, <2>4 DEF PendId, PendPort
<1>7. \A x, h, c : (Live(x, h, c)' <=> Live(x, h, c)) /\ (Indexed(x, h, c)' <=> Indexed(x, h, c))
  BY DEF Live, Indexed
<1>8. \A u \in Thread : \A x, h, c : Victim(u, x, h, c) => th'[u] = th[u] /\ Victim(u, x, h, c)'
  BY <1>4 DEF OnlyMoves, Victim, UncachePC
<1>9. list \in Seq(StpOid \X Stg) /\ portList \in [Brport -> Seq(StpOid \X Stg)]
  BY <1>1 DEF IInv, TypesOK
<1>10. /\ Append(list, <<s, g>>) \in Seq(StpOid \X Stg)
       /\ Len(Append(list, <<s, g>>)) = Len(list) + 1 /\ Len(list) \in Nat
       /\ \A i \in 1 .. Len(list) : Append(list, <<s, g>>)[i] = list[i]
       /\ Append(list, <<s, g>>)[Len(list) + 1] = <<s, g>>
  <2>1. <<s, g>> \in StpOid \X Stg
    BY <1>1
  <2> HIDE DEF list
  <2> QED BY <1>9, <2>1, AppendFacts
<1>11. /\ portList'[b] = Append(list, <<s, g>>) /\ portList' \in [Brport -> Seq(StpOid \X Stg)]
       /\ \A c \in Brport : c # b => portList'[c] = portList[c]
  <2> HIDE DEF g, b, s
  <2> QED BY <1>1, <1>9, <1>10 DEF g, b, s
<1>12. \A i \in 1 .. Len(list) : list[i][1] # s
  <2> SUFFICES ASSUME NEW i \in 1 .. Len(list), list[i][1] = s
               PROVE  FALSE
    OBVIOUS
  <2>1. list[i] \in StpOid \X Stg
    BY <1>9
  <2> DEFINE h == list[i][2]
  <2>2. h \in Stg /\ Listed(s, h, b)
    BY <2>1 DEF Listed
  <2>3. stp[s] # Null
    BY <1>1, NullAssumption
  <2>4. Live(s, h, b)
    BY <1>1, <2>2, <2>3 DEF IInv, PortInv
  <2>5. PendPort(s)
    BY <1>2 DEF PendPort
  <2> QED BY <1>1, <2>2, <2>4, <2>5 DEF IInv, PortInv
<1>13. \A x \in StpOid, h \in Stg, c \in Brport :
          Listed(x, h, c)' <=> Listed(x, h, c) \/ (x = s /\ h = g /\ c = b)
  <2> SUFFICES ASSUME NEW x \in StpOid, NEW h \in Stg, NEW c \in Brport
               PROVE  Listed(x, h, c)' <=> Listed(x, h, c) \/ (x = s /\ h = g /\ c = b)
    OBVIOUS
  <2>1. CASE c = b
    <3> DEFINE new == Append(list, <<s, g>>)
    <3>1. (\E i \in 1 .. Len(new) : new[i] = <<x, h>>)
             <=> (\E i \in 1 .. Len(list) : list[i] = <<x, h>>) \/ <<x, h>> = <<s, g>>
      <4> DEFINE n == Len(list)
      <4>1. n \in Nat /\ 1 .. (n + 1) = (1 .. n) \cup {n + 1}
        <5>1. n \in Nat
          BY <1>10
        <5> HIDE DEF n
        <5> QED BY <5>1
      <4> HIDE DEF new, list, n
      <4>2. Len(new) = n + 1 /\ n = Len(list) /\ new[n + 1] = <<s, g>> /\ \A i \in 1 .. n : new[i] = list[i]
        BY <1>10 DEF new, n
      <4> QED BY <4>1, <4>2
    <3> QED BY <1>11, <2>1, <3>1 DEF Listed
  <2>2. CASE c # b
    BY <1>11, <2>2 DEF Listed
  <2> QED BY <2>1, <2>2
<1>14. ASSUME NEW c \in Brport
       PROVE  OneEach(portList'[c])
  <2>1. OneEach(portList[c])
    BY DEF IInv, PortInv
  <2>2. CASE c # b
    BY <1>11, <2>1, <2>2
  <2>3. CASE c = b
    <3> DEFINE new == Append(list, <<s, g>>)
    <3>1. OneEach(list)
      BY <2>1, <2>3
    <3>2. ASSUME NEW i \in 1 .. Len(new), NEW j \in 1 .. Len(new), new[i][1] = new[j][1]
          PROVE  i = j
      <4> DEFINE n == Len(list)
      <4>1. n \in Nat /\ Len(new) = n + 1 /\ new[n + 1] = <<s, g>> /\ \A k \in 1 .. n : new[k] = list[k]
        BY <1>10
      <4>2. \A k \in 1 .. n : new[k][1] # s
        BY <1>12, <4>1
      <4>3. new[n + 1][1] = s
        BY <4>1
      <4>4. \A k, l \in 1 .. n : new[k][1] = new[l][1] => k = l
        BY <3>1, <4>1 DEF OneEach
      <4> HIDE DEF new, n
      <4>5. i \in 1 .. n \/ i = n + 1
        BY <4>1
      <4>6. j \in 1 .. n \/ j = n + 1
        BY <4>1
      <4> QED BY <3>2, <4>2, <4>3, <4>4, <4>5, <4>6
    <3>3. OneEach(new)
      BY <3>2 DEF OneEach
    <3> QED BY <1>11, <2>3, <3>3
  <2> QED BY <2>2, <2>3
<1>15. IdInv'
  <2> SUFFICES ASSUME NEW h \in Stg, NEW c \in Brport
               PROVE  /\ Len(idList'[<<h, c>>]) \in {0, 1}
                      /\ \A x \in StpOid : Live(x, h, c)' => (Indexed(x, h, c)' <=> ~ PendId(x)')
                      /\ \A x \in StpOid : Indexed(x, h, c)' =>
                            \/ Live(x, h, c)'
                            \/ stp'[x] = Null /\ \E u \in Thread :
                                  Victim(u, x, h, c)' /\ th'[u].pc # "uncache_port"
    BY DEF IdInv
  <2>1. /\ Len(idList[<<h, c>>]) \in {0, 1}
        /\ \A x \in StpOid : Live(x, h, c) => (Indexed(x, h, c) <=> ~ PendId(x))
        /\ \A x \in StpOid : Indexed(x, h, c) =>
              \/ Live(x, h, c)
              \/ stp[x] = Null /\ \E u \in Thread : Victim(u, x, h, c) /\ th[u].pc # "uncache_port"
    BY DEF IInv, IdInv
  <2> QED BY <1>6, <1>7, <1>8, <2>1
<1>16. PortInv'
  <2> SUFFICES ASSUME NEW c \in Brport
               PROVE  /\ OneEach(portList'[c])
                      /\ \A h \in Stg, x \in StpOid : Live(x, h, c)' => (Listed(x, h, c)' <=> ~ PendPort(x)')
                      /\ \A h \in Stg, x \in StpOid : Listed(x, h, c)' =>
                            \/ Live(x, h, c)'
                            \/ stp'[x] = Null /\ \E u \in Thread :
                                  Victim(u, x, h, c)' /\ (th'[u].pc = "uncache_get" => Indexed(x, h, c)')
    BY DEF PortInv
  <2>1. /\ \A h \in Stg, x \in StpOid : Live(x, h, c) => (Listed(x, h, c) <=> ~ PendPort(x))
        /\ \A h \in Stg, x \in StpOid : Listed(x, h, c) =>
              \/ Live(x, h, c)
              \/ stp[x] = Null /\ \E u \in Thread :
                    Victim(u, x, h, c) /\ (th[u].pc = "uncache_get" => Indexed(x, h, c))
    BY DEF IInv, PortInv
  <2>2. Live(s, g, b) /\ \A h : Live(s, h, c) => h = g /\ c = b
    BY <1>1 DEF Live
  <2> QED BY <1>6, <1>7, <1>8, <1>13, <1>14, <2>1, <2>2
<1> QED BY <1>3, <1>5, <1>11, <1>15, <1>16

LEMMA CacheIdStep ==
    ASSUME StgAssumption, Orderly, IInv, NEW t \in Thread,
           CacheId(t)
    PROVE  IInv'
<1> USE StgAssumption
<1> DEFINE r == [th[t] EXCEPT !.pc = IF th[t].pc = "cache_id" THEN "cache_port" ELSE "boot_cache_port"]
<1>1. /\ th[t].pc \in {"cache_id", "boot_cache_id"} /\ th[t] \in ThreadRec
      /\ UNCHANGED <<stgs, stp, brports, brCache, defaultStg, portList, mutex, hurt>>
      /\ idList' = [idList EXCEPT ![<<th[t].stg, th[t].brport>>] = Append(@, th[t].oid)]
      /\ th' = [th EXCEPT ![t] = r]
  BY DEF CacheId, StgAssumption, sai, lists, IInv, TypesOK, Step, Goto, Return, Thread
<1>2. OnlyMoves(t) /\ th'[t] = r
  BY <1>1, Moves DEF IInv, Step
<1>3. /\ th'[t].pc = IF th[t].pc = "cache_id" THEN "cache_port" ELSE "boot_cache_port"
      /\ th'[t].inst = th[t].inst /\ th'[t].stg = th[t].stg /\ th'[t].port = th[t].port
      /\ th'[t].brport = th[t].brport /\ th'[t].oid = th[t].oid /\ th'[t].todo = th[t].todo
  BY <1>1, <1>2 DEF Idle, IInv, TypesOK, ThreadRec
<1>4. th'[t] \in ThreadRec
  <2>1. "cache_port" \in PCs /\ "boot_cache_port" \in PCs /\ th[t] \in ThreadRec
    BY <1>1 DEF PCs, SetterPC, SharedPC, BootPC
  <2>2. r \in ThreadRec
    BY <2>1 DEF ThreadRec
  <2> QED BY <1>2, <2>2
<1>5. /\ idList' \in [Stg \X Brport -> Seq(StpOid)]
      /\ CachingInv' /\ OneStp' /\ IdInv' /\ PortInv'
  BY <1>1, <1>2, CacheIdLists
<1>6. TypesOK'
  <2>0. ThreadOK(t)
    BY <1>1 DEF IInv, TypesOK
  <2>1. ThreadOK(t)'
    BY <1>1, <1>3, <2>0 DEF ThreadOK, SharedPC, SetterPC, PorterPC, NewPC, UncachePC, DelPC, CachePC, BootPC
  <2> QED BY <1>1, <1>2, <1>4, <1>5, <2>1, QuietTypes DEF TypesOK, IInv
<1>7. MutexInv'
  BY <1>1, <1>2, <1>3 DEF MutexInv, IInv, Holds, OnlyMoves, UncachePC
<1>8. BrportInv'
  BY <1>1, <1>2, <1>3 DEF BrportInv, IInv, OnlyMoves, Thread, DelPC, UncachePC
<1>9. NewsInv'
  <2> SUFFICES ASSUME NEW u \in Porter, th'[u].pc \in NewPC
               PROVE  NewInv(u)'
    BY DEF NewsInv
  <2>1. u \in Thread /\ th[u].pc \in NewPC /\ (th'[u].pc = "new_cache" <=> th[u].pc = "new_cache")
                     /\ (th'[u].pc = "new_stp" <=> th[u].pc = "new_stp")
    <3>1. CASE u = t
      BY <1>1, <1>3, <3>1, Threads DEF NewPC
    <3>2. CASE u # t
      BY <1>2, <3>2, Threads DEF OnlyMoves
    <3> QED BY <3>1, <3>2
  <2>2. \A v \in Thread : /\ th'[v].brport = th[v].brport /\ th'[v].port = th[v].port
                          /\ th'[v].stg = th[v].stg
    BY <1>2, <1>3 DEF OnlyMoves
  <2> QED BY <1>1, <2>1, <2>2 DEF NewsInv, NewInv, IInv, OnBrport
<1>10. SetterInv'
  BY <1>1, <1>2, <1>3 DEF SetterInv, DeletesInv, IInv, OnlyMoves, Thread, Live, UncachePC
<1>11. BootInv'
  <2>1. InStg(DefaultStg)' = InStg(DefaultStg)
    BY <1>1 DEF InStg
  <2> QED BY <1>1, <1>2, <1>3, <2>1, Threads DEF BootInv, IInv, OnlyMoves, BootPC
<1>12. DeletionInv'
  BY <1>1, <1>2, <1>3 DEF DeletionInv, IInv, OnlyMoves, Thread, OnBrport, UncachePC
<1>13. DefaultInv'
  BY <1>1, <1>2, <1>3 DEF DefaultInv, IInv, OnlyMoves, Thread, OnBrport, InStg, InDefaultStg
<1> QED BY <1>5, <1>6, <1>7, <1>8, <1>9, <1>10, <1>11, <1>12, <1>13 DEF IInv

LEMMA CachePortSetterStep ==
    ASSUME StgAssumption, Orderly, IInv, NEW t \in Setter,
           CachePort(t)
    PROVE  IInv'
<1> USE StgAssumption
<1> DEFINE r == Idle
<1>1. /\ t \in Thread /\ t \in Setter /\ t \notin Porter /\ th[t].pc = "cache_port" /\ th[t] \in ThreadRec
      /\ UNCHANGED <<stgs, stp, brports, brCache, defaultStg, idList, hurt>>
      /\ portList' = [portList EXCEPT ![th[t].brport] = Append(@, <<th[t].oid, th[t].stg>>)] /\ mutex' = Null
      /\ th[t].port = Null
      /\ th' = [th EXCEPT ![t] = r]
  <2>1. t \in Thread /\ ThreadOK(t) /\ th[t] \in ThreadRec /\ th[t].pc = "cache_port"
    BY Threads DEF IInv, TypesOK, CachePort
  <2>2. th[t].port = Null
    BY <2>1 DEF ThreadOK
  <2> QED BY <2>1, <2>2, Threads DEF CachePort, Step, sai
<1>2. OnlyMoves(t) /\ th'[t] = r
  BY <1>1, Moves DEF IInv, Step
<1>3. /\ th'[t].pc = "idle" /\ th'[t].todo = {} /\ th'[t].brport = Null /\ th'[t].oid = Null
      /\ th'[t].port = Null
  BY <1>1, <1>2 DEF Idle, IInv, TypesOK, ThreadRec
<1>4. th'[t] \in ThreadRec
  BY <1>2, IdleRec
<1>5. /\ portList' \in [Brport -> Seq(StpOid \X Stg)]
      /\ CachingInv' /\ OneStp' /\ IdInv' /\ PortInv'
  <2>1. /\ th'[t].pc \notin CachePC \cup UncachePC \cup {"boot_list"}
        /\ th[t].pc \notin BootPC /\ th'[t].pc \notin BootPC
    BY <1>1, <1>3 DEF CachePC, UncachePC, BootPC
  <2> QED BY <1>1, <1>2, <2>1, CachePortLists
<1>6. TypesOK'
  <2>0. ThreadOK(t)
    BY <1>1 DEF IInv, TypesOK
  <2>1. ThreadOK(t)'
    BY <1>1, <1>3, <2>0 DEF ThreadOK, SharedPC, SetterPC, PorterPC, NewPC, UncachePC, DelPC, CachePC, BootPC
  <2> QED BY <1>1, <1>2, <1>4, <1>5, <2>1, QuietTypes DEF TypesOK, IInv
<1>7. MutexInv'
  <2>1. ~ Holds(t)'
    BY <1>1, <1>3 DEF Holds, UncachePC
  <2>2. mutex = t
    BY <1>1 DEF IInv, MutexInv, Holds
  <2>3. \A u \in Thread : u # t => (Holds(u)' <=> Holds(u))
    BY <1>2 DEF OnlyMoves, Holds
  <2> QED BY <1>1, <2>1, <2>2, <2>3, Threads DEF MutexInv, IInv
<1>8. BrportInv'
  BY <1>1, <1>2, <1>3 DEF BrportInv, IInv, OnlyMoves, Thread, DelPC, UncachePC
<1>9. NewsInv'
  BY <1>1, <1>2, <1>3, QuietNews DEF NewPC
<1>10. SetterInv'
  BY <1>1, <1>2, <1>3 DEF SetterInv, DeletesInv, IInv, OnlyMoves, Thread, Live, UncachePC
<1>11. BootInv'
  <2>1. InStg(DefaultStg)' = InStg(DefaultStg)
    BY <1>1 DEF InStg
  <2> QED BY <1>1, <1>2, <1>3, <2>1 DEF BootInv, IInv, OnlyMoves, Thread, BootPC
<1>12. DeletionInv'
  <2>1. \A u \in Porter : th[u].pc \notin {"del_stp", "del_list", "del_brport"} \cup UncachePC
    BY <1>1, Threads DEF IInv, MutexInv, Holds, UncachePC
  <2>2. th'[t].pc \notin {"del_stp", "del_list", "del_brport"} \cup UncachePC
    BY <1>3 DEF UncachePC
  <2>3. \A u \in Porter : th'[u].pc \notin {"del_stp", "del_list", "del_brport"} \cup UncachePC
    BY <1>2, <2>1, <2>2, Threads DEF OnlyMoves
  <2> QED BY <2>3 DEF DeletionInv
<1>13. DefaultInv'
  BY <1>1, <1>2, <1>3 DEF DefaultInv, IInv, OnlyMoves, Thread, OnBrport, InStg, InDefaultStg
<1> QED BY <1>5, <1>6, <1>7, <1>8, <1>9, <1>10, <1>11, <1>12, <1>13 DEF IInv

LEMMA CachePortPorterStep ==
    ASSUME StgAssumption, Orderly, IInv, NEW t \in Porter,
           CachePort(t)
    PROVE  IInv'
<1> USE StgAssumption
<1> DEFINE r == [th[t] EXCEPT !.pc = "new_cache", !.oid = Null, !.stg = Null]
<1>1. /\ t \in Thread /\ t \in Porter /\ t \notin Setter /\ th[t].pc = "cache_port" /\ th[t] \in ThreadRec
      /\ UNCHANGED <<stgs, stp, brports, brCache, defaultStg, idList, hurt>>
      /\ portList' = [portList EXCEPT ![th[t].brport] = Append(@, <<th[t].oid, th[t].stg>>)] /\ mutex' = Null
      /\ th[t].port # Null /\ NewInv(t) /\ stp[th[t].oid] = <<DefaultStg, th[t].brport>>
      /\ th' = [th EXCEPT ![t] = r]
  <2>1. t \in Thread /\ ThreadOK(t) /\ th[t] \in ThreadRec /\ th[t].pc = "cache_port"
    BY Threads DEF IInv, TypesOK, CachePort
  <2>2. NewInv(t) /\ th[t].port # Null /\ th[t].stg = DefaultStg
    BY <2>1, StgAssumption DEF IInv, NewsInv, NewPC, NewInv
  <2>3. stp[th[t].oid] = <<DefaultStg, th[t].brport>>
    BY <2>1, <2>2 DEF IInv, CachingInv, CachePC, Live
  <2> QED BY <2>1, <2>2, <2>3, Threads DEF CachePort, Step, sai
<1>2. OnlyMoves(t) /\ th'[t] = r
  BY <1>1, Moves DEF IInv, Step
<1>3. /\ th'[t].pc = "new_cache" /\ th'[t].brport = th[t].brport /\ th'[t].port = th[t].port
      /\ th'[t].oid = Null
  BY <1>1, <1>2 DEF Idle, IInv, TypesOK, ThreadRec
<1>4. th'[t] \in ThreadRec
  <2>1. "new_cache" \in PCs /\ th[t] \in ThreadRec
    BY <1>1 DEF PCs, PorterPC
  <2>2. r \in ThreadRec
    BY <2>1 DEF ThreadRec
  <2> QED BY <1>2, <2>2
<1>5. /\ portList' \in [Brport -> Seq(StpOid \X Stg)]
      /\ CachingInv' /\ OneStp' /\ IdInv' /\ PortInv'
  <2>1. /\ th'[t].pc \notin CachePC \cup UncachePC \cup {"boot_list"}
        /\ th[t].pc \notin BootPC /\ th'[t].pc \notin BootPC
    BY <1>1, <1>3 DEF CachePC, UncachePC, BootPC
  <2> QED BY <1>1, <1>2, <2>1, CachePortLists
<1>6. TypesOK'
  <2>0. ThreadOK(t)
    BY <1>1 DEF IInv, TypesOK
  <2>1. ThreadOK(t)'
    BY <1>1, <1>3, <2>0 DEF ThreadOK, SharedPC, SetterPC, PorterPC, NewPC, UncachePC, DelPC, CachePC, BootPC
  <2> QED BY <1>1, <1>2, <1>4, <1>5, <2>1, QuietTypes DEF TypesOK, IInv
<1>7. MutexInv'
  <2>1. ~ Holds(t)'
    BY <1>1, <1>3 DEF Holds, UncachePC
  <2>2. mutex = t
    BY <1>1 DEF IInv, MutexInv, Holds
  <2>3. \A u \in Thread : u # t => (Holds(u)' <=> Holds(u))
    BY <1>2 DEF OnlyMoves, Holds
  <2> QED BY <1>1, <2>1, <2>2, <2>3, Threads DEF MutexInv, IInv
<1>8. BrportInv'
  BY <1>1, <1>2, <1>3 DEF BrportInv, IInv, OnlyMoves, Thread, DelPC, UncachePC
<1>9. NewsInv'
  <2> SUFFICES ASSUME NEW u \in Porter, th'[u].pc \in NewPC
               PROVE  NewInv(u)'
    BY DEF NewsInv
  <2>1. \A v \in Thread : th'[v].brport = th[v].brport
    BY <1>2, <1>3 DEF OnlyMoves
  <2>2. CASE u = t
    BY <1>1, <1>3, <2>1, <2>2 DEF NewInv, OnBrport
  <2>3. CASE u # t
    <3>1. u \in Thread /\ th'[u] = th[u] /\ NewInv(u)
      BY <1>2, <2>3, Threads DEF OnlyMoves, NewsInv, IInv
    <3> QED BY <1>1, <2>1, <3>1 DEF NewInv, OnBrport
  <2> QED BY <2>2, <2>3
<1>10. SetterInv'
  BY <1>1, <1>2, <1>3 DEF SetterInv, DeletesInv, IInv, OnlyMoves, Thread, Live, UncachePC
<1>11. BootInv'
  <2>1. InStg(DefaultStg)' = InStg(DefaultStg)
    BY <1>1 DEF InStg
  <2> QED BY <1>1, <1>2, <1>3, <2>1 DEF BootInv, IInv, OnlyMoves, Thread, BootPC
<1>12. DeletionInv'
  <2>1. \A u \in Porter : th[u].pc \notin {"del_stp", "del_list", "del_brport"} \cup UncachePC
    BY <1>1, Threads DEF IInv, MutexInv, Holds, UncachePC
  <2>2. th'[t].pc \notin {"del_stp", "del_list", "del_brport"} \cup UncachePC
    BY <1>3 DEF UncachePC
  <2>3. \A u \in Porter : th'[u].pc \notin {"del_stp", "del_list", "del_brport"} \cup UncachePC
    BY <1>2, <2>1, <2>2, Threads DEF OnlyMoves
  <2> QED BY <2>3 DEF DeletionInv
<1>13. DefaultInv'
  <2>1. th[t].oid \in InStg(DefaultStg) \cap OnBrport(th[t].brport)
    <3>1. th[t].oid \in StpOid /\ th[t].brport \in Brport
      BY <1>1 DEF IInv, TypesOK, ThreadOK, CachePC
    <3>2. <<DefaultStg, th[t].brport>> # Null
      BY <3>1, StgAssumption, NullAssumption
    <3>3. stp[th[t].oid] = <<DefaultStg, th[t].brport>>
      BY <1>1
    <3> QED BY <3>1, <3>2, <3>3 DEF InStg, OnBrport
  <2>2. \A v \in Porter : th'[v].brport = th[v].brport /\ (th'[v].pc = "new_cache" => v = t \/ th[v].pc = "new_cache")
    BY <1>2, <1>3, Threads DEF OnlyMoves
  <2> QED BY <1>1, <2>1, <2>2 DEF DefaultInv, IInv, OnBrport, InStg, InDefaultStg
<1> QED BY <1>5, <1>6, <1>7, <1>8, <1>9, <1>10, <1>11, <1>12, <1>13 DEF IInv

LEMMA BootCachePortStep ==
    ASSUME StgAssumption, Orderly, IInv, NEW t \in Setter,
           BootCachePort(t)
    PROVE  IInv'
<1> USE StgAssumption
<1> DEFINE r == [th[t] EXCEPT !.pc = "boot_attr", !.oid = Null, !.stg = Null, !.brport = Null]
<1>1. /\ t \in Thread /\ t \in Setter /\ t \notin Porter /\ th[t].pc = "boot_cache_port" /\ th[t] \in ThreadRec
      /\ UNCHANGED <<stgs, stp, brports, brCache, defaultStg, idList, mutex, hurt>>
      /\ portList' = [portList EXCEPT ![th[t].brport] = Append(@, <<th[t].oid, th[t].stg>>)]
      /\ th' = [th EXCEPT ![t] = r]
  BY DEF BootCachePort, StgAssumption, sai, lists, IInv, TypesOK, Step, Goto, Return, Thread
<1>2. OnlyMoves(t) /\ th'[t] = r
  BY <1>1, Moves DEF IInv, Step
<1>3. /\ th'[t].pc = "boot_attr" /\ th'[t].inst = th[t].inst /\ th'[t].port = th[t].port
      /\ th'[t].brport = Null /\ th'[t].oid = Null /\ th'[t].todo = th[t].todo
  BY <1>1, <1>2 DEF Idle, IInv, TypesOK, ThreadRec
<1>4. th'[t] \in ThreadRec
  <2>1. "boot_attr" \in PCs /\ th[t] \in ThreadRec
    BY <1>1 DEF PCs, SetterPC, BootPC
  <2>2. r \in ThreadRec
    BY <2>1 DEF ThreadRec
  <2> QED BY <1>2, <2>2
<1>5. /\ portList' \in [Brport -> Seq(StpOid \X Stg)]
      /\ CachingInv' /\ OneStp' /\ IdInv' /\ PortInv'
  <2>1. /\ th'[t].pc \notin CachePC \cup UncachePC \cup {"boot_list"}
        /\ th[t].pc \in BootPC /\ th'[t].pc \in BootPC
    BY <1>1, <1>3 DEF CachePC, UncachePC, BootPC
  <2> QED BY <1>1, <1>2, <1>3, <2>1, CachePortLists
<1>6. TypesOK'
  <2>0. ThreadOK(t)
    BY <1>1 DEF IInv, TypesOK
  <2>1. ThreadOK(t)'
    BY <1>1, <1>3, <2>0 DEF ThreadOK, SharedPC, SetterPC, PorterPC, NewPC, UncachePC, DelPC, CachePC, BootPC
  <2> QED BY <1>1, <1>2, <1>4, <1>5, <2>1, QuietTypes DEF TypesOK, IInv
<1>7. MutexInv'
  BY <1>1, <1>2, <1>3 DEF MutexInv, IInv, Holds, OnlyMoves, UncachePC
<1>8. BrportInv'
  BY <1>1, <1>2, <1>3 DEF BrportInv, IInv, OnlyMoves, Thread, DelPC, UncachePC
<1>9. NewsInv'
  BY <1>1, <1>2, <1>3, QuietNews DEF NewPC
<1>10. SetterInv'
  BY <1>1, <1>2, <1>3 DEF SetterInv, DeletesInv, IInv, OnlyMoves, Thread, Live, UncachePC
<1>11. BootInv'
  <2>1. InStg(DefaultStg)' = InStg(DefaultStg)
    BY <1>1 DEF InStg
  <2>2. th[t].pc \in BootPC /\ \A u \in Setter : u = t
    BY <1>1 DEF BootPC, Orderly
  <2>3. \A u \in Porter : th'[u] = th[u] /\ th[u].pc = "idle"
    BY <1>1, <1>2, <2>2, Threads DEF OnlyMoves, BootInv, IInv
  <2>4. defaultStg # Null /\ th[t].inst = DefaultStg /\ \A e \in th[t].todo :
            e[1] # Null /\ stp[e[1]] # Null /\ stp[e[1]][1] = DefaultStg /\ e[2] = DefaultStg
    BY <2>2 DEF BootInv, IInv
  <2> QED BY <1>1, <1>3, <2>2, <2>3, <2>4 DEF BootInv
<1>12. DeletionInv'
  <2>1. \A u \in Porter : th[u].pc \notin {"del_stp", "del_list", "del_brport"} \cup UncachePC
    BY <1>1 DEF IInv, BootInv, BootPC, UncachePC
  <2>2. th'[t].pc \notin {"del_stp", "del_list", "del_brport"} \cup UncachePC
    BY <1>3 DEF UncachePC
  <2>3. \A u \in Porter : th'[u].pc \notin {"del_stp", "del_list", "del_brport"} \cup UncachePC
    BY <1>2, <2>1, <2>2, Threads DEF OnlyMoves
  <2> QED BY <2>3 DEF DeletionInv
<1>13. DefaultInv'
  BY <1>1, <1>2, <1>3 DEF DefaultInv, IInv, OnlyMoves, Thread, OnBrport, InStg, InDefaultStg
<1> QED BY <1>5, <1>6, <1>7, <1>8, <1>9, <1>10, <1>11, <1>12, <1>13 DEF IInv

-----------------------------------------------------------------------------
(* The removal of an STP port and its way out of the lists.                *)

\* What is removed waits for no insert.
LEMMA Settled ==
    ASSUME StgAssumption, Orderly, IInv, NEW t \in Thread, NEW s \in StpOid, stp[s] # Null,
           \/ t \in Porter /\ th[t].pc = "del_stp"
           \/ t \in Setter /\ th[t].pc = "stg_stp" /\ stp[s][1] # DefaultStg
    PROVE  ~ BootPending(s) /\ \A u \in Thread : ~ (th[u].pc \in CachePC /\ th[u].oid = s)
<1>1. CASE t \in Porter /\ th[t].pc = "del_stp"
  <2>1. defaultStg # Null /\ \A u \in Setter : th[u].pc \notin BootPC
    BY <1>1 DEF IInv, BootInv
  <2>2. ~ BootPending(s)
    BY <2>1 DEF BootPending, BootPC
  <2>3. mutex = t
    BY <1>1 DEF IInv, MutexInv, Holds
  <2>4. ASSUME NEW u \in Thread, th[u].pc \in CachePC
        PROVE  FALSE
    <3>1. th[u].pc \in {"cache_id", "cache_port"}
      BY <2>1, <2>4, Threads DEF IInv, TypesOK, ThreadOK, SharedPC, PorterPC, CachePC, BootPC
    <3>2. mutex = u
      BY <3>1 DEF IInv, MutexInv, Holds
    <3> QED BY <1>1, <2>3, <3>1, <3>2
  <2> QED BY <2>2, <2>4
<1>2. CASE t \in Setter /\ th[t].pc = "stg_stp" /\ stp[s][1] # DefaultStg
  <2>1. ~ BootPending(s)
    BY <1>2 DEF BootPending
  <2>2. ASSUME NEW u \in Thread, th[u].pc \in CachePC, th[u].oid = s
        PROVE  FALSE
    <3>1. u \in Porter
      BY <1>2, <2>2, Threads DEF Orderly, CachePC
    <3>2. th[u].pc \in {"cache_id", "cache_port"}
      BY <2>2, <3>1, Threads DEF IInv, TypesOK, ThreadOK, SharedPC, PorterPC, CachePC
    <3>3. th[u].stg = DefaultStg
      BY <3>1, <3>2 DEF IInv, NewsInv, NewInv, NewPC
    <3>4. stp[s] = <<th[u].stg, th[u].brport>>
      BY <2>2 DEF IInv, CachingInv, Live
    <3> QED BY <1>2, <3>3, <3>4
  <2> QED BY <2>1, <2>2
<1> QED BY <1>1, <1>2

\* The lists when SAI has removed an STP port.
LEMMA RemovalLists ==
    ASSUME StgAssumption, Orderly, IInv, NEW t \in Thread, OnlyMoves(t), NEW s \in StpOid,
           NEW g \in Stg, NEW b \in Brport, stp[s] = <<g, b>>,
           \/ t \in Porter /\ th[t].pc = "del_stp" /\ th'[t].oid = Null
           \/ t \in Setter /\ th[t].pc = "stg_stp" /\ th'[t].oid = s /\ g # DefaultStg,
           th'[t].pc = "uncache_get", th'[t].stg = g, th'[t].brport = b,
           stp' = [stp EXCEPT ![s] = Null],
           UNCHANGED <<defaultStg, idList, portList>>
    PROVE  CachingInv' /\ OneStp' /\ IdInv' /\ PortInv'
<1>1. /\ stp[s] # Null /\ stp[s][1] = g /\ Live(s, g, b) /\ stp'[s] = Null
      /\ \A x : x \in StpOid /\ x # s => stp'[x] = stp[x]
      /\ \A h, c : <<h, c>> = <<g, b>> => h = g /\ c = b
  BY NullAssumption DEF Live, IInv, TypesOK
<1>2. ~ BootPending(s) /\ \A u \in Thread : ~ (th[u].pc \in CachePC /\ th[u].oid = s)
  <2>1. CASE t \in Porter /\ th[t].pc = "del_stp"
    BY <1>1, <2>1, Settled
  <2>2. CASE t \in Setter /\ th[t].pc = "stg_stp" /\ g # DefaultStg
    <3>1. stp[s] # Null /\ stp[s][1] # DefaultStg
      BY <1>1, <2>2
    <3> QED BY <2>2, <3>1, Settled
  <2> QED BY <2>1, <2>2
<1>3. ~ PendId(s) /\ ~ PendPort(s)
  BY <1>2 DEF PendId, PendPort, CachePC
<1>4. /\ th[t].pc \notin CachePC \cup BootPC \cup UncachePC
      /\ th'[t].pc \notin CachePC \cup BootPC /\ th'[t].pc \in UncachePC
  BY DEF CachePC, BootPC, UncachePC
<1>5. \A x \in StpOid : x # s => (PendId(x)' <=> PendId(x)) /\ (PendPort(x)' <=> PendPort(x))
  BY <1>1, <1>4, PendingKept
<1>6. \A x \in StpOid : \A h \in Stg, c \in Brport : Live(x, h, c)' <=> Live(x, h, c) /\ x # s
  BY <1>1, NullAssumption DEF Live
<1>7. \A x, h, c : (Indexed(x, h, c)' <=> Indexed(x, h, c)) /\ (Listed(x, h, c)' <=> Listed(x, h, c))
  BY DEF Indexed, Listed
<1>8. \A u \in Thread : \A x, h, c : Victim(u, x, h, c) => th'[u] = th[u] /\ Victim(u, x, h, c)'
  BY <1>4 DEF OnlyMoves, Victim, UncachePC
<1>9. Victim(t, s, g, b)'
  BY Threads DEF Victim
<1>10. CachingInv'
  <2> SUFFICES ASSUME NEW u \in Thread, th'[u].pc \in CachePC
               PROVE  stp'[th'[u].oid] = <<th'[u].stg, th'[u].brport>>
    BY DEF CachingInv, Live
  <2>1. u # t /\ th'[u] = th[u] /\ th[u].oid # s
    BY <1>2, <1>4 DEF OnlyMoves
  <2>2. th[u].oid \in StpOid /\ stp[th[u].oid] = <<th[u].stg, th[u].brport>>
    BY <2>1, Cacher
  <2> QED BY <1>1, <2>1, <2>2
<1>11. OneStp'
  <2>1. \A x, y \in StpOid : stp'[x] = stp'[y] /\ stp'[x] # Null => x = y
    BY <1>1 DEF IInv, OneStp
  <2>2. \A x \in StpOid : stp'[x] # <<g, b>>
    <3>1. <<g, b>> # Null
      BY NullAssumption
    <3>2. \A x \in StpOid : stp[x] = <<g, b>> => x = s
      <4>1. OneStp /\ stp[s] = <<g, b>>
        BY DEF IInv
      <4>2. \A x, y \in StpOid : stp[x] = stp[y] /\ stp[x] # Null => x = y
        BY <4>1 DEF OneStp
      <4>3. \A x \in StpOid : stp[x] = <<g, b>> => stp[x] = stp[s] /\ stp[x] # Null
        BY <3>1, <4>1
      <4> QED BY <4>2, <4>3
    <3> QED
      <4> SUFFICES ASSUME NEW x \in StpOid
                   PROVE  stp'[x] # <<g, b>>
        OBVIOUS
      <4>1. CASE x = s
        BY <1>1, <3>1, <4>1
      <4>2. CASE x # s
        BY <1>1, <3>2, <4>2
      <4> QED BY <4>1, <4>2
  <2>3. ASSUME NEW u \in Thread, u # t, th[u].pc \in UncachePC
        PROVE  /\ th'[u] = th[u] /\ <<th[u].stg, th[u].brport>> # <<g, b>>
               /\ \A x \in StpOid : stp'[x] # <<th[u].stg, th[u].brport>>
               /\ th[u].oid # Null => stp'[th[u].oid] = Null
    <3>1. th[u].stg \in Stg /\ th[u].brport \in Brport /\ th[u].oid \in StpOid \cup {Null}
      BY <2>3 DEF IInv, TypesOK, ThreadOK, ThreadRec
    <3>2. /\ \A x \in StpOid : stp[x] # <<th[u].stg, th[u].brport>>
          /\ th[u].oid # Null => stp[th[u].oid] = Null
      BY <2>3 DEF IInv, OneStp, Live
    <3>3. <<th[u].stg, th[u].brport>> # Null
      BY <3>1, NullAssumption
    <3>4. \A x \in StpOid : stp'[x] # <<th[u].stg, th[u].brport>>
      <4> SUFFICES ASSUME NEW x \in StpOid
                   PROVE  stp'[x] # <<th[u].stg, th[u].brport>>
        OBVIOUS
      <4>1. CASE x = s
        BY <1>1, <3>3, <4>1
      <4>2. CASE x # s
        BY <1>1, <3>2, <4>2
      <4> QED BY <4>1, <4>2
    <3>5. <<th[u].stg, th[u].brport>> # <<g, b>>
      BY <3>2
    <3>6. th[u].oid # Null => stp'[th[u].oid] = Null
      BY <1>1, <3>1, <3>2
    <3>7. th'[u] = th[u]
      BY <2>3 DEF OnlyMoves
    <3> QED BY <3>4, <3>5, <3>6, <3>7
  <2>4. \A u \in Thread : u # t /\ th'[u].pc \in UncachePC => th[u].pc \in UncachePC
    BY DEF OnlyMoves
  <2>5. th'[t].oid # Null => stp'[th'[t].oid] = Null
    BY <1>1
  <2>6. \A u \in Thread : th'[u].pc \in UncachePC => \A x \in StpOid : ~ Live(x, th[u].stg, th[u].brport)'
    BY <2>2, <2>3, <2>4 DEF Live
  <2>7. \A u \in Thread : th'[u].pc \in UncachePC /\ th'[u].oid # Null => stp'[th'[u].oid] = Null
    BY <2>3, <2>4, <2>5
  <2>8. \A u, v \in Thread : th'[u].pc \in UncachePC /\ th'[v].pc \in UncachePC
              => (th'[v].stg = th'[u].stg /\ th'[v].brport = th'[u].brport => v = u)
    <3>1. \A u \in Thread : u # t /\ th'[u].pc \in UncachePC =>
              th[u].pc \in UncachePC /\ th'[u] = th[u] /\ ~ (th[u].stg = g /\ th[u].brport = b)
      BY <2>3, <2>4
    <3>2. \A u, v \in Thread : th[u].pc \in UncachePC /\ th[v].pc \in UncachePC
              => (th[v].stg = th[u].stg /\ th[v].brport = th[u].brport => v = u)
      BY DEF IInv, OneStp
    <3> QED BY <3>1, <3>2
  <2> QED BY <2>1, <2>6, <2>7, <2>8 DEF OneStp
<1>12. IdInv'
  <2> SUFFICES ASSUME NEW h \in Stg, NEW c \in Brport
               PROVE  /\ Len(idList'[<<h, c>>]) \in {0, 1}
                      /\ \A x \in StpOid : Live(x, h, c)' => (Indexed(x, h, c)' <=> ~ PendId(x)')
                      /\ \A x \in StpOid : Indexed(x, h, c)' =>
                            \/ Live(x, h, c)'
                            \/ stp'[x] = Null /\ \E u \in Thread :
                                  Victim(u, x, h, c)' /\ th'[u].pc # "uncache_port"
    BY DEF IdInv
  <2>1. /\ Len(idList[<<h, c>>]) \in {0, 1}
        /\ \A x \in StpOid : Live(x, h, c) => (Indexed(x, h, c) <=> ~ PendId(x))
        /\ \A x \in StpOid : Indexed(x, h, c) =>
              \/ Live(x, h, c)
              \/ stp[x] = Null /\ \E u \in Thread : Victim(u, x, h, c) /\ th[u].pc # "uncache_port"
    BY DEF IInv, IdInv
  <2>2. Indexed(s, h, c) => h = g /\ c = b
    <3>1. Indexed(s, h, c) => Live(s, h, c)
      BY <1>1, <2>1
    <3> QED BY <1>1, <3>1 DEF Live
  <2> QED BY <1>1, <1>5, <1>6, <1>7, <1>8, <1>9, <2>1, <2>2
<1>13. PortInv'
  <2> SUFFICES ASSUME NEW c \in Brport
               PROVE  /\ OneEach(portList'[c])
                      /\ \A h \in Stg, x \in StpOid : Live(x, h, c)' => (Listed(x, h, c)' <=> ~ PendPort(x)')
                      /\ \A h \in Stg, x \in StpOid : Listed(x, h, c)' =>
                            \/ Live(x, h, c)'
                            \/ stp'[x] = Null /\ \E u \in Thread :
                                  Victim(u, x, h, c)' /\ (th'[u].pc = "uncache_get" => Indexed(x, h, c)')
    BY DEF PortInv
  <2>1. /\ OneEach(portList[c])
        /\ \A h \in Stg, x \in StpOid : Live(x, h, c) => (Listed(x, h, c) <=> ~ PendPort(x))
        /\ \A h \in Stg, x \in StpOid : Listed(x, h, c) =>
              \/ Live(x, h, c)
              \/ stp[x] = Null /\ \E u \in Thread :
                    Victim(u, x, h, c) /\ (th[u].pc = "uncache_get" => Indexed(x, h, c))
    BY DEF IInv, PortInv
  <2>2. \A h \in Stg : Listed(s, h, c) => h = g /\ c = b
    <3>1. \A h \in Stg : Listed(s, h, c) => Live(s, h, c)
      BY <1>1, <2>1
    <3> QED BY <1>1, <3>1 DEF Live
  <2>3. Indexed(s, g, b)
    BY <1>1, <1>3 DEF IInv, IdInv
  <2> QED BY <1>1, <1>5, <1>6, <1>7, <1>8, <1>9, <2>1, <2>2, <2>3
<1> QED BY <1>10, <1>11, <1>12, <1>13

\* The list of the key holds what t has removed, or nothing.
LEMMA Found ==
    ASSUME StgAssumption, IInv, NEW t \in Thread, th[t].pc = "uncache_get"
    PROVE  LET o == Lookup(th[t].stg, th[t].brport)
           IN  /\ o \in StpOid \cup {Null}
               /\ o # Null => stp[o] = Null
               /\ \A x \in StpOid : Indexed(x, th[t].stg, th[t].brport) => x = o
<1> DEFINE g == th[t].stg
           b == th[t].brport
           list == idList[<<g, b>>]
<1>1. g \in Stg /\ b \in Brport
  BY DEF IInv, TypesOK, ThreadOK, UncachePC
<1>2. list \in Seq(StpOid) /\ Len(list) \in {0, 1}
  BY <1>1 DEF IInv, TypesOK, IdInv
<1>3. CASE Len(list) = 0
  BY <1>3 DEF Lookup, Indexed
<1>4. CASE Len(list) = 1
  <2>1. list[1] \in StpOid /\ Indexed(list[1], g, b) /\ Lookup(g, b) = list[1]
    BY <1>2, <1>4 DEF Indexed, Lookup
  <2>2. \A x \in StpOid : ~ Live(x, g, b)
    BY DEF IInv, OneStp, UncachePC
  <2>3. stp[list[1]] = Null
    BY <1>1, <2>1, <2>2 DEF IInv, IdInv
  <2>4. \A x \in StpOid : Indexed(x, g, b) => x = list[1]
    BY <1>2, <1>4 DEF Indexed
  <2> HIDE DEF g, b, list
  <2> QED BY <2>1, <2>3, <2>4 DEF g, b
<1> QED BY <1>2, <1>3, <1>4

\* The lists when t knows what to take from them.
LEMMA UncacheGetLists ==
    ASSUME StgAssumption, Orderly, IInv, NEW t \in Thread, OnlyMoves(t), th[t].pc = "uncache_get",
           th'[t].pc = "uncache_id", th'[t].oid = Lookup(th[t].stg, th[t].brport),
           th'[t].stg = th[t].stg, th'[t].brport = th[t].brport,
           UNCHANGED <<stp, defaultStg, idList, portList>>
    PROVE  CachingInv' /\ OneStp' /\ IdInv' /\ PortInv'
<1> DEFINE g == th[t].stg
           b == th[t].brport
<1>1. /\ th'[t].oid # Null => stp[th'[t].oid] = Null
      /\ \A x \in StpOid : Indexed(x, g, b) => x = th'[t].oid
  BY Found
<1>2. /\ th[t].pc \notin CachePC \cup BootPC /\ th[t].pc \in UncachePC
      /\ th'[t].pc \notin CachePC \cup BootPC /\ th'[t].pc \in UncachePC
  BY DEF CachePC, BootPC, UncachePC
<1>3. \A x \in StpOid : (PendId(x)' <=> PendId(x)) /\ (PendPort(x)' <=> PendPort(x))
  BY <1>2, PendingKept
<1>4. \A x, h, c : /\ Live(x, h, c)' <=> Live(x, h, c)
                   /\ Indexed(x, h, c)' <=> Indexed(x, h, c)
                   /\ Listed(x, h, c)' <=> Listed(x, h, c)
  BY DEF Live, Indexed, Listed
<1>5. \A u \in Thread : u # t => th'[u] = th[u] /\ \A x, h, c : Victim(u, x, h, c) => Victim(u, x, h, c)'
  BY DEF OnlyMoves, Victim
<1>6. \A x, h, c : Victim(t, x, h, c) => h = g /\ c = b
  BY DEF Victim
<1>7. \A x \in StpOid : Indexed(x, g, b) => Victim(t, x, g, b)'
  BY <1>1 DEF Victim
<1>8. CachingInv'
  BY <1>2, <1>5 DEF CachingInv, Live, IInv
<1>9. OneStp'
  <2>1. \A u \in Thread : /\ (th'[u].pc \in UncachePC) <=> (th[u].pc \in UncachePC)
                          /\ th'[u].stg = th[u].stg /\ th'[u].brport = th[u].brport
                          /\ u # t => th'[u].oid = th[u].oid
    BY <1>2, <1>5
  <2>2. OneStp
    BY DEF IInv
  <2> QED BY <1>1, <2>1, <2>2 DEF OneStp, Live
<1>10. IdInv'
  <2> SUFFICES ASSUME NEW h \in Stg, NEW c \in Brport
               PROVE  /\ Len(idList'[<<h, c>>]) \in {0, 1}
                      /\ \A x \in StpOid : Live(x, h, c)' => (Indexed(x, h, c)' <=> ~ PendId(x)')
                      /\ \A x \in StpOid : Indexed(x, h, c)' =>
                            \/ Live(x, h, c)'
                            \/ stp'[x] = Null /\ \E u \in Thread :
                                  Victim(u, x, h, c)' /\ th'[u].pc # "uncache_port"
    BY DEF IdInv
  <2>1. /\ Len(idList[<<h, c>>]) \in {0, 1}
        /\ \A x \in StpOid : Live(x, h, c) => (Indexed(x, h, c) <=> ~ PendId(x))
        /\ \A x \in StpOid : Indexed(x, h, c) =>
              \/ Live(x, h, c)
              \/ stp[x] = Null /\ \E u \in Thread : Victim(u, x, h, c) /\ th[u].pc # "uncache_port"
    BY DEF IInv, IdInv
  <2> QED BY <1>3, <1>4, <1>5, <1>6, <1>7, <2>1
<1>11. PortInv'
  <2> SUFFICES ASSUME NEW c \in Brport
               PROVE  /\ OneEach(portList'[c])
                      /\ \A h \in Stg, x \in StpOid : Live(x, h, c)' => (Listed(x, h, c)' <=> ~ PendPort(x)')
                      /\ \A h \in Stg, x \in StpOid : Listed(x, h, c)' =>
                            \/ Live(x, h, c)'
                            \/ stp'[x] = Null /\ \E u \in Thread :
                                  Victim(u, x, h, c)' /\ (th'[u].pc = "uncache_get" => Indexed(x, h, c)')
    BY DEF PortInv
  <2>1. /\ OneEach(portList[c])
        /\ \A h \in Stg, x \in StpOid : Live(x, h, c) => (Listed(x, h, c) <=> ~ PendPort(x))
        /\ \A h \in Stg, x \in StpOid : Listed(x, h, c) =>
              \/ Live(x, h, c)
              \/ stp[x] = Null /\ \E u \in Thread :
                    Victim(u, x, h, c) /\ (th[u].pc = "uncache_get" => Indexed(x, h, c))
    BY DEF IInv, PortInv
  <2> QED BY <1>3, <1>4, <1>5, <1>6, <1>7, <2>1
<1> QED BY <1>8, <1>9, <1>10, <1>11

\* ... when the first list's entry is gone ...
LEMMA UncacheIdLists ==
    ASSUME StgAssumption, Orderly, IInv, NEW t \in Thread, OnlyMoves(t), th[t].pc = "uncache_id",
           th'[t].pc = "uncache_port", th'[t].oid = th[t].oid,
           th'[t].stg = th[t].stg, th'[t].brport = th[t].brport,
           idList' = [idList EXCEPT ![<<th[t].stg, th[t].brport>>] = <<>>],
           UNCHANGED <<stp, defaultStg, portList>>
    PROVE  /\ idList' \in [Stg \X Brport -> Seq(StpOid)]
           /\ CachingInv' /\ OneStp' /\ IdInv' /\ PortInv'
<1> DEFINE g == th[t].stg
           b == th[t].brport
<1>1. g \in Stg /\ b \in Brport
  BY DEF IInv, TypesOK, ThreadOK, UncachePC
<1>2. /\ th[t].pc \notin CachePC \cup BootPC /\ th[t].pc \in UncachePC
      /\ th'[t].pc \notin CachePC \cup BootPC /\ th'[t].pc \in UncachePC
  BY DEF CachePC, BootPC, UncachePC
<1>3. \A x \in StpOid : (PendId(x)' <=> PendId(x)) /\ (PendPort(x)' <=> PendPort(x))
  BY <1>2, PendingKept
<1>4. /\ idList'[<<g, b>>] = <<>>
      /\ \A h \in Stg, c \in Brport : <<h, c>> # <<g, b>> => idList'[<<h, c>>] = idList[<<h, c>>]
      /\ idList' \in [Stg \X Brport -> Seq(StpOid)]
  <2>1. idList \in [Stg \X Brport -> Seq(StpOid)] /\ <<g, b>> \in Stg \X Brport /\ <<>> \in Seq(StpOid)
    BY <1>1 DEF IInv, TypesOK
  <2> HIDE DEF g, b
  <2> QED BY <2>1 DEF g, b
<1>5. \A x, h, c : (Live(x, h, c)' <=> Live(x, h, c)) /\ (Listed(x, h, c)' <=> Listed(x, h, c))
  BY DEF Live, Listed
<1>6. /\ \A x : ~ Indexed(x, g, b)'
      /\ \A x : \A h \in Stg, c \in Brport : ~ (h = g /\ c = b) => (Indexed(x, h, c)' <=> Indexed(x, h, c))
  BY <1>1, <1>4 DEF Indexed
<1>7. \A u \in Thread : u # t => th'[u] = th[u] /\ \A x, h, c : Victim(u, x, h, c) => Victim(u, x, h, c)'
  BY DEF OnlyMoves, Victim
<1>8. \A x, h, c : Victim(t, x, h, c) => h = g /\ c = b /\ Victim(t, x, h, c)'
  BY DEF Victim
<1>9. \A u \in Thread : \A x : Victim(u, x, g, b) => u = t
  BY <1>2 DEF Victim, UncachePC, IInv, OneStp
<1>10. \A x \in StpOid : ~ Live(x, g, b)
  BY <1>2 DEF IInv, OneStp
<1>11. CachingInv'
  BY <1>2, <1>7 DEF CachingInv, Live, IInv
<1>12. OneStp'
  <2>1. \A u \in Thread : /\ (th'[u].pc \in UncachePC) <=> (th[u].pc \in UncachePC)
                          /\ th'[u].stg = th[u].stg /\ th'[u].brport = th[u].brport
                          /\ th'[u].oid = th[u].oid
    BY <1>2, <1>7
  <2>2. OneStp
    BY DEF IInv
  <2> QED BY <2>1, <2>2 DEF OneStp, Live
<1>13. IdInv'
  <2> SUFFICES ASSUME NEW h \in Stg, NEW c \in Brport
               PROVE  /\ Len(idList'[<<h, c>>]) \in {0, 1}
                      /\ \A x \in StpOid : Live(x, h, c)' => (Indexed(x, h, c)' <=> ~ PendId(x)')
                      /\ \A x \in StpOid : Indexed(x, h, c)' =>
                            \/ Live(x, h, c)'
                            \/ stp'[x] = Null /\ \E u \in Thread :
                                  Victim(u, x, h, c)' /\ th'[u].pc # "uncache_port"
    BY DEF IdInv
  <2>1. /\ Len(idList[<<h, c>>]) \in {0, 1}
        /\ \A x \in StpOid : Live(x, h, c) => (Indexed(x, h, c) <=> ~ PendId(x))
        /\ \A x \in StpOid : Indexed(x, h, c) =>
              \/ Live(x, h, c)
              \/ stp[x] = Null /\ \E u \in Thread : Victim(u, x, h, c) /\ th[u].pc # "uncache_port"
    BY DEF IInv, IdInv
  <2>2. CASE h = g /\ c = b
    BY <1>4, <1>5, <1>6, <1>10, <2>2
  <2>3. CASE ~ (h = g /\ c = b)
    BY <1>3, <1>4, <1>5, <1>6, <1>7, <1>8, <2>1, <2>3
  <2> QED BY <2>2, <2>3
<1>14. PortInv'
  <2> SUFFICES ASSUME NEW c \in Brport
               PROVE  /\ OneEach(portList'[c])
                      /\ \A h \in Stg, x \in StpOid : Live(x, h, c)' => (Listed(x, h, c)' <=> ~ PendPort(x)')
                      /\ \A h \in Stg, x \in StpOid : Listed(x, h, c)' =>
                            \/ Live(x, h, c)'
                            \/ stp'[x] = Null /\ \E u \in Thread :
                                  Victim(u, x, h, c)' /\ (th'[u].pc = "uncache_get" => Indexed(x, h, c)')
    BY DEF PortInv
  <2>1. /\ OneEach(portList[c])
        /\ \A h \in Stg, x \in StpOid : Live(x, h, c) => (Listed(x, h, c) <=> ~ PendPort(x))
        /\ \A h \in Stg, x \in StpOid : Listed(x, h, c) =>
              \/ Live(x, h, c)
              \/ stp[x] = Null /\ \E u \in Thread :
                    Victim(u, x, h, c) /\ (th[u].pc = "uncache_get" => Indexed(x, h, c))
    BY DEF IInv, PortInv
  <2>2. ASSUME NEW h \in Stg, NEW x \in StpOid, Listed(x, h, c)
        PROVE  \/ Live(x, h, c)'
               \/ stp'[x] = Null /\ \E u \in Thread :
                     Victim(u, x, h, c)' /\ (th'[u].pc = "uncache_get" => Indexed(x, h, c)')
    <3>1. CASE Live(x, h, c)
      BY <1>5, <3>1
    <3>2. CASE ~ Live(x, h, c)
      <4>1. PICK u \in Thread : Victim(u, x, h, c) /\ (th[u].pc = "uncache_get" => Indexed(x, h, c))
        BY <2>1, <2>2, <3>2
      <4>2. stp'[x] = Null
        BY <2>1, <2>2, <3>2
      <4>3. CASE u = t
        BY <1>8, <4>1, <4>2, <4>3
      <4>4. CASE u # t
        BY <1>6, <1>7, <1>9, <4>1, <4>2, <4>4
      <4> QED BY <4>3, <4>4
    <3> QED BY <3>1, <3>2
  <2> QED BY <1>3, <1>5, <2>1, <2>2
<1> QED BY <1>4, <1>11, <1>12, <1>13, <1>14

\* ... and when the second's is.
LEMMA UncachePortLists ==
    ASSUME StgAssumption, Orderly, IInv, NEW t \in Thread, OnlyMoves(t), th[t].pc = "uncache_port",
           th'[t].pc \in {"del_stp", "stg_attr"},
           portList' = [portList EXCEPT ![th[t].brport] = Without(@, th[t].oid)],
           UNCHANGED <<stp, defaultStg, idList>>
    PROVE  /\ portList' \in [Brport -> Seq(StpOid \X Stg)]
           /\ \A c \in Brport : Len(portList'[c]) <= Len(portList[c])
           /\ CachingInv' /\ OneStp' /\ IdInv' /\ PortInv'
<1> DEFINE g == th[t].stg
           b == th[t].brport
           o == th[t].oid
           list == portList[b]
<1>1. g \in Stg /\ b \in Brport /\ list \in Seq(StpOid \X Stg) /\ portList \in [Brport -> Seq(StpOid \X Stg)]
  BY DEF IInv, TypesOK, ThreadOK, UncachePC
<1>2. /\ th[t].pc \notin CachePC \cup BootPC /\ th[t].pc \in UncachePC
      /\ th'[t].pc \notin CachePC \cup BootPC \cup UncachePC
  BY DEF CachePC, BootPC, UncachePC
<1>3. \A x \in StpOid : (PendId(x)' <=> PendId(x)) /\ (PendPort(x)' <=> PendPort(x))
  BY <1>2, PendingKept
<1>4. /\ Without(list, o) \in Seq(StpOid \X Stg) /\ Len(Without(list, o)) <= Len(list)
      /\ \A e : (\E i \in 1 .. Len(Without(list, o)) : Without(list, o)[i] = e)
                <=> (e[1] # o /\ \E i \in 1 .. Len(list) : list[i] = e)
      /\ OneEach(list) => OneEach(Without(list, o))
  <2> DEFINE S == StpOid \X Stg
  <2>1. ASSUME NEW l \in Seq(S), NEW x
        PROVE  /\ Without(l, x) \in Seq(S) /\ Len(Without(l, x)) <= Len(l)
               /\ \A e : (\E i \in 1 .. Len(Without(l, x)) : Without(l, x)[i] = e)
                        <=> (e[1] # x /\ \E i \in 1 .. Len(l) : l[i] = e)
               /\ OneEach(l) => OneEach(Without(l, x))
    <3> HIDE DEF S
    <3> QED BY WithoutFacts
  <2>2. list \in Seq(S)
    BY <1>1
  <2> HIDE DEF list, o, S
  <2>3. /\ Without(list, o) \in Seq(S) /\ Len(Without(list, o)) <= Len(list)
        /\ \A e : (\E i \in 1 .. Len(Without(list, o)) : Without(list, o)[i] = e)
                <=> (e[1] # o /\ \E i \in 1 .. Len(list) : list[i] = e)
        /\ OneEach(list) => OneEach(Without(list, o))
    BY <2>1, <2>2
  <2> QED BY <2>3 DEF S
<1>5. /\ portList'[b] = Without(list, o) /\ portList' \in [Brport -> Seq(StpOid \X Stg)]
      /\ \A c \in Brport : c # b => portList'[c] = portList[c]
  <2> HIDE DEF b, o
  <2> QED BY <1>1, <1>4 DEF b, o
<1>6. \A x, h, c : (Live(x, h, c)' <=> Live(x, h, c)) /\ (Indexed(x, h, c)' <=> Indexed(x, h, c))
  BY DEF Live, Indexed
<1>7. \A c \in Brport : \A x, h : Listed(x, h, c)' <=> (Listed(x, h, c) /\ ~ (c = b /\ x = o))
  <2> SUFFICES ASSUME NEW c \in Brport, NEW x, NEW h
               PROVE  Listed(x, h, c)' <=> (Listed(x, h, c) /\ ~ (c = b /\ x = o))
    OBVIOUS
  <2>1. CASE c = b
    <3>1. <<x, h>>[1] = x
      OBVIOUS
    <3>2. (\E i \in 1 .. Len(Without(list, o)) : Without(list, o)[i] = <<x, h>>)
            <=> (x # o /\ \E i \in 1 .. Len(list) : list[i] = <<x, h>>)
      <4> HIDE DEF list, o
      <4> QED BY <1>4, <3>1
    <3>3. Listed(x, h, b) <=> \E i \in 1 .. Len(list) : list[i] = <<x, h>>
      BY DEF Listed
    <3>4. Listed(x, h, c)' <=> \E i \in 1 .. Len(Without(list, o)) : Without(list, o)[i] = <<x, h>>
      BY <1>5, <2>1 DEF Listed
    <3> QED BY <2>1, <3>2, <3>3, <3>4
  <2>2. CASE c # b
    BY <1>5, <2>2 DEF Listed
  <2> QED BY <2>1, <2>2
<1>9. \A u \in Thread : u # t => th'[u] = th[u] /\ \A x, h, c : Victim(u, x, h, c) => Victim(u, x, h, c)'
  BY DEF OnlyMoves, Victim
<1>10. \A x, h, c : Victim(t, x, h, c) => c = b /\ x = o
  BY DEF Victim
<1>11. \A x \in StpOid : stp[x] # Null => x # o
  <2>1. o # Null => stp[o] = Null
    BY <1>2 DEF IInv, OneStp
  <2> QED BY <2>1, StgAssumption
<1>12. CachingInv'
  <2>1. ASSUME NEW u \in Thread, th'[u].pc \in CachePC
        PROVE  stp'[th'[u].oid] = <<th'[u].stg, th'[u].brport>>
    <3>1. u # t
      BY <1>2, <2>1
    <3>2. th'[u] = th[u]
      BY <1>9, <3>1
    <3>3. stp[th[u].oid] = <<th[u].stg, th[u].brport>>
      BY <2>1, <3>2 DEF IInv, CachingInv, Live
    <3> QED BY <3>2, <3>3
  <2> QED BY <2>1 DEF CachingInv, Live
<1>13. OneStp'
  <2>1. \A u \in Thread : th'[u].pc \in UncachePC => th'[u] = th[u]
    BY <1>2, <1>9
  <2>2. OneStp
    BY DEF IInv
  <2> QED BY <2>1, <2>2 DEF OneStp, Live
<1>14. IdInv'
  <2> SUFFICES ASSUME NEW h \in Stg, NEW c \in Brport
               PROVE  /\ Len(idList'[<<h, c>>]) \in {0, 1}
                      /\ \A x \in StpOid : Live(x, h, c)' => (Indexed(x, h, c)' <=> ~ PendId(x)')
                      /\ \A x \in StpOid : Indexed(x, h, c)' =>
                            \/ Live(x, h, c)'
                            \/ stp'[x] = Null /\ \E u \in Thread :
                                  Victim(u, x, h, c)' /\ th'[u].pc # "uncache_port"
    BY DEF IdInv
  <2>1. /\ Len(idList[<<h, c>>]) \in {0, 1}
        /\ \A x \in StpOid : Live(x, h, c) => (Indexed(x, h, c) <=> ~ PendId(x))
        /\ \A x \in StpOid : Indexed(x, h, c) =>
              \/ Live(x, h, c)
              \/ stp[x] = Null /\ \E u \in Thread : Victim(u, x, h, c) /\ th[u].pc # "uncache_port"
    BY DEF IInv, IdInv
  <2> QED BY <1>3, <1>6, <1>9, <2>1
<1>15. PortInv'
  <2> SUFFICES ASSUME NEW c \in Brport
               PROVE  /\ OneEach(portList'[c])
                      /\ \A h \in Stg, x \in StpOid : Live(x, h, c)' => (Listed(x, h, c)' <=> ~ PendPort(x)')
                      /\ \A h \in Stg, x \in StpOid : Listed(x, h, c)' =>
                            \/ Live(x, h, c)'
                            \/ stp'[x] = Null /\ \E u \in Thread :
                                  Victim(u, x, h, c)' /\ (th'[u].pc = "uncache_get" => Indexed(x, h, c)')
    BY DEF PortInv
  <2>1. /\ OneEach(portList[c])
        /\ \A h \in Stg, x \in StpOid : Live(x, h, c) => (Listed(x, h, c) <=> ~ PendPort(x))
        /\ \A h \in Stg, x \in StpOid : Listed(x, h, c) =>
              \/ Live(x, h, c)
              \/ stp[x] = Null /\ \E u \in Thread :
                    Victim(u, x, h, c) /\ (th[u].pc = "uncache_get" => Indexed(x, h, c))
    BY DEF IInv, PortInv
  <2>2. OneEach(portList'[c])
    BY <1>4, <1>5, <2>1
  <2>3. \A x \in StpOid : \A h \in Stg : Live(x, h, c) => x # o
    BY <1>11, NullAssumption, SMTT(30) DEF Live
  <2> QED BY <1>3, <1>6, <1>7, <1>9, <1>10, <2>1, <2>2, <2>3
<1>16. ASSUME NEW c \in Brport
       PROVE  Len(portList'[c]) <= Len(portList[c])
  <2>1. CASE c = b
    BY <1>4, <1>5, <2>1
  <2>2. CASE c # b
    <3>1. portList[c] \in Seq(StpOid \X Stg)
      BY <1>1
    <3> QED BY <1>5, <2>2, <3>1
  <2> QED BY <2>1, <2>2
<1> QED BY <1>5, <1>12, <1>13, <1>14, <1>15, <1>16

LEMMA StpRemovedStep ==
    ASSUME StgAssumption, Orderly, IInv, NEW t \in Porter, NEW e \in th[t].todo,
           StpRemoved(t, e)
    PROVE  IInv'
<1> USE StgAssumption
<1> DEFINE r == [th[t] EXCEPT !.todo = @ \ {e}, !.pc = "uncache_get", !.stg = e[2]]
<1>1. /\ t \in Thread /\ t \in Porter /\ t \notin Setter /\ th[t].pc = "del_stp" /\ th[t] \in ThreadRec
      /\ UNCHANGED <<stgs, brports, brCache, defaultStg, idList, portList, mutex, hurt>>
      /\ stp' = [stp EXCEPT ![e[1]] = Null]
      /\ th[t].brport \in Brport /\ th[t].oid = Null /\ e[1] \in StpOid /\ e[2] \in Stg
      /\ stp[e[1]] # Null /\ stp[e[1]] = <<e[2], th[t].brport>>
      /\ th' = [th EXCEPT ![t] = r]
  <2>1. t \in Thread /\ t \notin Setter /\ th[t].pc = "del_stp" /\ stp[e[1]] # Null
    BY Threads DEF StpRemoved
  <2>2. th[t] \in ThreadRec /\ ThreadOK(t)
    BY <2>1 DEF IInv, TypesOK
  <2>3. e[1] # Null /\ stp[e[1]] \in {Null, <<e[2], th[t].brport>>}
    BY <2>1 DEF IInv, DeletionInv
  <2>4. e \in (StpOid \cup {Null}) \X Stg
    BY <2>2 DEF ThreadRec
  <2>5. th[t].brport \in Brport /\ th[t].oid = Null
    BY <2>1, <2>2 DEF ThreadOK, DelPC
  <2> QED BY <2>1, <2>2, <2>3, <2>4, <2>5 DEF StpRemoved, Step, lists
<1>2. OnlyMoves(t) /\ th'[t] = r
  BY <1>1, Moves DEF IInv, Step
<1>3. /\ th'[t].pc = "uncache_get" /\ th'[t].stg = e[2] /\ th'[t].todo = th[t].todo \ {e}
      /\ th'[t].port = th[t].port /\ th'[t].brport = th[t].brport /\ th'[t].oid = th[t].oid
  BY <1>1, <1>2 DEF Idle, IInv, TypesOK, ThreadRec
<1>4. th'[t] \in ThreadRec
  <2>1. "uncache_get" \in PCs /\ th[t] \in ThreadRec /\ e[2] \in Stg
    BY <1>1 DEF PCs, SharedPC
  <2>2. r \in ThreadRec
    BY <2>1 DEF ThreadRec
  <2> QED BY <1>2, <2>2
<1>5. CachingInv' /\ OneStp' /\ IdInv' /\ PortInv'
  <2> DEFINE s == e[1]
             g == e[2]
             b == th[t].brport
  <2>1. /\ s \in StpOid /\ g \in Stg /\ b \in Brport /\ stp[s] = <<g, b>>
        /\ stp' = [stp EXCEPT ![s] = Null] /\ UNCHANGED <<defaultStg, idList, portList>>
    BY <1>1
  <2>2. /\ th'[t].pc = "uncache_get" /\ th'[t].stg = g /\ th'[t].brport = b
        /\ \/ t \in Porter /\ th[t].pc = "del_stp" /\ th'[t].oid = Null
           \/ t \in Setter /\ th[t].pc = "stg_stp" /\ th'[t].oid = s /\ g # DefaultStg
    BY <1>1, <1>3
  <2>3. t \in Thread
    BY <1>1
  <2>4. OnlyMoves(t)
    BY <1>2
  <2> HIDE DEF s, g, b
  <2> QED BY <2>1, <2>2, <2>3, <2>4, RemovalLists
<1>6. TypesOK'
  <2>0. ThreadOK(t)
    BY <1>1 DEF IInv, TypesOK
  <2>1. ThreadOK(t)'
    BY <1>1, <1>3, <2>0 DEF ThreadOK, SharedPC, SetterPC, PorterPC, NewPC, UncachePC, DelPC, CachePC, BootPC
  <2>2. stp' \in [StpOid -> {Null} \cup (Stg \X Brport)]
    BY <1>1 DEF IInv, TypesOK
  <2> QED BY <1>1, <1>2, <1>4, <2>1, <2>2, QuietTypes DEF TypesOK, IInv
<1>7. MutexInv'
  <2>1. \A u \in Thread : Holds(u)' <=> Holds(u)
    BY <1>1, <1>2, <1>3, Threads DEF OnlyMoves, Holds, UncachePC
  <2> QED BY <1>1, <2>1 DEF MutexInv, IInv
<1>8. BrportInv'
  <2>1. \A x \in StpOid : stp'[x] # Null => stp'[x] = stp[x]
    BY <1>1 DEF IInv, TypesOK
  <2> QED BY <1>1, <1>2, <1>3, <2>1 DEF BrportInv, IInv, OnlyMoves, Thread, DelPC, UncachePC
<1>9. NewsInv'
  <2> SUFFICES ASSUME NEW u \in Porter, th'[u].pc \in NewPC
               PROVE  NewInv(u)'
    BY DEF NewsInv
  <2>1. u # t /\ u \in Thread /\ th'[u] = th[u] /\ NewInv(u)
    BY <1>1, <1>2, <1>3, Threads DEF NewPC, OnlyMoves, NewsInv, IInv
  <2>2. \A v \in Thread : th'[v].brport = th[v].brport
    BY <1>2, <1>3 DEF OnlyMoves
  <2>3. \A c : OnBrport(c)' \subseteq OnBrport(c) /\ \A x \in OnBrport(c)' : stp'[x] = stp[x]
    BY <1>1 DEF OnBrport, IInv, TypesOK
  <2> QED BY <1>1, <2>1, <2>2, <2>3 DEF NewInv
<1>10. SetterInv'
  <2>1. \A x \in StpOid : stp'[x] \in {stp[x], Null}
    BY <1>1 DEF IInv, TypesOK
  <2>2. ASSUME NEW u \in Setter, th'[u].pc \in {"stg_attr", "stg_stp"} \cup UncachePC
        PROVE  DeletesInv(u)'
    <3>1. u \in Thread /\ th[u] \in ThreadRec /\ ThreadOK(u) /\ DeletesInv(u) /\ (u # t => th'[u] = th[u])
      BY <1>1, <1>2, <1>3, <2>2, Threads DEF IInv, TypesOK, SetterInv, OnlyMoves, Orderly
    <3>2. \A d \in th[u].todo : d[1] # Null => stp'[d[1]] \in {stp[d[1]], Null}
      BY <2>1, <3>1 DEF ThreadRec
    <3>3. th[u].pc = "stg_stp" => stp'[th[u].oid] \in {stp[th[u].oid], Null}
      BY <2>1, <3>1 DEF ThreadOK
    <3> QED BY <1>1, <1>3, <3>1, <3>2, <3>3 DEF DeletesInv
  <2>3. \A u \in Setter : th'[u] = th[u]
    BY <1>1, <1>2, Threads DEF OnlyMoves
  <2>4. \A u \in Setter : th[u].pc = "set_create" =>
            \A x \in StpOid : stp'[x] # <<th[u].stg, th[u].brport>>
    <3> SUFFICES ASSUME NEW u \in Setter, th[u].pc = "set_create", NEW x \in StpOid
                 PROVE  stp'[x] # <<th[u].stg, th[u].brport>>
      OBVIOUS
    <3>1. th[u].stg \in Stg /\ th[u].brport \in Brport
      BY Threads DEF IInv, TypesOK, ThreadOK
    <3>2. stp[x] # <<th[u].stg, th[u].brport>>
      BY DEF IInv, SetterInv, Live
    <3> QED BY <2>1, <3>1, <3>2, NullAssumption, SMTT(30)
  <2> QED BY <1>1, <2>2, <2>3, <2>4 DEF SetterInv, IInv, Live
<1>11. BootInv'
  <2>1. \A u \in Setter : th'[u].pc \notin BootPC
    BY <1>1, <1>2, Threads DEF OnlyMoves, BootInv, IInv
  <2>2. defaultStg # Null
    BY <1>1 DEF BootInv, IInv
  <2> QED BY <1>1, <2>1, <2>2 DEF BootInv
<1>12. DeletionInv'
  <2>1. \A c : OnBrport(c)' \subseteq OnBrport(c) /\ \A x \in OnBrport(c)' : stp'[x] = stp[x]
    BY <1>1 DEF OnBrport, IInv, TypesOK
  <2>2. \A u \in Porter : u # t => th[u].pc \notin {"del_list", "del_stp", "del_brport"} \cup UncachePC
    BY <1>1, Threads DEF IInv, MutexInv, Holds, UncachePC
  <2>3. \A u \in Porter : u # t => th'[u].pc \notin {"del_list", "del_stp", "del_brport"} \cup UncachePC
    BY <1>2, <2>2, Threads DEF OnlyMoves
  <2>4. \A f \in th'[t].todo : f[1] # Null /\ stp'[f[1]] \in {Null, <<f[2], th'[t].brport>>}
    <3> SUFFICES ASSUME NEW f \in th'[t].todo
                 PROVE  f[1] # Null /\ stp'[f[1]] \in {Null, <<f[2], th[t].brport>>}
      BY <1>3
    <3>1. f \in th[t].todo
      BY <1>3
    <3>2. f[1] # Null /\ f[1] \in StpOid /\ stp[f[1]] \in {Null, <<f[2], th[t].brport>>}
      BY <1>1, <3>1 DEF IInv, DeletionInv, ThreadRec
    <3>3. stp'[f[1]] \in {stp[f[1]], Null}
      BY <1>1, <3>2 DEF IInv, TypesOK
    <3> QED BY <3>2, <3>3
  <2>5. ASSUME th[t].brport \notin hurt, NEW x \in OnBrport(th[t].brport)'
        PROVE  <<x, stp'[x][1]>> \in th'[t].todo
    <3>1. x \in OnBrport(th[t].brport) /\ stp'[x] = stp[x] /\ stp'[x] # Null /\ x \in StpOid
      BY <1>3, <2>1, <2>5 DEF OnBrport
    <3>2. x # e[1]
      BY <1>1, <3>1 DEF IInv, TypesOK
    <3>3. <<x, stp[x][1]>> \in th[t].todo
      BY <1>1, <2>5, <3>1 DEF IInv, DeletionInv
    <3>4. <<x, stp[x][1]>> # e
      BY <3>2
    <3> QED BY <1>3, <3>1, <3>3, <3>4
  <2>6. th'[t].pc \notin {"del_list", "del_brport"}
    BY <1>3
  <2> QED BY <1>1, <1>3, <2>3, <2>4, <2>5, <2>6 DEF DeletionInv
<1>13. DefaultInv'
  <2>1. \A c \in Brport : c # th[t].brport => OnBrport(c)' = OnBrport(c) /\ \A x \in OnBrport(c) : stp'[x] = stp[x]
    BY <1>1 DEF OnBrport, IInv, TypesOK
  <2>2. \A c \in Brport : c # th[t].brport /\ InStg(DefaultStg) \cap OnBrport(c) # {}
                        => (InStg(DefaultStg) \cap OnBrport(c))' # {}
    BY <2>1 DEF InStg, OnBrport
  <2>3. \A u \in Porter : th'[u].brport = th[u].brport /\ (th'[u].pc = "new_cache" => th[u].pc = "new_cache")
    BY <1>2, <1>3, Threads DEF OnlyMoves
  <2>4. \A u \in Porter : th[u].pc = "new_cache" => th[u].brport # th[t].brport /\ th[u].brport \in Brport
    BY <1>1, Threads DEF NewPC, NewsInv, NewInv, IInv, TypesOK, ThreadOK
  <2>5. \A p \in Port : brCache[p] \in Brport \cup {Null}
    BY DEF IInv, TypesOK
  <2>6. InDefaultStg'
    <3> SUFFICES ASSUME NEW p \in Port, brCache[p] # Null, brCache[p] \notin hurt,
                        \A u \in Porter : th[u].brport # brCache[p]
                 PROVE  (InStg(DefaultStg) \cap OnBrport(brCache[p]))' # {}
      BY <1>1, <2>3 DEF InDefaultStg
    <3>1. brCache[p] \in Brport /\ brCache[p] # th[t].brport
      BY <1>1, <2>5
    <3>2. InStg(DefaultStg) \cap OnBrport(brCache[p]) # {}
      BY DEF IInv, DefaultInv, InDefaultStg
    <3> QED BY <1>1, <2>2, <3>1, <3>2
  <2> QED BY <2>2, <2>3, <2>4, <2>6 DEF DefaultInv, IInv
<1> QED BY <1>5, <1>6, <1>7, <1>8, <1>9, <1>10, <1>11, <1>12, <1>13 DEF IInv

\* remove_stp_port has removed it.
StgStpDone(t) ==
    /\ th[t].pc = "stg_stp" /\ stp[th[t].oid] # Null
    /\ stp' = [stp EXCEPT ![th[t].oid] = Null]
    /\ Step(t, [th[t] EXCEPT !.pc = "uncache_get"])
    /\ UNCHANGED <<stgs, brports, brCache, defaultStg, lists, mutex, hurt>>

LEMMA StgStpSplits ==
    ASSUME NEW t, StgStp(t)
    PROVE  StgStpDone(t) \/ GivesUp(t)
  BY DEF StgStp, StgStpDone, GivesUp, Goto, Step, Return, Rest, lists

LEMMA StgStpDoneStep ==
    ASSUME StgAssumption, Orderly, IInv, NEW t \in Setter,
           StgStpDone(t)
    PROVE  IInv'
<1> USE StgAssumption
<1> DEFINE r == [th[t] EXCEPT !.pc = "uncache_get"]
<1>1. /\ t \in Thread /\ t \in Setter /\ t \notin Porter /\ th[t].pc = "stg_stp" /\ th[t] \in ThreadRec
      /\ UNCHANGED <<stgs, brports, brCache, defaultStg, idList, portList, mutex, hurt>>
      /\ stp' = [stp EXCEPT ![th[t].oid] = Null]
      /\ th[t].brport \in Brport /\ th[t].oid \in StpOid /\ th[t].stg \in Stg
      /\ stp[th[t].oid] # Null /\ stp[th[t].oid] = <<th[t].stg, th[t].brport>>
      /\ th[t].stg # DefaultStg /\ DeletesInv(t)
      /\ th' = [th EXCEPT ![t] = r]
  <2>1. t \in Thread /\ t \notin Porter /\ th[t].pc = "stg_stp" /\ stp[th[t].oid] # Null
    BY Threads DEF StgStpDone
  <2>2. th[t] \in ThreadRec /\ ThreadOK(t)
    BY <2>1 DEF IInv, TypesOK
  <2>3. DeletesInv(t)
    BY <2>1 DEF IInv, SetterInv
  <2>4. /\ th[t].brport \in Brport /\ th[t].oid \in StpOid /\ th[t].stg \in Stg
        /\ stp[th[t].oid] = <<th[t].stg, th[t].brport>> /\ th[t].stg # DefaultStg
    BY <2>1, <2>2, <2>3 DEF ThreadOK, DeletesInv
  <2> QED BY <2>1, <2>2, <2>3, <2>4 DEF StgStpDone, Step, lists
<1>2. OnlyMoves(t) /\ th'[t] = r
  BY <1>1, Moves DEF IInv, Step
<1>3. /\ th'[t].pc = "uncache_get" /\ th'[t].stg = th[t].stg /\ th'[t].todo = th[t].todo
      /\ th'[t].port = th[t].port /\ th'[t].brport = th[t].brport /\ th'[t].oid = th[t].oid
      /\ th'[t].inst = th[t].inst
  BY <1>1, <1>2 DEF Idle, IInv, TypesOK, ThreadRec
<1>4. th'[t] \in ThreadRec
  <2>1. "uncache_get" \in PCs /\ th[t] \in ThreadRec
    BY <1>1 DEF PCs, SharedPC
  <2>2. r \in ThreadRec
    BY <2>1 DEF ThreadRec
  <2> QED BY <1>2, <2>2
<1>5. CachingInv' /\ OneStp' /\ IdInv' /\ PortInv'
  <2> DEFINE s == th[t].oid
             g == th[t].stg
             b == th[t].brport
  <2>1. /\ s \in StpOid /\ g \in Stg /\ b \in Brport /\ stp[s] = <<g, b>>
        /\ stp' = [stp EXCEPT ![s] = Null] /\ UNCHANGED <<defaultStg, idList, portList>>
    BY <1>1
  <2>2. /\ th'[t].pc = "uncache_get" /\ th'[t].stg = g /\ th'[t].brport = b
        /\ \/ t \in Porter /\ th[t].pc = "del_stp" /\ th'[t].oid = Null
           \/ t \in Setter /\ th[t].pc = "stg_stp" /\ th'[t].oid = s /\ g # DefaultStg
    BY <1>1, <1>3
  <2>3. t \in Thread
    BY <1>1
  <2>4. OnlyMoves(t)
    BY <1>2
  <2> HIDE DEF s, g, b
  <2> QED BY <2>1, <2>2, <2>3, <2>4, RemovalLists
<1>6. TypesOK'
  <2>0. ThreadOK(t)
    BY <1>1 DEF IInv, TypesOK
  <2>1. ThreadOK(t)'
    BY <1>1, <1>3, <2>0 DEF ThreadOK, SharedPC, SetterPC, PorterPC, NewPC, UncachePC, DelPC, CachePC, BootPC
  <2>2. stp' \in [StpOid -> {Null} \cup (Stg \X Brport)]
    BY <1>1 DEF IInv, TypesOK
  <2> QED BY <1>1, <1>2, <1>4, <2>1, <2>2, QuietTypes DEF TypesOK, IInv
<1>7. MutexInv'
  <2>1. \A u \in Thread : Holds(u)' <=> Holds(u)
    BY <1>1, <1>2, <1>3, Threads DEF OnlyMoves, Holds, UncachePC
  <2> QED BY <1>1, <2>1 DEF MutexInv, IInv
<1>8. BrportInv'
  <2>1. \A x \in StpOid : stp'[x] # Null => stp'[x] = stp[x]
    BY <1>1 DEF IInv, TypesOK
  <2> QED BY <1>1, <1>2, <1>3, <2>1 DEF BrportInv, IInv, OnlyMoves, Thread, DelPC, UncachePC
<1>9. NewsInv'
  <2> SUFFICES ASSUME NEW u \in Porter, th'[u].pc \in NewPC
               PROVE  NewInv(u)'
    BY DEF NewsInv
  <2>1. u # t /\ u \in Thread /\ th'[u] = th[u] /\ NewInv(u)
    BY <1>1, <1>2, <1>3, Threads DEF NewPC, OnlyMoves, NewsInv, IInv
  <2>2. \A v \in Thread : th'[v].brport = th[v].brport
    BY <1>2, <1>3 DEF OnlyMoves
  <2>3. \A c : OnBrport(c)' \subseteq OnBrport(c) /\ \A x \in OnBrport(c)' : stp'[x] = stp[x]
    BY <1>1 DEF OnBrport, IInv, TypesOK
  <2> QED BY <1>1, <2>1, <2>2, <2>3 DEF NewInv
<1>10. SetterInv'
  <2>1. \A x \in StpOid : stp'[x] \in {stp[x], Null}
    BY <1>1 DEF IInv, TypesOK
  <2>2. ASSUME NEW u \in Setter, th'[u].pc \in {"stg_attr", "stg_stp"} \cup UncachePC
        PROVE  DeletesInv(u)'
    <3>1. u \in Thread /\ th[u] \in ThreadRec /\ ThreadOK(u) /\ DeletesInv(u) /\ (u # t => th'[u] = th[u])
      BY <1>1, <1>2, <1>3, <2>2, Threads DEF IInv, TypesOK, SetterInv, OnlyMoves, Orderly
    <3>2. \A e \in th[u].todo : e[1] # Null => stp'[e[1]] \in {stp[e[1]], Null}
      BY <2>1, <3>1 DEF ThreadRec
    <3>3. th[u].pc = "stg_stp" => stp'[th[u].oid] \in {stp[th[u].oid], Null}
      BY <2>1, <3>1 DEF ThreadOK
    <3> QED BY <1>1, <1>3, <3>1, <3>2, <3>3 DEF DeletesInv
  <2>3. \A u \in Setter : th'[u].pc \in UncachePC /\ th'[u].pc = "uncache_get"
    BY <1>3 DEF Orderly, UncachePC
  <2> QED BY <2>2, <2>3 DEF SetterInv, UncachePC
<1>11. BootInv'
  <2>1. \A u \in Setter : th[u].pc \notin BootPC /\ th'[u].pc \notin BootPC
    BY <1>1, <1>3 DEF Orderly, BootPC
  <2>2. \A u \in Porter : th'[u] = th[u]
    BY <1>1, <1>2, Threads DEF OnlyMoves
  <2> QED BY <1>1, <2>1, <2>2 DEF BootInv, IInv
<1>12. DeletionInv'
  <2>1. \A c : OnBrport(c)' \subseteq OnBrport(c) /\ \A x \in OnBrport(c)' : stp'[x] = stp[x]
    BY <1>1 DEF OnBrport, IInv, TypesOK
  <2>2. \A u \in Porter : th'[u] = th[u] /\ u \in Thread
    BY <1>1, <1>2, Threads DEF OnlyMoves
  <2>3. ASSUME NEW u \in Porter, th[u].pc \in {"del_stp"} \cup UncachePC, NEW f \in th[u].todo
        PROVE  f[1] # Null /\ stp'[f[1]] \in {Null, <<f[2], th[u].brport>>}
    <3>1. f[1] # Null /\ stp[f[1]] \in {Null, <<f[2], th[u].brport>>}
      BY <2>3 DEF IInv, DeletionInv
    <3>2. f[1] \in StpOid
      BY <2>2, <3>1 DEF IInv, TypesOK, ThreadRec
    <3> QED BY <1>1, <3>1, <3>2 DEF IInv, TypesOK
  <2>4. ASSUME NEW u \in Porter, th[u].pc \in {"del_stp"} \cup UncachePC, th[u].brport \notin hurt,
               NEW x \in OnBrport(th[u].brport)'
        PROVE  <<x, stp'[x][1]>> \in th[u].todo
    <3>1. x \in OnBrport(th[u].brport) /\ stp'[x] = stp[x]
      BY <2>1, <2>2, <2>4 DEF OnBrport
    <3> QED BY <2>4, <3>1 DEF IInv, DeletionInv
  <2>5. ASSUME NEW u \in Porter, th[u].pc = "del_brport", th[u].brport \notin hurt
        PROVE  OnBrport(th[u].brport)' = {}
    <3>1. OnBrport(th[u].brport) = {}
      BY <2>5 DEF IInv, DeletionInv
    <3> QED BY <2>1, <2>2, <3>1 DEF OnBrport
  <2>6. ASSUME NEW u \in Porter, th[u].pc = "del_list"
        PROVE  Len(portList'[th[u].brport]) <= th[u].n
    BY <1>1, <2>6 DEF IInv, DeletionInv
  <2> QED BY <1>1, <2>2, <2>3, <2>4, <2>5, <2>6 DEF DeletionInv
<1>13. DefaultInv'
  <2>1. InStg(DefaultStg)' = InStg(DefaultStg) /\ \A x \in InStg(DefaultStg) : stp'[x] = stp[x]
    BY <1>1 DEF InStg, IInv, TypesOK
  <2>2. \A c \in Brport : InStg(DefaultStg) \cap OnBrport(c) # {}
                        => (InStg(DefaultStg) \cap OnBrport(c))' # {}
    BY <2>1 DEF InStg, OnBrport
  <2>3. \A u \in Porter : th'[u] = th[u] /\ u \in Thread
    BY <1>1, <1>2, Threads DEF OnlyMoves
  <2>4. \A p \in Port : brCache[p] \in Brport \cup {Null}
    BY DEF IInv, TypesOK
  <2>5. \A u \in Porter : th[u].pc = "new_cache" => th[u].brport \in Brport
    BY <2>3 DEF NewPC, IInv, TypesOK, ThreadOK
  <2>6. InDefaultStg'
    <3> SUFFICES ASSUME NEW p \in Port, brCache[p] # Null, brCache[p] \notin hurt,
                        \A u \in Porter : th[u].brport # brCache[p]
                 PROVE  (InStg(DefaultStg) \cap OnBrport(brCache[p]))' # {}
      BY <1>1, <2>3 DEF InDefaultStg
    <3>1. brCache[p] \in Brport
      BY <2>4
    <3>2. InStg(DefaultStg) \cap OnBrport(brCache[p]) # {}
      BY DEF IInv, DefaultInv, InDefaultStg
    <3> QED BY <1>1, <2>2, <3>1, <3>2
  <2> QED BY <2>2, <2>3, <2>5, <2>6 DEF DefaultInv, IInv
<1> QED BY <1>5, <1>6, <1>7, <1>8, <1>9, <1>10, <1>11, <1>12, <1>13 DEF IInv

LEMMA UncacheGetStep ==
    ASSUME StgAssumption, Orderly, IInv, NEW t \in Thread,
           UncacheGet(t)
    PROVE  IInv'
<1> USE StgAssumption
<1> DEFINE r == [th[t] EXCEPT !.pc = "uncache_id", !.oid = Lookup(th[t].stg, th[t].brport)]
<1>1. /\ th[t].pc = "uncache_get" /\ th[t] \in ThreadRec
      /\ UNCHANGED <<stgs, stp, brports, brCache, defaultStg, idList, portList, mutex, hurt>>
      /\ th' = [th EXCEPT ![t] = r]
  BY DEF UncacheGet, StgAssumption, sai, lists, IInv, TypesOK, Step, Goto, Return, Thread
<1>2. OnlyMoves(t) /\ th'[t] = r
  BY <1>1, Moves DEF IInv, Step
<1>3. /\ th'[t].pc = "uncache_id" /\ th'[t].stg = th[t].stg /\ th'[t].brport = th[t].brport
      /\ th'[t].port = th[t].port /\ th'[t].inst = th[t].inst /\ th'[t].todo = th[t].todo
      /\ th'[t].oid = Lookup(th[t].stg, th[t].brport)
  BY <1>1, <1>2 DEF Idle, IInv, TypesOK, ThreadRec
<1>4. th'[t] \in ThreadRec
  <2>1. "uncache_id" \in PCs /\ th[t] \in ThreadRec /\ Lookup(th[t].stg, th[t].brport) \in StpOid \cup {Null}
    BY <1>1, Found DEF PCs, SharedPC
  <2>2. r \in ThreadRec
    BY <2>1 DEF ThreadRec
  <2> QED BY <1>2, <2>2
<1>5. CachingInv' /\ OneStp' /\ IdInv' /\ PortInv'
  BY <1>1, <1>2, <1>3, UncacheGetLists
<1>6. TypesOK'
  <2>0. ThreadOK(t)
    BY <1>1 DEF IInv, TypesOK
  <2>1. ThreadOK(t)'
    BY <1>1, <1>3, <2>0 DEF ThreadOK, SharedPC, SetterPC, PorterPC, NewPC, UncachePC, DelPC, CachePC, BootPC
  <2> QED BY <1>1, <1>2, <1>4, <1>5, <2>1, QuietTypes DEF TypesOK, IInv
<1>7. MutexInv'
  <2>1. \A u \in Thread : Holds(u)' <=> Holds(u)
    BY <1>1, <1>2, <1>3, Threads DEF OnlyMoves, Holds, UncachePC
  <2> QED BY <1>1, <2>1 DEF MutexInv, IInv
<1>8. BrportInv'
  BY <1>1, <1>2, <1>3 DEF BrportInv, IInv, OnlyMoves, Thread, DelPC, UncachePC
<1>9. NewsInv'
  <2> SUFFICES ASSUME NEW u \in Porter, th'[u].pc \in NewPC
               PROVE  NewInv(u)'
    BY DEF NewsInv
  <2>1. u # t /\ u \in Thread /\ th'[u] = th[u] /\ NewInv(u)
    BY <1>1, <1>2, <1>3, Threads DEF NewPC, OnlyMoves, NewsInv, IInv
  <2>2. \A v \in Thread : th'[v].brport = th[v].brport
    BY <1>2, <1>3 DEF OnlyMoves
  <2> QED BY <1>1, <2>1, <2>2 DEF NewInv, OnBrport
<1>10. SetterInv'
  <2>1. t \in Setter => DeletesInv(t)
    BY <1>1 DEF IInv, SetterInv, UncachePC
  <2>2. t \in Setter => DeletesInv(t)'
    BY <1>1, <1>3, <2>1 DEF DeletesInv
  <2>3. \A u \in Setter : u # t => th'[u] = th[u]
    BY <1>2, Threads DEF OnlyMoves
  <2>4. \A u \in Setter : u = t => th'[u].pc \in UncachePC
    BY <1>3 DEF UncachePC
  <2> QED BY <1>1, <1>3, <2>2, <2>3, <2>4 DEF SetterInv, DeletesInv, IInv, Live, UncachePC
<1>11. BootInv'
  <2>1. InStg(DefaultStg)' = InStg(DefaultStg)
    BY <1>1 DEF InStg
  <2> QED BY <1>1, <1>2, <1>3, <2>1, Threads DEF BootInv, IInv, OnlyMoves, BootPC
<1>12. DeletionInv'
  <2>1. \A u \in Porter : u # t => th'[u] = th[u]
    BY <1>2, Threads DEF OnlyMoves
  <2>2. th[t].pc \in UncachePC /\ th'[t].pc \in UncachePC /\ th'[t].pc \notin {"del_list", "del_brport"}
    BY <1>1, <1>3 DEF UncachePC
  <2> QED BY <1>1, <1>3, <2>1, <2>2 DEF DeletionInv, IInv, OnBrport
<1>13. DefaultInv'
  BY <1>1, <1>2, <1>3, QuietDefault
<1> QED BY <1>5, <1>6, <1>7, <1>8, <1>9, <1>10, <1>11, <1>12, <1>13 DEF IInv

LEMMA UncacheIdStep ==
    ASSUME StgAssumption, Orderly, IInv, NEW t \in Thread,
           UncacheId(t)
    PROVE  IInv'
<1> USE StgAssumption
<1> DEFINE r == [th[t] EXCEPT !.pc = "uncache_port"]
<1>1. /\ th[t].pc = "uncache_id" /\ th[t] \in ThreadRec
      /\ UNCHANGED <<stgs, stp, brports, brCache, defaultStg, portList, mutex, hurt>>
      /\ idList' = [idList EXCEPT ![<<th[t].stg, th[t].brport>>] = <<>>]
      /\ th' = [th EXCEPT ![t] = r]
  BY DEF UncacheId, StgAssumption, sai, lists, IInv, TypesOK, Step, Goto, Return, Thread
<1>2. OnlyMoves(t) /\ th'[t] = r
  BY <1>1, Moves DEF IInv, Step
<1>3. /\ th'[t].pc = "uncache_port" /\ th'[t].stg = th[t].stg /\ th'[t].brport = th[t].brport
      /\ th'[t].port = th[t].port /\ th'[t].inst = th[t].inst /\ th'[t].todo = th[t].todo
      /\ th'[t].oid = th[t].oid
  BY <1>1, <1>2 DEF Idle, IInv, TypesOK, ThreadRec
<1>4. th'[t] \in ThreadRec
  <2>1. "uncache_port" \in PCs /\ th[t] \in ThreadRec
    BY <1>1 DEF PCs, SharedPC
  <2>2. r \in ThreadRec
    BY <2>1 DEF ThreadRec
  <2> QED BY <1>2, <2>2
<1>5. idList' \in [Stg \X Brport -> Seq(StpOid)] /\ CachingInv' /\ OneStp' /\ IdInv' /\ PortInv'
  BY <1>1, <1>2, <1>3, UncacheIdLists
<1>6. TypesOK'
  <2>0. ThreadOK(t)
    BY <1>1 DEF IInv, TypesOK
  <2>1. ThreadOK(t)'
    BY <1>1, <1>3, <2>0 DEF ThreadOK, SharedPC, SetterPC, PorterPC, NewPC, UncachePC, DelPC, CachePC, BootPC
  <2> QED BY <1>1, <1>2, <1>4, <1>5, <2>1, QuietTypes DEF TypesOK, IInv
<1>7. MutexInv'
  <2>1. \A u \in Thread : Holds(u)' <=> Holds(u)
    BY <1>1, <1>2, <1>3, Threads DEF OnlyMoves, Holds, UncachePC
  <2> QED BY <1>1, <2>1 DEF MutexInv, IInv
<1>8. BrportInv'
  BY <1>1, <1>2, <1>3 DEF BrportInv, IInv, OnlyMoves, Thread, DelPC, UncachePC
<1>9. NewsInv'
  <2> SUFFICES ASSUME NEW u \in Porter, th'[u].pc \in NewPC
               PROVE  NewInv(u)'
    BY DEF NewsInv
  <2>1. u # t /\ u \in Thread /\ th'[u] = th[u] /\ NewInv(u)
    BY <1>1, <1>2, <1>3, Threads DEF NewPC, OnlyMoves, NewsInv, IInv
  <2>2. \A v \in Thread : th'[v].brport = th[v].brport
    BY <1>2, <1>3 DEF OnlyMoves
  <2> QED BY <1>1, <2>1, <2>2 DEF NewInv, OnBrport
<1>10. SetterInv'
  <2>1. t \in Setter => DeletesInv(t)
    BY <1>1 DEF IInv, SetterInv, UncachePC
  <2>2. t \in Setter => DeletesInv(t)'
    BY <1>1, <1>3, <2>1 DEF DeletesInv
  <2>3. \A u \in Setter : u # t => th'[u] = th[u]
    BY <1>2, Threads DEF OnlyMoves
  <2>4. \A u \in Setter : u = t => th'[u].pc \in UncachePC
    BY <1>3 DEF UncachePC
  <2> QED BY <1>1, <1>3, <2>2, <2>3, <2>4 DEF SetterInv, DeletesInv, IInv, Live, UncachePC
<1>11. BootInv'
  <2>1. InStg(DefaultStg)' = InStg(DefaultStg)
    BY <1>1 DEF InStg
  <2> QED BY <1>1, <1>2, <1>3, <2>1, Threads DEF BootInv, IInv, OnlyMoves, BootPC
<1>12. DeletionInv'
  <2>1. \A u \in Porter : u # t => th'[u] = th[u]
    BY <1>2, Threads DEF OnlyMoves
  <2>2. th[t].pc \in UncachePC /\ th'[t].pc \in UncachePC /\ th'[t].pc \notin {"del_list", "del_brport"}
    BY <1>1, <1>3 DEF UncachePC
  <2> QED BY <1>1, <1>3, <2>1, <2>2 DEF DeletionInv, IInv, OnBrport
<1>13. DefaultInv'
  BY <1>1, <1>2, <1>3, QuietDefault
<1> QED BY <1>5, <1>6, <1>7, <1>8, <1>9, <1>10, <1>11, <1>12, <1>13 DEF IInv

LEMMA UncachePortPorterStep ==
    ASSUME StgAssumption, Orderly, IInv, NEW t \in Porter,
           UncachePort(t)
    PROVE  IInv'
<1> USE StgAssumption
<1> DEFINE r == [th[t] EXCEPT !.pc = "del_stp", !.oid = Null, !.stg = Null]
<1>1. /\ t \in Thread /\ t \in Porter /\ t \notin Setter /\ th[t].pc = "uncache_port" /\ th[t] \in ThreadRec
      /\ UNCHANGED <<stgs, stp, brports, brCache, defaultStg, idList, mutex, hurt>>
      /\ portList' = [portList EXCEPT ![th[t].brport] = Without(@, th[t].oid)]
      /\ th[t].brport \in Brport
      /\ th' = [th EXCEPT ![t] = r]
  BY DEF UncachePort, NextStp, ThreadOK, UncachePC, StgAssumption, sai, lists, IInv, TypesOK, Step, Goto, Return, Thread
<1>2. OnlyMoves(t) /\ th'[t] = r
  BY <1>1, Moves DEF IInv, Step
<1>3. /\ th'[t].pc = "del_stp" /\ th'[t].brport = th[t].brport /\ th'[t].todo = th[t].todo
      /\ th'[t].port = th[t].port /\ th'[t].oid = Null
  BY <1>1, <1>2 DEF Idle, IInv, TypesOK, ThreadRec
<1>4. th'[t] \in ThreadRec
  <2>1. "del_stp" \in PCs /\ th[t] \in ThreadRec
    BY <1>1 DEF PCs, SetterPC, PorterPC
  <2>2. r \in ThreadRec
    BY <2>1 DEF ThreadRec
  <2> QED BY <1>2, <2>2
<1>5. /\ portList' \in [Brport -> Seq(StpOid \X Stg)]
      /\ \A c \in Brport : Len(portList'[c]) <= Len(portList[c])
      /\ CachingInv' /\ OneStp' /\ IdInv' /\ PortInv'
  BY <1>1, <1>2, <1>3, UncachePortLists
<1>6. TypesOK'
  <2>0. ThreadOK(t)
    BY <1>1 DEF IInv, TypesOK
  <2>1. ThreadOK(t)'
    BY <1>1, <1>3, <2>0 DEF ThreadOK, SharedPC, SetterPC, PorterPC, NewPC, UncachePC, DelPC, CachePC, BootPC
  <2> QED BY <1>1, <1>2, <1>4, <1>5, <2>1, QuietTypes DEF TypesOK, IInv
<1>7. MutexInv'
  <2>1. \A u \in Thread : Holds(u)' <=> Holds(u)
    BY <1>1, <1>2, <1>3, Threads DEF OnlyMoves, Holds, UncachePC
  <2> QED BY <1>1, <2>1 DEF MutexInv, IInv
<1>8. BrportInv'
  BY <1>1, <1>2, <1>3 DEF BrportInv, IInv, OnlyMoves, Thread, DelPC, UncachePC
<1>9. NewsInv'
  <2> SUFFICES ASSUME NEW u \in Porter, th'[u].pc \in NewPC
               PROVE  NewInv(u)'
    BY DEF NewsInv
  <2>1. u # t /\ u \in Thread /\ th'[u] = th[u] /\ NewInv(u)
    BY <1>1, <1>2, <1>3, Threads DEF NewPC, OnlyMoves, NewsInv, IInv
  <2>2. \A v \in Thread : th'[v].brport = th[v].brport
    BY <1>2, <1>3 DEF OnlyMoves
  <2> QED BY <1>1, <2>1, <2>2 DEF NewInv, OnBrport
<1>10. SetterInv'
  BY <1>1, <1>2, <1>3 DEF SetterInv, DeletesInv, IInv, OnlyMoves, Thread, Live, UncachePC
<1>11. BootInv'
  <2>1. InStg(DefaultStg)' = InStg(DefaultStg)
    BY <1>1 DEF InStg
  <2> QED BY <1>1, <1>2, <1>3, <2>1, Threads DEF BootInv, IInv, OnlyMoves, BootPC
<1>12. DeletionInv'
  <2>1. \A u \in Porter : u # t => u \in Thread /\ th'[u] = th[u]
    BY <1>2, Threads DEF OnlyMoves
  <2>2. th[t].pc \in UncachePC /\ th'[t].pc \notin UncachePC
    BY <1>1, <1>3 DEF UncachePC
  <2>3. ASSUME NEW u \in Porter, u # t, th[u].pc = "del_list"
        PROVE  Len(portList'[th[u].brport]) <= th[u].n
    <3>1. th[u].brport \in Brport /\ Len(portList[th[u].brport]) <= th[u].n /\ th[u].n \in Nat
      BY <2>1, <2>3 DEF IInv, DeletionInv, TypesOK, ThreadOK, DelPC, ThreadRec
    <3>2. portList[th[u].brport] \in Seq(StpOid \X Stg) /\ portList'[th[u].brport] \in Seq(StpOid \X Stg)
      BY <1>5, <3>1 DEF IInv, TypesOK
    <3>3. Len(portList[th[u].brport]) \in Nat /\ Len(portList'[th[u].brport]) \in Nat
      BY <3>2
    <3> QED BY <1>5, <3>1, <3>3
  <2>4. \A c : OnBrport(c)' = OnBrport(c)
    BY <1>1 DEF OnBrport
  <2> QED BY <1>1, <1>3, <2>1, <2>2, <2>3, <2>4 DEF DeletionInv, IInv, OnBrport
<1>13. DefaultInv'
  BY <1>1, <1>2, <1>3, QuietDefault
<1> QED BY <1>5, <1>6, <1>7, <1>8, <1>9, <1>10, <1>11, <1>12, <1>13 DEF IInv

LEMMA UncachePortSetterStep ==
    ASSUME StgAssumption, Orderly, IInv, NEW t \in Setter,
           UncachePort(t)
    PROVE  IInv'
<1> USE StgAssumption
<1> DEFINE r == [th[t] EXCEPT !.pc = "stg_attr", !.oid = Null, !.stg = Null, !.brport = Null]
<1>1. /\ t \in Thread /\ t \in Setter /\ t \notin Porter /\ th[t].pc = "uncache_port" /\ th[t] \in ThreadRec
      /\ UNCHANGED <<stgs, stp, brports, brCache, defaultStg, idList, mutex, hurt>>
      /\ portList' = [portList EXCEPT ![th[t].brport] = Without(@, th[t].oid)]
      /\ DeletesInv(t) /\ th[t].inst \in Stg
      /\ th' = [th EXCEPT ![t] = r]
  <2>1. t \in Thread /\ t \notin Porter /\ th[t].pc = "uncache_port"
    BY Threads DEF UncachePort
  <2>2. th[t] \in ThreadRec /\ ThreadOK(t)
    BY <2>1 DEF IInv, TypesOK
  <2>3. DeletesInv(t)
    BY <2>1 DEF IInv, SetterInv, UncachePC
  <2>4. th[t].inst \in Stg
    BY <2>1, <2>2, <2>3 DEF ThreadOK, DeletesInv, UncachePC
  <2> QED BY <2>1, <2>2, <2>3, <2>4 DEF UncachePort, NextStp, Step, sai
<1>2. OnlyMoves(t) /\ th'[t] = r
  BY <1>1, Moves DEF IInv, Step
<1>3. /\ th'[t].pc = "stg_attr" /\ th'[t].brport = Null /\ th'[t].todo = th[t].todo
      /\ th'[t].port = th[t].port /\ th'[t].oid = Null /\ th'[t].inst = th[t].inst
  BY <1>1, <1>2 DEF Idle, IInv, TypesOK, ThreadRec
<1>4. th'[t] \in ThreadRec
  <2>1. "stg_attr" \in PCs /\ th[t] \in ThreadRec
    BY <1>1 DEF PCs, SetterPC, PorterPC
  <2>2. r \in ThreadRec
    BY <2>1 DEF ThreadRec
  <2> QED BY <1>2, <2>2
<1>5. /\ portList' \in [Brport -> Seq(StpOid \X Stg)]
      /\ \A c \in Brport : Len(portList'[c]) <= Len(portList[c])
      /\ CachingInv' /\ OneStp' /\ IdInv' /\ PortInv'
  BY <1>1, <1>2, <1>3, UncachePortLists
<1>6. TypesOK'
  <2>0. ThreadOK(t)
    BY <1>1 DEF IInv, TypesOK
  <2>1. ThreadOK(t)'
    BY <1>1, <1>3, <2>0 DEF ThreadOK, SharedPC, SetterPC, PorterPC, NewPC, UncachePC, DelPC, CachePC, BootPC
  <2> QED BY <1>1, <1>2, <1>4, <1>5, <2>1, QuietTypes DEF TypesOK, IInv
<1>7. MutexInv'
  <2>1. \A u \in Thread : Holds(u)' <=> Holds(u)
    BY <1>1, <1>2, <1>3, Threads DEF OnlyMoves, Holds, UncachePC
  <2> QED BY <1>1, <2>1 DEF MutexInv, IInv
<1>8. BrportInv'
  BY <1>1, <1>2, <1>3 DEF BrportInv, IInv, OnlyMoves, Thread, DelPC, UncachePC
<1>9. NewsInv'
  BY <1>1, <1>2, <1>3, QuietNews DEF NewPC
<1>10. SetterInv'
  <2>1. DeletesInv(t)'
    BY <1>1, <1>3 DEF DeletesInv
  <2>2. \A u \in Setter : u = t
    BY <1>1 DEF Orderly
  <2> QED BY <1>3, <2>1, <2>2 DEF SetterInv
<1>11. BootInv'
  <2>1. \A u \in Setter : th[u].pc \notin BootPC /\ th'[u].pc \notin BootPC
    BY <1>1, <1>3 DEF Orderly, BootPC
  <2>2. \A u \in Porter : th'[u] = th[u]
    BY <1>1, <1>2, Threads DEF OnlyMoves
  <2> QED BY <1>1, <2>1, <2>2 DEF BootInv, IInv
<1>12. DeletionInv'
  <2>1. \A u \in Porter : u # t => u \in Thread /\ th'[u] = th[u]
    BY <1>2, Threads DEF OnlyMoves
  <2>2. th[t].pc \in UncachePC /\ th'[t].pc \notin UncachePC
    BY <1>1, <1>3 DEF UncachePC
  <2>3. ASSUME NEW u \in Porter, u # t, th[u].pc = "del_list"
        PROVE  Len(portList'[th[u].brport]) <= th[u].n
    <3>1. th[u].brport \in Brport /\ Len(portList[th[u].brport]) <= th[u].n /\ th[u].n \in Nat
      BY <2>1, <2>3 DEF IInv, DeletionInv, TypesOK, ThreadOK, DelPC, ThreadRec
    <3>2. portList[th[u].brport] \in Seq(StpOid \X Stg) /\ portList'[th[u].brport] \in Seq(StpOid \X Stg)
      BY <1>5, <3>1 DEF IInv, TypesOK
    <3>3. Len(portList[th[u].brport]) \in Nat /\ Len(portList'[th[u].brport]) \in Nat
      BY <3>2
    <3> QED BY <1>5, <3>1, <3>3
  <2>4. \A c : OnBrport(c)' = OnBrport(c)
    BY <1>1 DEF OnBrport
  <2> QED BY <1>1, <1>3, <2>1, <2>2, <2>3, <2>4 DEF DeletionInv, IInv, OnBrport
<1>13. DefaultInv'
  BY <1>1, <1>2, <1>3, QuietDefault
<1> QED BY <1>5, <1>6, <1>7, <1>8, <1>9, <1>10, <1>11, <1>12, <1>13 DEF IInv

-----------------------------------------------------------------------------
(* The start, every step, and the theorems.                                *)

LEMMA InitStg ==
    ASSUME StgAssumption, Orderly, Init
    PROVE  IInv
<1> USE DEF Init
<1>1. \A t \in Thread : th[t] = Idle
  OBVIOUS
<1>2. \A t \in Thread : /\ th[t].pc = "idle" /\ th[t].oid = Null /\ th[t].todo = {}
                        /\ th[t].brport = Null /\ th[t].port = Null
  BY <1>1 DEF Idle
<1>3. \A s \in StpOid : stp[s] # Null => /\ stp[s][1] = DefaultStg /\ stp[s][2] \in Brport
                                         /\ stp[s] = <<DefaultStg, stp[s][2]>>
  OBVIOUS
<1>4. /\ \A p \in Port : BootBrport[p] # Null => brports[BootBrport[p]] = p
      /\ \A b \in Brport : brports[b] # Null =>
            brports[b] \in Port /\ BootBrport[brports[b]] = b
      /\ brports \in [Brport -> Port \cup {Null}]
  <2> DEFINE boot == {p \in Port : BootBrport[p] # Null}
  <2>1. \A b \in Brport : \A p \in boot : BootBrport[p] = b =>
            (CHOOSE q \in boot : BootBrport[q] = b) \in boot
            /\ BootBrport[CHOOSE q \in boot : BootBrport[q] = b] = b
    OBVIOUS
  <2>2. \A b \in Brport : brports[b] = IF \E p \in boot : BootBrport[p] = b
                                       THEN CHOOSE p \in boot : BootBrport[p] = b
                                       ELSE Null
    OBVIOUS
  <2>3. \A p \in Port : BootBrport[p] \in Brport \cup {Null}
    BY DEF StgAssumption
  <2>4. \A p, q \in Port : BootBrport[p] = BootBrport[q] => p = q \/ BootBrport[p] = Null
    BY DEF StgAssumption
  <2>5. \A b \in Brport : brports[b] # Null => brports[b] \in boot /\ BootBrport[brports[b]] = b
    BY <2>1, <2>2
  <2>6. \A p \in boot : brports[BootBrport[p]] = p
    BY <2>1, <2>2, <2>3, <2>4
  <2> QED BY <2>5, <2>6
<1>5. ASSUME NEW b \in Brport
      PROVE  /\ brports[b] # Null <=> OnBrport(b) # {}
             /\ \A s, u \in OnBrport(b) : s = u
  <2>1. IsFiniteSet(OnBrport(b))
    BY FS_Subset DEF Orderly, OnBrport
  <2>2. Cardinality(OnBrport(b)) = IF brports[b] = Null THEN 0 ELSE 1
    OBVIOUS
  <2>3. Cardinality(OnBrport(b)) = 0 <=> OnBrport(b) = {}
    BY <2>1, FS_EmptySet
  <2>4. Cardinality(OnBrport(b)) = 1 <=> \E x : OnBrport(b) = {x}
    BY <2>1, FS_Singleton
  <2> QED BY <2>2, <2>3, <2>4
<1>6. TypesOK
  <2>1. Idle \in ThreadRec
    BY IdleRec
  <2>2. \A t \in Thread : ThreadOK(t)
    BY <1>2 DEF ThreadOK, SharedPC, NewPC, UncachePC, DelPC, CachePC, BootPC
  <2>3. stp \in [StpOid -> {Null} \cup (Stg \X Brport)]
    BY DEF StgAssumption
  <2>4. /\ idList \in [Stg \X Brport -> Seq(StpOid)]
        /\ portList \in [Brport -> Seq(StpOid \X Stg)]
    OBVIOUS
  <2>5. /\ DefaultStg \in stgs /\ stgs \subseteq Stg
        /\ brCache \in [Port -> Brport \cup {Null}]
    BY DEF StgAssumption
  <2> HIDE DEF Init
  <2>6. th \in [Thread -> ThreadRec] /\ defaultStg = Null /\ mutex = Null /\ hurt = {}
    BY <2>1 DEF Init
  <2> QED BY <1>4, <2>2, <2>3, <2>4, <2>5, <2>6 DEF TypesOK
<1>7. MutexInv
  BY <1>2, Threads DEF MutexInv, Holds, UncachePC
<1>8. BrportInv
  <2>1. \A b, c \in Brport : brports[b] = brports[c] /\ brports[b] # Null => b = c
    BY <1>4
  <2>2. ASSUME NEW s \in StpOid, stp[s] # Null
        PROVE  brports[stp[s][2]] # Null
    <3>1. stp[s][2] \in Brport /\ s \in OnBrport(stp[s][2])
      BY <1>3, <2>2 DEF OnBrport
    <3> QED BY <1>5, <3>1
  <2>3. \A p \in Port : brCache[p] # Null => brports[brCache[p]] = p
    BY <1>4
  <2> QED BY <1>2, <2>1, <2>2, <2>3, Threads DEF BrportInv, DelPC, UncachePC
<1>9. NewsInv /\ CachingInv /\ SetterInv /\ BootInv /\ DeletionInv
  <2> HIDE DEF Init
  <2> QED BY <1>2, Threads DEF NewsInv, CachingInv, SetterInv, BootInv, DeletionInv, NewPC, CachePC,
                  UncachePC, BootPC
<1>10. OneStp
  <2>1. ASSUME NEW s \in StpOid, NEW u \in StpOid, stp[s] = stp[u], stp[s] # Null
        PROVE  s = u
    <3>1. stp[s][2] \in Brport /\ s \in OnBrport(stp[s][2]) /\ u \in OnBrport(stp[s][2])
      BY <1>3, <2>1 DEF OnBrport
    <3> QED BY <1>5, <3>1
  <2> HIDE DEF Init
  <2> QED BY <1>2, <2>1 DEF OneStp, UncachePC
<1>11. \A s \in StpOid : stp[s] # Null => PendId(s) /\ PendPort(s)
  BY <1>3 DEF PendId, PendPort, BootPending
<1>12. /\ \A k \in Stg \X Brport : Len(idList[k]) = 0
       /\ \A b \in Brport : Len(portList[b]) = 0
  OBVIOUS
<1>13. \A s \in StpOid, g \in Stg, b \in Brport : Live(s, g, b) => stp[s] # Null
  BY NullAssumption DEF Live
<1>14. IdInv /\ PortInv
  <2> HIDE DEF Init
  <2>1. ASSUME NEW g \in Stg, NEW b \in Brport
        PROVE  Len(idList[<<g, b>>]) = 0 /\ \A s : ~ Indexed(s, g, b)
    BY <1>12 DEF Indexed
  <2>2. ASSUME NEW b \in Brport
        PROVE  OneEach(portList[b]) /\ \A s, g : ~ Listed(s, g, b)
    BY <1>12 DEF Listed, OneEach
  <2> QED BY <1>11, <1>13, <2>1, <2>2 DEF IdInv, PortInv
<1>15. DefaultInv
  <2>1. ASSUME NEW p \in Port, brCache[p] # Null
        PROVE  InStg(DefaultStg) \cap OnBrport(brCache[p]) # {}
    <3>1. brCache[p] \in Brport /\ brports[brCache[p]] = p /\ p # Null
      BY <1>4, <1>6, <2>1 DEF TypesOK, StgAssumption
    <3>2. PICK s \in OnBrport(brCache[p]) : TRUE
      BY <1>5, <3>1
    <3>3. s \in InStg(DefaultStg)
      BY <1>3, <3>2 DEF OnBrport, InStg
    <3> QED BY <3>2, <3>3
  <2> HIDE DEF Init
  <2> QED BY <1>2, <2>1, Threads DEF DefaultInv, InDefaultStg
<1> QED BY <1>6, <1>7, <1>8, <1>9, <1>10, <1>14, <1>15 DEF IInv

LEMMA StgNext ==
    ASSUME StgAssumption, Orderly, IInv, [Next]_vars
    PROVE  IInv'
<1>1. CASE UNCHANGED vars
  <2> USE <1>1 DEF vars
  <2>1. TypesOK' /\ MutexInv' /\ BrportInv' /\ NewsInv' /\ CachingInv'
    BY DEF IInv, TypesOK, ThreadOK, MutexInv, Holds, BrportInv, NewsInv, NewInv, OnBrport, CachingInv, Live
  <2>2. SetterInv' /\ BootInv' /\ OneStp'
    BY DEF IInv, SetterInv, DeletesInv, Live, BootInv, InStg, OneStp
  <2>3. IdInv' /\ PortInv'
    <3>1. ASSUME NEW s, NEW g, NEW b
          PROVE  /\ Live(s, g, b)' = Live(s, g, b)
                 /\ Indexed(s, g, b)' = Indexed(s, g, b)
                 /\ Listed(s, g, b)' = Listed(s, g, b)
      BY DEF Live, Indexed, Listed
    <3>2. ASSUME NEW s
          PROVE  PendId(s)' = PendId(s) /\ PendPort(s)' = PendPort(s)
      BY DEF PendId, PendPort, BootPending
    <3>3. ASSUME NEW t, NEW s, NEW g, NEW b
          PROVE  Victim(t, s, g, b)' = Victim(t, s, g, b)
      BY DEF Victim
    <3>4. idList' = idList /\ portList' = portList /\ stp' = stp /\ th' = th
      OBVIOUS
    <3>5. IdInv'
      <4>1. IdInv
        BY DEF IInv
      <4>2. ASSUME NEW g \in Stg, NEW b \in Brport
            PROVE  /\ Len(idList'[<<g, b>>]) \in {0, 1}
                   /\ \A s \in StpOid : Live(s, g, b)' => (Indexed(s, g, b)' <=> ~ PendId(s)')
        BY <4>1, <3>1, <3>2, <3>4 DEF IdInv
      <4>3. ASSUME NEW g \in Stg, NEW b \in Brport, NEW s \in StpOid, Indexed(s, g, b)'
            PROVE  \/ Live(s, g, b)'
                   \/ stp'[s] = Null /\ \E t \in Thread :
                         Victim(t, s, g, b)' /\ th'[t].pc # "uncache_port"
        <5>1. Indexed(s, g, b)
          BY <3>1, <4>3
        <5>2. CASE Live(s, g, b)
          BY <3>1, <5>2
        <5>3. CASE ~ Live(s, g, b)
          <6>1. stp[s] = Null
            BY <4>1, <5>1, <5>3 DEF IdInv
          <6>2. PICK t \in Thread : Victim(t, s, g, b) /\ th[t].pc # "uncache_port"
            BY <4>1, <5>1, <5>3 DEF IdInv
          <6> QED BY <3>3, <3>4, <6>1, <6>2
        <5> QED BY <5>2, <5>3
      <4> QED BY <4>2, <4>3 DEF IdInv
    <3>6. PortInv'
      BY <3>1, <3>2, <3>3, <3>4 DEF IInv, PortInv
    <3> QED BY <3>5, <3>6
  <2>4. DeletionInv' /\ DefaultInv'
    BY DEF IInv, DeletionInv, OnBrport, DefaultInv, InDefaultStg, InStg
  <2> QED BY <2>1, <2>2, <2>3, <2>4 DEF IInv
<1>2. ASSUME NEW t \in Setter, SetterStep(t)
      PROVE  IInv'
  <2>1. CASE \E g \in Stg, p \in Port : SetState(t, g, p)
    BY <2>1, SetStateStep
  <2>2. CASE SetLookup(t)
    BY <2>2, SetLookupStep
  <2>3. CASE \E g \in Stg : StgAdd(t, g)
    BY <2>3, StgAddStep
  <2>4. CASE \E g \in Stg : StgDelete(t, g)
    BY <2>4, StgDeleteStep
  <2>5. CASE GetDefaultId(t)
    BY <2>5, GetDefaultIdStep
  <2>6. CASE List(t)
    BY <2>6, ListSplits, GivesUpStep, StgListsStep, BootListsStep
  <2>7. CASE Attr(t)
    BY <2>7, AttrSplits, GivesUpStep, StgAttrsDoneStep, BootAttrsDoneStep, StgAttrStep, BootAttrStep
  <2>8. CASE StgStp(t)
    BY <2>8, StgStpSplits, StgStpDoneStep, GivesUpStep
  <2>9. CASE StgRemove(t)
    BY <2>9, StgRemoveStep
  <2>10. CASE BootCachePort(t)
    BY <2>10, BootCachePortStep
  <2> QED BY <1>2, <2>1, <2>2, <2>3, <2>4, <2>5, <2>6, <2>7, <2>8, <2>9, <2>10 DEF SetterStep
<1>3. ASSUME NEW t \in Porter, PorterStep(t)
      PROVE  IInv'
  <2>1. CASE \E p \in Port, b \in Brport : CreateBridgePort(t, p, b)
    BY <2>1, CreateBridgePortStep
  <2>2. CASE CacheBridgePort(t)
    BY <2>2, CacheBridgePortStep
  <2>3. CASE \E p \in Port : DeleteBridgePort(t, p)
    BY <2>3, DeleteBridgePortStep
  <2>4. CASE DeleteLock(t)
    BY <2>4, DeleteLockStep
  <2>5. CASE DeleteList(t)
    BY <2>5, DeleteListStep
  <2>6. CASE DeleteStp(t)
    BY <2>6, DeleteStpSplits, StpsDoneStep, StpRemovedStep, StpKeptStep
  <2>7. CASE RemoveBridgePort(t)
    BY <2>7, RemoveBridgePortStep
  <2> QED BY <1>3, <2>1, <2>2, <2>3, <2>4, <2>5, <2>6, <2>7 DEF PorterStep
<1>4. ASSUME NEW t \in Thread, SharedStep(t)
      PROVE  IInv'
  <2>1. t \in Setter \/ t \in Porter
    BY Threads
  <2>2. CASE CreateStp(t)
    BY <2>2, CreateStpStep
  <2>3. CASE CreateStpFails(t)
    BY <2>3, CreateStpFailsStep
  <2>4. CASE CacheId(t)
    BY <2>4, CacheIdStep
  <2>5. CASE CachePort(t)
    BY <2>1, <2>5, CachePortSetterStep, CachePortPorterStep
  <2>6. CASE UncacheGet(t)
    BY <2>6, UncacheGetStep
  <2>7. CASE UncacheId(t)
    BY <2>7, UncacheIdStep
  <2>8. CASE UncachePort(t)
    BY <2>1, <2>8, UncachePortSetterStep, UncachePortPorterStep
  <2> QED BY <1>4, <2>2, <2>3, <2>4, <2>5, <2>6, <2>7, <2>8 DEF SharedStep
<1> QED BY <1>1, <1>2, <1>3, <1>4 DEF Next

\* The inductive invariant holds in every reachable state.
THEOREM StgInvariance ==
    ASSUME Orderly
    PROVE  Spec => []IInv
<1>1. Init => IInv
  BY StgAssumption, InitStg
<1>2. IInv /\ [Next]_vars => IInv'
  BY StgAssumption, StgNext
<1> QED BY <1>1, <1>2, PTL DEF Spec

\* Objects, lists and threads stay in their ranges, and _stp_member_mutex is
\* held by a thread inside its critical section.
THEOREM StgTypesHold ==
    ASSUME Orderly
    PROVE  Spec => []TypeOK
<1>1. IInv => TypeOK
  <2> SUFFICES ASSUME IInv PROVE TypeOK
    OBVIOUS
  <2>1. mutex # Null => mutex \in Thread /\ Holds(mutex)
    BY DEF IInv, TypesOK, MutexInv
  <2>2. \A t \in Thread : th[t].pc \in SharedPC \cup (IF t \in Setter THEN SetterPC ELSE PorterPC)
    BY DEF IInv, TypesOK, ThreadOK
  <2> QED BY <2>1, <2>2 DEF IInv, TypesOK, TypeOK, Holds, UncachePC
<1> QED BY <1>1, StgInvariance, PTL

\* What _stp_member_mutex is for: whatever states are set and instances deleted
\* meanwhile, ndi_delete_bridge_port has taken every STP port from its bridge
\* port when it removes it, unless SAI has refused to let one go.
THEOREM RemovalNeverRefused ==
    ASSUME Orderly
    PROVE  Spec => []RemovalNotRefused
<1>1. IInv => RemovalNotRefused
  BY DEF IInv, DeletionInv, RemovalNotRefused
<1> QED BY <1>1, StgInvariance, PTL

\* A bridge port that can be found is in the default instance, where it
\* forwards, unless SAI failed in an earlier deletion of it.
THEOREM AlwaysInDefaultStg ==
    ASSUME Orderly
    PROVE  Spec => []InDefaultStg
<1>1. IInv => InDefaultStg
  BY DEF IInv, DefaultInv
<1> QED BY <1>1, StgInvariance, PTL

LEMMA OneEachCounts ==
    ASSUME NEW S, NEW list \in Seq(S), OneEach(list), NEW T,
           \A i \in 1 .. Len(list) : list[i][1] \in T,
           \A x \in T : \E i \in 1 .. Len(list) : list[i][1] = x
    PROVE  Len(list) = Cardinality(T)
<1> DEFINE n == Len(list)
           f == [i \in 1 .. n |-> list[i][1]]
<1>1. n \in Nat
  OBVIOUS
<1>2. f \in [1 .. n -> T] /\ (\A i, j \in 1 .. n : f[i] = f[j] => i = j) /\ \A x \in T : \E i \in 1 .. n : f[i] = x
  BY DEF OneEach
<1> HIDE DEF f, n
<1>3. f \in Bijection(1 .. n, T)
  BY <1>2, Fun_IsBij
<1>4. IsFiniteSet(1 .. n) /\ Cardinality(1 .. n) = n
  BY <1>1, FS_Interval
<1>5. Cardinality(T) = Cardinality(1 .. n)
  BY <1>3, <1>4, FS_Bijection DEF ExistsBijection
<1> QED BY <1>4, <1>5 DEF n

\* When no call is running nothing waits for an insert, and the lists hold no
\* STP port that SAI does not have.
LEMMA AtRest ==
    ASSUME StgAssumption, Orderly, IInv, \A t \in Thread : th[t].pc = "idle", defaultStg # Null
    PROVE  /\ \A g \in Stg, b \in Brport, s \in StpOid : Indexed(s, g, b) <=> Live(s, g, b)
           /\ \A g \in Stg, b \in Brport, s \in StpOid : Listed(s, g, b) <=> Live(s, g, b)
<1>1. \A t \in Setter : th[t].pc = "idle"
  BY Threads
<1>2. \A s : ~ BootPending(s)
  BY <1>1 DEF BootPending, BootPC
<1>3. \A s : ~ PendId(s) /\ ~ PendPort(s)
  BY <1>2 DEF PendId, PendPort, CachePC
<1>4. \A t \in Thread : \A s, g, b : ~ Victim(t, s, g, b)
  BY DEF Victim
<1> QED BY <1>3, <1>4 DEF IInv, IdInv, PortInv

\* Between calls both lists of nas_ndi_map are exactly the STP ports of SAI,
\* whatever failed and whatever ran without the mutex.
THEOREM ListsAlwaysExact ==
    ASSUME Orderly
    PROVE  Spec => []ListsExact
<1>1. IInv => ListsExact
  <2> SUFFICES ASSUME IInv, \A t \in Thread : th[t].pc = "idle", defaultStg # Null
               PROVE  /\ \A g \in Stg, b \in Brport :
                            /\ Len(idList[<<g, b>>]) = Cardinality(InStg(g) \cap OnBrport(b))
                            /\ \A i \in DOMAIN idList[<<g, b>>] :
                                  idList[<<g, b>>][i] \in InStg(g) \cap OnBrport(b)
                      /\ \A b \in Brport :
                            /\ Len(portList[b]) = Cardinality(OnBrport(b))
                            /\ \A s \in OnBrport(b) : \E i \in DOMAIN portList[b] :
                                  portList[b][i] = <<s, stp[s][1]>>
    BY DEF ListsExact
  <2>1. ASSUME NEW s \in StpOid, NEW g \in Stg, NEW b \in Brport
        PROVE  /\ Indexed(s, g, b) <=> s \in InStg(g) \cap OnBrport(b)
               /\ Listed(s, g, b) <=> s \in InStg(g) \cap OnBrport(b)
    BY AtRest, LiveIs, StgAssumption DEF IInv
  <2>2. ASSUME NEW g \in Stg, NEW b \in Brport
        PROVE  /\ Len(idList[<<g, b>>]) = Cardinality(InStg(g) \cap OnBrport(b))
               /\ \A i \in DOMAIN idList[<<g, b>>] :
                     idList[<<g, b>>][i] \in InStg(g) \cap OnBrport(b)
    <3> DEFINE list == idList[<<g, b>>]
               T == InStg(g) \cap OnBrport(b)
    <3>1. list \in Seq(StpOid) /\ Len(list) \in {0, 1} /\ DOMAIN list = 1 .. Len(list) /\ T \subseteq StpOid
      BY DEF IInv, TypesOK, IdInv, InStg
    <3>2. \A i \in 1 .. Len(list) : list[i] \in T
      BY <2>1, <3>1 DEF Indexed
    <3>3. \A s \in T : \E i \in 1 .. Len(list) : list[i] = s
      BY <2>1, <3>1 DEF Indexed
    <3>4. CASE Len(list) = 0
      <4>1. T = {}
        BY <3>3, <3>4
      <4> QED BY <3>1, <3>2, <3>4, <4>1, FS_EmptySet
    <3>5. CASE Len(list) = 1
      <4>1. T = {list[1]}
        BY <3>2, <3>3, <3>5
      <4> QED BY <3>1, <3>2, <3>5, <4>1, FS_Singleton
    <3> QED BY <3>1, <3>4, <3>5
  <2>3. ASSUME NEW b \in Brport
        PROVE  /\ Len(portList[b]) = Cardinality(OnBrport(b))
               /\ \A s \in OnBrport(b) : \E i \in DOMAIN portList[b] :
                     portList[b][i] = <<s, stp[s][1]>>
    <3> DEFINE list == portList[b]
    <3>1. list \in Seq(StpOid \X Stg) /\ DOMAIN list = 1 .. Len(list) /\ OneEach(list)
      BY DEF IInv, TypesOK, PortInv
    <3>2. ASSUME NEW i \in 1 .. Len(list)
          PROVE  list[i][1] \in OnBrport(b)
      <4>1. list[i] \in StpOid \X Stg
        BY <3>1
      <4>2. list[i][1] \in StpOid /\ list[i][2] \in Stg /\ Listed(list[i][1], list[i][2], b)
        BY <4>1 DEF Listed
      <4> QED BY <2>1, <4>2
    <3>3. ASSUME NEW s \in OnBrport(b)
          PROVE  \E i \in 1 .. Len(list) : list[i] = <<s, stp[s][1]>>
      <4>1. s \in StpOid /\ stp[s][1] \in Stg /\ s \in InStg(stp[s][1])
        BY DEF OnBrport, InStg, IInv, TypesOK
      <4> QED BY <2>1, <4>1 DEF Listed
    <3>4. ASSUME NEW s \in OnBrport(b)
          PROVE  \E i \in 1 .. Len(list) : list[i][1] = s
      <4>1. PICK i \in 1 .. Len(list) : list[i] = <<s, stp[s][1]>>
        BY <3>3
      <4>2. <<s, stp[s][1]>>[1] = s
        OBVIOUS
      <4> HIDE DEF list
      <4> QED BY <4>1, <4>2
    <3>5. Len(list) = Cardinality(OnBrport(b))
      <4> HIDE DEF list
      <4> QED BY <3>1, <3>2, <3>4, OneEachCounts
    <3> QED BY <3>1, <3>3, <3>5
  <2> QED BY <2>2, <2>3
<1> QED BY <1>1, StgInvariance, PTL
=============================================================================
