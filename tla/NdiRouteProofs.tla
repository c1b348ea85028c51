--------------------------- MODULE NdiRouteProofs ---------------------------
(***************************************************************************)
(* The safety of NdiRoute for any next hops, groups and routes, however    *)
(* long the lists, whatever SAI refuses and whichever ids it gives again:  *)
(* the list of a group is its members in SAI, and their weights are those  *)
(* the NAS asked for, but for the groups a stopped call has changed and    *)
(* those another group's stale list has taken a member of.                 *)
(***************************************************************************)
EXTENDS NdiRoute, FiniteSetTheorems, SequenceTheorems, WellFoundedInduction, TLAPS

\* A member in SAI is of a group in SAI, which is why a new group has none.
MembersHaveGroups == \A m \in Member : mbr[m] # None => mbr[m].grp \in groups

\* Nothing is asked of a group the NAS does not have.
NothingAsked == \A g \in Group \ known : want[g] = NoWeights

\* The inductive invariant.
IInv ==
    /\ TypeOK
    /\ MembersHaveGroups
    /\ NothingAsked
    /\ ListIsExact
    /\ WeightsAsAsked

\* What ListIsExact and WeightsAsAsked say of one group, and what holds of a group
\* that is not there yet.
Exact(g) == Recorded(g) = {[nh |-> mbr[m].nh, mbr |-> m] : m \in MembersOf(g)}
Weighed(g) == \A n \in NextHop : Weight(g, n) = want[g][n]
Owned(g) ==
    /\ Recorded(g) \subseteq {[nh |-> mbr[m].nh, mbr |-> m] : m \in MembersOf(g)}
    /\ map[g] # None => IsInjective(map[g])
Ready(g) == (map[g] # None => IsInjective(map[g])) /\ Exact(g) /\ Weighed(g)

-----------------------------------------------------------------------------
(* Sequences and finite sets.                                              *)

LEMMA NatLeast ==
    ASSUME NEW S \in SUBSET Nat, S # {}
    PROVE  \E x \in S : \A y \in S : x <= y
<1> DEFINE R == OpToRel(<, Nat)
<1>1. IsWellFoundedOn(R, Nat)
    BY NatLessThanWellFounded
<1>2. \E x \in S : \A y \in S : ~ (<<y, x>> \in R)
  <2> HIDE DEF R
  <2> QED BY <1>1, WFMin
<1>3. \A x, y \in Nat : y < x => <<y, x>> \in R
    BY DEF OpToRel
<1>4. ASSUME NEW x \in S, NEW y \in S, ~ (<<y, x>> \in R)
      PROVE  x <= y
  <2> HIDE DEF R
  <2>1. x \in Int /\ y \in Int
      OBVIOUS
  <2> QED BY <1>3, <1>4, <2>1
<1> HIDE DEF R
<1> QED BY <1>2, <1>4

\* A set of numbers with 0 and each one's successor has all of them.
LEMMA Upto ==
    ASSUME NEW S \in SUBSET Nat, 0 \in S, \A n \in S : n + 1 \in S
    PROVE  S = Nat
<1> SUFFICES ASSUME Nat \ S # {} PROVE FALSE
    OBVIOUS
<1>1. PICK x \in Nat \ S : \A y \in Nat \ S : x <= y
    BY NatLeast
<1>2. x # 0 /\ x - 1 \in Nat
    BY <1>1
<1>3. x - 1 \in S
    BY <1>1, <1>2
<1> QED BY <1>1, <1>3

LEMMA LeastIsOne ==
    ASSUME NEW S \in SUBSET Nat, S # {}
    PROVE  Least(S) \in S
BY NatLeast DEF Least

\* As many values as places, where none is taken twice.
LEMMA ImageCardinality ==
    \A f, D : IsInjective(f) /\ D \in SUBSET DOMAIN f /\ IsFiniteSet(D) =>
        IsFiniteSet({f[i] : i \in D}) /\ Cardinality({f[i] : i \in D}) = Cardinality(D)
<1> SUFFICES ASSUME NEW f, IsInjective(f), NEW D, D \in SUBSET DOMAIN f, IsFiniteSet(D)
             PROVE  IsFiniteSet({f[i] : i \in D}) /\ Cardinality({f[i] : i \in D}) = Cardinality(D)
    OBVIOUS
<1> DEFINE g == [i \in D |-> f[i]]
           S == {f[i] : i \in D}
<1>1. g \in Bijection(D, S)
  <2>1. g \in [D -> S]
      OBVIOUS
  <2>2. \A a, b \in D : g[a] = g[b] => a = b
      BY DEF IsInjective
  <2>3. \A x \in S : \E i \in D : g[i] = x
      OBVIOUS
  <2> HIDE DEF g, S
  <2> QED BY <2>1, <2>2, <2>3 DEF Bijection, Injection, Surjection, IsInjective
<1>2. ExistsBijection(D, S)
    BY <1>1 DEF ExistsBijection
<1> HIDE DEF S
<1>3. IsFiniteSet(S) /\ Cardinality(S) = Cardinality(D)
    BY <1>2, FS_Bijection
<1> QED BY <1>3 DEF S

LEMMA DisjointCardinality ==
    ASSUME NEW A, NEW B, IsFiniteSet(A), IsFiniteSet(B), A \cap B = {}
    PROVE  Cardinality(A \cup B) = Cardinality(A) + Cardinality(B)
<1>1. Cardinality(A \cap B) = 0
    BY FS_EmptySet
<1>2. Cardinality(A) \in Nat /\ Cardinality(B) \in Nat
    BY FS_CardinalityType
<1>3. Cardinality(A \cup B) = Cardinality(A) + Cardinality(B) - Cardinality(A \cap B)
    BY FS_Union
<1> QED BY <1>1, <1>2, <1>3

LEMMA AppendFacts ==
    ASSUME NEW S, NEW list \in Seq(S), NEW e \in S
    PROVE  /\ Append(list, e) \in Seq(S) /\ Len(Append(list, e)) = Len(list) + 1
           /\ DOMAIN Append(list, e) = 1 .. Len(list) + 1
           /\ \A i \in 1 .. Len(list) : Append(list, e)[i] = list[i]
           /\ Append(list, e)[Len(list) + 1] = e
OBVIOUS

-----------------------------------------------------------------------------
(* What nas_ndi_map_delete_elements leaves of a list.                      *)

WithoutStep(f, list, ms, i) ==
    IF i = 0 THEN <<>>
    ELSE IF list[i].mbr \in Range(ms) THEN f[i-1] ELSE Append(f[i-1], list[i])

LEMMA WithoutUnfolds ==
    ASSUME NEW list, NEW ms, Len(list) \in Nat
    PROVE  \E f : /\ Without(list, ms) = f[Len(list)]
                  /\ f[0] = <<>>
                  /\ \A i \in 1 .. Len(list) :
                        f[i] = IF list[i].mbr \in Range(ms) THEN f[i-1] ELSE Append(f[i-1], list[i])
<1> DEFINE Fun(f, n) == f = [i \in 0 .. n |-> WithoutStep(f, list, ms, i)]
           T == {n \in Nat : \E f : Fun(f, n)}
           kept == CHOOSE f : Fun(f, Len(list))
<1>1. 0 \in T
  <2>1. Fun([i \in 0 .. 0 |-> <<>>], 0)
      BY DEF WithoutStep
  <2> QED BY <2>1
<1>2. ASSUME NEW n \in T
      PROVE  n + 1 \in T
  <2>1. PICK f : Fun(f, n)
      OBVIOUS
  <2> DEFINE h == [i \in 0 .. n + 1 |-> IF i <= n THEN f[i] ELSE WithoutStep(f, list, ms, i)]
  <2>2. ASSUME NEW i \in 0 .. n + 1
        PROVE  h[i] = WithoutStep(h, list, ms, i)
    <3>1. CASE i = 0
        BY <2>1, <3>1 DEF WithoutStep
    <3>2. CASE i # 0
      <4>1. i - 1 \in 0 .. n /\ h[i-1] = f[i-1]
          BY <3>2
      <4>2. WithoutStep(h, list, ms, i) = WithoutStep(f, list, ms, i)
          BY <4>1, <3>2 DEF WithoutStep
      <4>3. h[i] = WithoutStep(f, list, ms, i)
          BY <2>1
      <4> QED BY <4>2, <4>3
    <3> QED BY <3>1, <3>2
  <2>3. Fun(h, n + 1)
      BY <2>2
  <2> QED BY <2>3
<1>3. T = Nat
  <2> HIDE DEF T
  <2>1. T \in SUBSET Nat
      BY DEF T
  <2> QED BY <1>1, <1>2, <2>1, Upto
<1>4. Fun(kept, Len(list))
    BY <1>3
<1>5. Without(list, ms) = kept[Len(list)]
    BY DEF Without, WithoutStep
<1>6. \A i \in 0 .. Len(list) : kept[i] = WithoutStep(kept, list, ms, i)
  <2> HIDE DEF kept
  <2> QED BY <1>4
<1> HIDE DEF kept
<1>7. kept[0] = <<>>
    BY <1>6 DEF WithoutStep
<1>8. ASSUME NEW i \in 1 .. Len(list)
      PROVE  kept[i] = IF list[i].mbr \in Range(ms) THEN kept[i-1] ELSE Append(kept[i-1], list[i])
  <2>1. i \in 0 .. Len(list) /\ i # 0
      OBVIOUS
  <2> QED BY <1>6, <2>1 DEF WithoutStep
<1> QED BY <1>5, <1>7, <1>8

\* The pairs of the other members, none of them twice if none was before.
LEMMA WithoutFacts ==
    ASSUME NEW list \in Seq(Record), NEW ms
    PROVE  /\ Without(list, ms) \in Seq(Record)
           /\ Range(Without(list, ms)) = {r \in Range(list) : r.mbr \notin Range(ms)}
           /\ IsInjective(list) => IsInjective(Without(list, ms))
<1>1. Len(list) \in Nat /\ DOMAIN list = 1 .. Len(list) /\ \A i \in 1 .. Len(list) : list[i] \in Record
    OBVIOUS
<1>2. PICK f : /\ Without(list, ms) = f[Len(list)]
               /\ f[0] = <<>>
               /\ \A i \in 1 .. Len(list) :
                     f[i] = IF list[i].mbr \in Range(ms) THEN f[i-1] ELSE Append(f[i-1], list[i])
    BY <1>1, WithoutUnfolds
<1> DEFINE From(n) == {list[i] : i \in {j \in 1 .. n : list[j].mbr \notin Range(ms)}}
           Ok(n) == /\ f[n] \in Seq(Record)
                    /\ Range(f[n]) = From(n)
                    /\ IsInjective(list) => IsInjective(f[n])
           T == {n \in Nat : n <= Len(list) => Ok(n)}
<1>3. 0 \in T
  <2>1. f[0] \in Seq(Record) /\ DOMAIN f[0] = {}
      BY <1>2
  <2>2. Range(f[0]) = {} /\ From(0) = {} /\ IsInjective(f[0])
      BY <2>1 DEF Range, IsInjective
  <2> QED BY <2>1, <2>2
<1>4. ASSUME NEW n \in T
      PROVE  n + 1 \in T
  <2> SUFFICES ASSUME n + 1 <= Len(list) PROVE Ok(n + 1)
      OBVIOUS
  <2>1. n \in Nat /\ n + 1 \in 1 .. Len(list) /\ Ok(n) /\ (n + 1) - 1 = n
      BY <1>1
  <2> DEFINE r == list[n + 1]
  <2>2. r \in Record
      BY <1>1, <2>1
  <2>3. 1 .. n + 1 = (1 .. n) \cup {n + 1}
      BY <2>1
  <2>4. CASE r.mbr \in Range(ms)
    <3>1. f[n + 1] = f[n]
        BY <1>2, <2>1, <2>4
    <3>2. From(n + 1) = From(n)
        BY <2>3, <2>4
    <3> HIDE DEF From
    <3> QED BY <2>1, <3>1, <3>2
  <2>5. CASE r.mbr \notin Range(ms)
    <3>1. f[n + 1] = Append(f[n], r)
        BY <1>2, <2>1, <2>5
    <3>2. From(n + 1) = From(n) \cup {r}
        BY <2>3, <2>5
    <3>3. f[n] \in Seq(Record) /\ Range(f[n]) = From(n) /\ (IsInjective(list) => IsInjective(f[n]))
        BY <2>1
    <3>4. ASSUME IsInjective(list) PROVE r \notin From(n)
      <4> SUFFICES ASSUME NEW j \in 1 .. n, list[j] = r PROVE FALSE
          OBVIOUS
      <4>1. j \in DOMAIN list /\ n + 1 \in DOMAIN list /\ j # n + 1
          BY <1>1, <2>1
      <4> QED BY <4>1, <3>4 DEF IsInjective
    <3> HIDE DEF From, r
    <3>5. /\ Append(f[n], r) \in Seq(Record) /\ Len(f[n]) \in Nat
          /\ DOMAIN f[n] = 1 .. Len(f[n])
          /\ DOMAIN Append(f[n], r) = 1 .. Len(f[n]) + 1
          /\ \A i \in 1 .. Len(f[n]) : Append(f[n], r)[i] = f[n][i]
          /\ Append(f[n], r)[Len(f[n]) + 1] = r
        BY <2>2, <3>3, AppendFacts
    <3>6. DOMAIN Append(f[n], r) = (DOMAIN f[n]) \cup {Len(f[n]) + 1}
        BY <3>5
    <3>7. Range(Append(f[n], r)) = Range(f[n]) \cup {r}
        BY <3>5, <3>6 DEF Range
    <3>8. ASSUME IsInjective(list) PROVE IsInjective(Append(f[n], r))
      <4>1. IsInjective(f[n]) /\ r \notin Range(f[n])
          BY <3>3, <3>4, <3>8
      <4>2. ASSUME NEW a \in DOMAIN Append(f[n], r), NEW b \in DOMAIN Append(f[n], r),
                   Append(f[n], r)[a] = Append(f[n], r)[b]
            PROVE  a = b
        <5>1. CASE a \in DOMAIN f[n] /\ b \in DOMAIN f[n]
            BY <5>1, <4>1, <4>2, <3>5 DEF IsInjective
        <5>2. CASE a \notin DOMAIN f[n] /\ b \in DOMAIN f[n]
            BY <5>2, <4>1, <4>2, <3>5, <3>6 DEF Range
        <5>3. CASE a \in DOMAIN f[n] /\ b \notin DOMAIN f[n]
            BY <5>3, <4>1, <4>2, <3>5, <3>6 DEF Range
        <5>4. CASE a \notin DOMAIN f[n] /\ b \notin DOMAIN f[n]
            BY <5>4, <3>6
        <5> QED BY <5>1, <5>2, <5>3, <5>4
      <4> QED BY <4>2 DEF IsInjective
    <3> QED BY <3>1, <3>2, <3>3, <3>5, <3>7, <3>8
  <2> QED BY <2>4, <2>5
<1>5. T = Nat
  <2> HIDE DEF T
  <2>1. T \in SUBSET Nat
      BY DEF T
  <2> QED BY <1>3, <1>4, <2>1, Upto
<1>6. Ok(Len(list))
  <2>1. Len(list) \in T
    <3> HIDE DEF T
    <3> QED BY <1>1, <1>5
  <2>2. Len(list) \in Nat => Len(list) <= Len(list)
    <3> HIDE DEF T, Ok
    <3> QED OBVIOUS
  <2> HIDE DEF Ok
  <2> QED BY <1>1, <2>1, <2>2
<1>7. From(Len(list)) = {r \in Range(list) : r.mbr \notin Range(ms)}
    BY <1>1 DEF Range
<1> QED BY <1>2, <1>6, <1>7

-----------------------------------------------------------------------------
(* What a group is made of, and steps that leave it alone.                 *)

LEMMA MembersFinite == \A S \in SUBSET Member : IsFiniteSet(S) /\ Cardinality(S) \in Nat
<1>1. IsFiniteSet(Member)
    BY RouteAssumption
<1> QED BY <1>1, FS_Subset, FS_CardinalityType

\* Nobody's member becomes one of group g, and none of its members goes.
SameMembers(g) ==
    \A m \in Member :
        \/ mbr'[m] = mbr[m]
        \/ /\ mbr[m] # None => mbr[m].grp # g
           /\ mbr'[m] # None => mbr'[m].grp # g

LEMMA ReadyKept ==
    ASSUME NEW g, SameMembers(g), map'[g] = map[g], want'[g] = want[g], Ready(g)
    PROVE  Ready(g)'
<1>1. MembersOf(g)' = MembersOf(g) /\ \A m \in MembersOf(g) : mbr'[m] = mbr[m]
    BY DEF MembersOf, SameMembers
<1>2. Exact(g)'
  <2>1. Recorded(g)' = Recorded(g)
      BY DEF Recorded
  <2>2. {[nh |-> mbr[m].nh, mbr |-> m] : m \in MembersOf(g)}'
          = {[nh |-> mbr[m].nh, mbr |-> m] : m \in MembersOf(g)}
      BY <1>1
  <2> QED BY <2>1, <2>2 DEF Ready, Exact
<1>3. Weighed(g)'
  <2>1. \A n \in NextHop : {m \in MembersOf(g) : mbr[m].nh = n}' = {m \in MembersOf(g) : mbr[m].nh = n}
      BY <1>1
  <2>2. \A n \in NextHop : Weight(g, n)' = Weight(g, n)
      BY <2>1 DEF Weight
  <2> QED BY <2>2 DEF Ready, Weighed
<1> QED BY <1>2, <1>3 DEF Ready

LEMMA OwnedKept ==
    ASSUME NEW g, SameMembers(g), map'[g] = map[g], Owned(g)
    PROVE  Owned(g)'
<1>1. MembersOf(g)' = MembersOf(g) /\ \A m \in MembersOf(g) : mbr'[m] = mbr[m]
    BY DEF MembersOf, SameMembers
<1>2. Recorded(g)' = Recorded(g)
    BY DEF Recorded
<1>3. {[nh |-> mbr[m].nh, mbr |-> m] : m \in MembersOf(g)}'
        = {[nh |-> mbr[m].nh, mbr |-> m] : m \in MembersOf(g)}
    BY <1>1
<1> QED BY <1>2, <1>3 DEF Owned

\* A group whose list is exact names only members of its own.
LEMMA ReadyOwned == \A g : Ready(g) => Owned(g)
BY DEF Ready, Exact, Owned

\* What IInv says of the groups the calls have left whole, and of those whose list
\* no stopped deletion has left.
LEMMA KnownReady ==
    ASSUME IInv, NEW g \in known \ (torn \cup hit)
    PROVE  Ready(g) /\ map[g] # None /\ map[g] \in Seq(Record)
<1>1. g \in known \ (stale \cup hit) /\ g \in Group
    BY DEF IInv, TypeOK
<1>2. Exact(g) /\ IsInjective(map[g]) /\ map[g] # None
    BY <1>1 DEF IInv, ListIsExact, Exact, InSai
<1> QED BY <1>1, <1>2 DEF IInv, TypeOK, WeightsAsAsked, Ready, Weighed

LEMMA KnownOwned ==
    ASSUME IInv, NEW g \in known \ (stale \cup hit)
    PROVE  Owned(g)
BY DEF IInv, ListIsExact, Owned, InSai

\* A group that is not there is ready to be made.
LEMMA NewReady ==
    ASSUME IInv, NEW g \in Group \ groups
    PROVE  Ready(g) /\ map[g] = None
<1>1. MembersOf(g) = {}
    BY DEF IInv, MembersHaveGroups, MembersOf
<1>2. map[g] = None /\ want[g] = NoWeights
    BY DEF IInv, TypeOK, NothingAsked
<1>3. Exact(g)
    BY <1>1, <1>2 DEF Exact, Recorded
<1>4. ASSUME NEW n \in NextHop PROVE Weight(g, n) = 0
  <2>1. {m \in MembersOf(g) : mbr[m].nh = n} = {}
      BY <1>1
  <2> QED BY <2>1, FS_EmptySet DEF Weight
<1>5. Weighed(g)
    BY <1>2, <1>4 DEF Weighed, NoWeights
<1> QED BY <1>2, <1>3, <1>5 DEF Ready
-----------------------------------------------------------------------------
(* Members made.                                                           *)

LEMMA ListedNextHops ==
    ASSUME NEW nhs \in NhList
    PROVE  /\ nhs \in Seq(NextHop) /\ Len(nhs) \in Nat \ {0} /\ DOMAIN nhs = 1 .. Len(nhs)
           /\ \A n : IsFiniteSet({i \in DOMAIN nhs : nhs[i] = n}) /\ Count(nhs, n) \in Nat
<1>1. PICK k \in 1 .. MaxCall : nhs \in [1 .. k -> NextHop]
    BY DEF NhList
<1>2. k \in Nat \ {0}
    BY RouteAssumption
<1>3. nhs \in Seq(NextHop) /\ Len(nhs) = k /\ DOMAIN nhs = 1 .. k
    BY <1>1, <1>2
<1>4. IsFiniteSet(1 .. k)
    BY <1>2, FS_Interval
<1>5. ASSUME NEW n
      PROVE  IsFiniteSet({i \in DOMAIN nhs : nhs[i] = n}) /\ Count(nhs, n) \in Nat
  <2>1. {i \in DOMAIN nhs : nhs[i] = n} \in SUBSET (1 .. k)
      BY <1>3
  <2> QED BY <1>4, <2>1, FS_Subset, FS_CardinalityType DEF Count
<1> QED BY <1>2, <1>3, <1>5

\* Members are made under ids nobody has, of the next hops they are for.
LEMMA MadeMembers ==
    ASSUME TypeOK, NEW g \in Group, NEW nhs \in NhList, NEW k \in Nat, k <= Len(nhs),
           NEW ids \in [1 .. k -> Member], Made(nhs, ids), mbr' = WithMembers(g, nhs, ids)
    PROVE  /\ mbr' \in [Member -> SaiMember \cup {None}]
           /\ \A i \in 1 .. k : /\ mbr[ids[i]] = None /\ mbr'[ids[i]] # None
                                /\ mbr'[ids[i]].grp = g /\ mbr'[ids[i]].nh = nhs[i]
           /\ \A m \in Member : m \notin Range(ids) => mbr'[m] = mbr[m]
           /\ \A m \in Range(ids) : /\ m \in Member /\ mbr[m] = None
                                    /\ mbr'[m] # None /\ mbr'[m].grp = g
           /\ \A h : h # g => SameMembers(h)
<1>1. /\ nhs \in Seq(NextHop) /\ Len(nhs) \in Nat
      /\ \A i \in 1 .. k : i \in DOMAIN nhs /\ nhs[i] \in NextHop
    BY ListedNextHops
<1>2. /\ DOMAIN ids = 1 .. k
      /\ \A i \in 1 .. k : mbr[ids[i]] = None
      /\ \A i, j \in 1 .. k : ids[i] = ids[j] => i = j
    BY DEF Made, IsInjective
<1>3. \A i \in 1 .. k : ids[i] \in Range(ids) /\ ids[i] \in Member
    BY <1>2 DEF Range
<1>4. ASSUME NEW i \in 1 .. k
      PROVE  mbr'[ids[i]] = [grp |-> g, nh |-> nhs[i]]
  <2>1. (CHOOSE j \in DOMAIN ids : ids[j] = ids[i]) = i
      BY <1>2
  <2>2. mbr'[ids[i]] = [grp |-> g, nh |-> nhs[CHOOSE j \in DOMAIN ids : ids[j] = ids[i]]]
      BY <1>3 DEF WithMembers
  <2> QED BY <2>1, <2>2
<1>5. ASSUME NEW m \in Member, m \notin Range(ids)
      PROVE  mbr'[m] = mbr[m]
    BY <1>5 DEF WithMembers
<1>6. \A m \in Range(ids) : \E i \in 1 .. k : m = ids[i]
    BY <1>2 DEF Range
<1>7. ASSUME NEW i \in 1 .. k
      PROVE  /\ mbr'[ids[i]] \in SaiMember /\ mbr'[ids[i]] # None
             /\ mbr'[ids[i]].grp = g /\ mbr'[ids[i]].nh = nhs[i]
  <2>1. [grp |-> g, nh |-> nhs[i]] \in SaiMember
      BY <1>1 DEF SaiMember
  <2> QED BY <2>1, <1>4, NoneAssumption
<1>8. ASSUME NEW m \in Member PROVE mbr'[m] \in SaiMember \cup {None}
  <2>1. CASE m \in Range(ids)
      BY <2>1, <1>6, <1>7
  <2>2. CASE m \notin Range(ids)
      BY <2>2, <1>5 DEF TypeOK
  <2> QED BY <2>1, <2>2
<1>9. mbr' \in [Member -> SaiMember \cup {None}]
  <2>1. mbr' = [m \in Member |-> mbr'[m]]
      BY DEF WithMembers
  <2> QED BY <1>8, <2>1
<1>10. \A m \in Range(ids) : /\ m \in Member /\ mbr[m] = None
                             /\ mbr'[m] # None /\ mbr'[m].grp = g
    BY <1>2, <1>3, <1>6, <1>7
<1>11. \A h : h # g => SameMembers(h)
    BY <1>5, <1>10 DEF SameMembers
<1> QED BY <1>2, <1>5, <1>7, <1>9, <1>10, <1>11

\* New members of a group go to the end of a list that names only its own.
LEMMA AddedOwned ==
    ASSUME IInv, NEW g \in Group, NEW nhs \in NhList,
           NEW ids \in [DOMAIN nhs -> Member], Made(nhs, ids), mbr' = WithMembers(g, nhs, ids),
           map'[g] = Inserted(map[g], Pairs(nhs, ids)), Owned(g)
    PROVE  /\ Owned(g)' /\ map'[g] # None /\ IsInjective(map'[g])
           /\ Recorded(g)' = Recorded(g) \cup Range(Pairs(nhs, ids))
           /\ MembersOf(g)' = MembersOf(g) \cup Range(ids)
           /\ {[nh |-> mbr'[m].nh, mbr |-> m] : m \in Range(ids)} = Range(Pairs(nhs, ids))
<1> DEFINE k == Len(nhs)
           pairs == Pairs(nhs, ids)
<1>1. /\ nhs \in Seq(NextHop) /\ k \in Nat \ {0} /\ DOMAIN nhs = 1 .. k
      /\ ids \in [1 .. k -> Member] /\ DOMAIN ids = 1 .. k
      /\ \A i \in 1 .. k : nhs[i] \in NextHop
    BY ListedNextHops
<1>2. /\ mbr' \in [Member -> SaiMember \cup {None}]
      /\ \A i \in 1 .. k : /\ mbr[ids[i]] = None /\ mbr'[ids[i]] # None
                           /\ mbr'[ids[i]].grp = g /\ mbr'[ids[i]].nh = nhs[i]
      /\ \A m \in Member : m \notin Range(ids) => mbr'[m] = mbr[m]
      /\ \A m \in Range(ids) : /\ m \in Member /\ mbr[m] = None
                               /\ mbr'[m] # None /\ mbr'[m].grp = g
  <2>1. k \in Nat /\ k <= Len(nhs) /\ ids \in [1 .. k -> Member] /\ TypeOK
      BY <1>1 DEF IInv
  <2> HIDE DEF k
  <2>2. /\ mbr' \in [Member -> SaiMember \cup {None}]
        /\ \A i \in 1 .. k : /\ mbr[ids[i]] = None /\ mbr'[ids[i]] # None
                             /\ mbr'[ids[i]].grp = g /\ mbr'[ids[i]].nh = nhs[i]
        /\ \A m \in Member : m \notin Range(ids) => mbr'[m] = mbr[m]
        /\ \A m \in Range(ids) : /\ m \in Member /\ mbr[m] = None
                                 /\ mbr'[m] # None /\ mbr'[m].grp = g
        /\ \A h : h # g => SameMembers(h)
      BY <2>1, MadeMembers
  <2> QED BY <2>2
<1>3. \A i, j \in 1 .. k : ids[i] = ids[j] => i = j
    BY <1>1 DEF Made, IsInjective
<1>4. /\ pairs \in Seq(Record) /\ Len(pairs) = k /\ DOMAIN pairs = 1 .. k
      /\ \A i \in 1 .. k : pairs[i] = [nh |-> nhs[i], mbr |-> ids[i]]
  <2>1. \A i \in 1 .. k : [nh |-> nhs[i], mbr |-> ids[i]] \in Record
      BY <1>1 DEF Record
  <2>2. pairs = [i \in 1 .. k |-> [nh |-> nhs[i], mbr |-> ids[i]]]
      BY <1>1 DEF Pairs
  <2> HIDE DEF pairs, k
  <2> QED BY <1>1, <2>1, <2>2
<1>5. Range(pairs) = {[nh |-> nhs[i], mbr |-> ids[i]] : i \in 1 .. k}
    BY <1>4 DEF Range
<1> HIDE DEF k, pairs
<1>6. ASSUME NEW r \in Range(pairs) PROVE r.mbr \in Range(ids)
  <2>1. PICK i \in 1 .. k : r = [nh |-> nhs[i], mbr |-> ids[i]]
      BY <1>5, <1>6
  <2>2. r.mbr = ids[i]
      BY <2>1
  <2> QED BY <1>1, <2>2 DEF Range
<1>7. ASSUME NEW a \in 1 .. k, NEW b \in 1 .. k, pairs[a] = pairs[b] PROVE a = b
  <2>1. pairs[a].mbr = ids[a] /\ pairs[b].mbr = ids[b]
      BY <1>4
  <2> QED BY <2>1, <1>3, <1>7
<1>8. map[g] = None \/ map[g] \in Seq(Record)
    BY DEF IInv, TypeOK
<1>9. /\ map'[g] \in Seq(Record) /\ IsInjective(map'[g])
      /\ Range(map'[g]) = Recorded(g) \cup Range(pairs)
  <2>1. CASE map[g] = None
    <3>1. map'[g] = pairs
        BY <2>1 DEF Inserted, pairs
    <3> QED BY <3>1, <2>1, <1>4, <1>7 DEF IsInjective, Recorded
  <2>2. CASE map[g] # None
    <3> DEFINE list == map[g]
               n == Len(list)
    <3>1. list \in Seq(Record) /\ n \in Nat /\ DOMAIN list = 1 .. n /\ map'[g] = list \o pairs
        BY <2>2, <1>8 DEF Inserted, pairs
    <3>2. IsInjective(list) /\ Recorded(g) = Range(list)
        BY <2>2 DEF Owned, Recorded
    <3>3. Range(list) \cap Range(pairs) = {}
      <4> SUFFICES ASSUME NEW r \in Range(list), r \in Range(pairs) PROVE FALSE
          OBVIOUS
      <4>1. PICK m \in MembersOf(g) : r = [nh |-> mbr[m].nh, mbr |-> m]
          BY <3>2 DEF Owned
      <4>2. r.mbr = m /\ mbr[m] # None
          BY <4>1 DEF MembersOf
      <4>3. mbr[r.mbr] = None
          BY <1>2, <1>6
      <4> QED BY <4>2, <4>3
    <3> HIDE DEF list
    <3>4. /\ list \o pairs \in Seq(Record)
          /\ Len(list \o pairs) = n + Len(pairs)
          /\ \A i \in 1 .. n + Len(pairs) : (list \o pairs)[i] =
                IF i <= n THEN list[i] ELSE pairs[i - n]
        BY <3>1, <1>4, ConcatProperties
    <3> HIDE DEF n
    <3> DEFINE new == list \o pairs
    <3>5. /\ new \in Seq(Record) /\ DOMAIN new = 1 .. n + k
          /\ \A i \in 1 .. n : new[i] = list[i]
          /\ \A i \in n + 1 .. n + k : new[i] = pairs[i - n] /\ i - n \in 1 .. k
      <4>1. Len(new) = n + k /\ new \in Seq(Record)
          BY <3>4, <1>4
      <4>2. \A i \in 1 .. n : i \in 1 .. n + k /\ i <= n
          BY <3>1, <1>1
      <4>3. \A i \in n + 1 .. n + k : i \in 1 .. n + k /\ ~(i <= n) /\ i - n \in 1 .. k
          BY <3>1, <1>1
      <4>4. Len(pairs) = k
          BY <1>4
      <4>5. DOMAIN new = 1 .. n + k
        <5> HIDE DEF new
        <5> QED BY <4>1
      <4> QED BY <4>1, <4>2, <4>3, <4>4, <4>5, <3>4
    <3>6. \A i \in 1 .. n + k : i \in 1 .. n \/ i \in n + 1 .. n + k
        BY <3>1, <1>1
    <3>7. \A i \in 1 .. k : n + i \in n + 1 .. n + k /\ (n + i) - n = i /\ n + i \in 1 .. n + k
        BY <3>1, <1>1
    <3>8. \A i \in 1 .. n : i \in 1 .. n + k
        BY <3>1, <1>1
    <3> HIDE DEF new
    <3>9. Range(new) = Range(list) \cup Range(pairs)
      <4>1. \A i \in 1 .. n + k : new[i] \in Range(list) \cup Range(pairs)
          BY <3>1, <3>5, <3>6, <1>4 DEF Range
      <4>2. \A i \in 1 .. n : list[i] \in Range(new)
          BY <3>5, <3>8 DEF Range
      <4>3. ASSUME NEW i \in 1 .. k PROVE pairs[i] \in Range(new)
        <5>1. new[n + i] = pairs[i]
            BY <3>5, <3>7
        <5> QED BY <5>1, <3>5, <3>7 DEF Range
      <4>4. Range(new) \subseteq Range(list) \cup Range(pairs)
          BY <4>1, <3>5 DEF Range
      <4>5. Range(list) \subseteq Range(new)
          BY <4>2, <3>1 DEF Range
      <4>6. Range(pairs) \subseteq Range(new)
          BY <4>3, <1>4 DEF Range
      <4> QED BY <4>4, <4>5, <4>6
    <3>10. ASSUME NEW a \in 1 .. n + k, NEW b \in 1 .. n + k, new[a] = new[b]
           PROVE  a = b
      <4>1. \A i \in 1 .. n : new[i] \in Range(list)
          BY <3>1, <3>5 DEF Range
      <4>2. \A i \in n + 1 .. n + k : new[i] \in Range(pairs)
          BY <3>5, <1>4 DEF Range
      <4>3. CASE a \in 1 .. n /\ b \in 1 .. n
          BY <4>3, <3>1, <3>2, <3>5, <3>10 DEF IsInjective
      <4>4. CASE a \in n + 1 .. n + k /\ b \in n + 1 .. n + k
        <5>1. a - n = b - n
            BY <4>4, <3>5, <3>10, <1>7
        <5> QED BY <5>1, <3>1
      <4> QED BY <3>3, <3>6, <3>10, <4>1, <4>2, <4>3, <4>4
    <3>11. IsInjective(new)
        BY <3>5, <3>10 DEF IsInjective
    <3> QED BY <3>1, <3>2, <3>5, <3>9, <3>11 DEF new
  <2> QED BY <2>1, <2>2
<1>10. map'[g] # None
    BY <1>9, NoneAssumption
<1>11. MembersOf(g)' = MembersOf(g) \cup Range(ids)
    BY <1>2 DEF MembersOf
<1>12. Recorded(g)' = Recorded(g) \cup Range(pairs)
    BY <1>9, <1>10 DEF Recorded
<1>13. {[nh |-> mbr'[m].nh, mbr |-> m] : m \in Range(ids)} = Range(pairs)
  <2>1. \A i \in 1 .. k : mbr'[ids[i]].nh = nhs[i]
      BY <1>2
  <2>2. Range(ids) = {ids[i] : i \in 1 .. k}
      BY <1>1 DEF Range
  <2> QED BY <2>1, <2>2, <1>5
<1>14. Owned(g)'
  <2>1. \A m \in MembersOf(g) : mbr'[m] = mbr[m]
      BY <1>2 DEF MembersOf
  <2>2. Recorded(g) \subseteq {[nh |-> mbr'[m].nh, mbr |-> m] : m \in MembersOf(g)}
      BY <2>1 DEF Owned
  <2>3. Recorded(g)' \subseteq {[nh |-> mbr'[m].nh, mbr |-> m] : m \in MembersOf(g)'}
      BY <1>11, <1>12, <1>13, <2>2
  <2> QED BY <1>9, <2>3 DEF Owned
<1> QED BY <1>9, <1>10, <1>11, <1>12, <1>13, <1>14 DEF pairs

\* A group that gets a member for every next hop of the call has them at the end
\* of its list, and each next hop weighs so much more.
LEMMA AddedReady ==
    ASSUME IInv, NEW g \in Group, NEW nhs \in NhList,
           NEW ids \in [DOMAIN nhs -> Member], Made(nhs, ids), mbr' = WithMembers(g, nhs, ids),
           map'[g] = Inserted(map[g], Pairs(nhs, ids)), Ready(g),
           want'[g] = [n \in NextHop |-> want[g][n] + Count(nhs, n)]
    PROVE  Ready(g)' /\ map'[g] # None
<1> DEFINE k == Len(nhs)
           pairs == Pairs(nhs, ids)
<1>1. /\ nhs \in Seq(NextHop) /\ k \in Nat \ {0} /\ DOMAIN nhs = 1 .. k
      /\ ids \in [1 .. k -> Member] /\ DOMAIN ids = 1 .. k
      /\ \A i \in 1 .. k : nhs[i] \in NextHop
    BY ListedNextHops
<1>2. /\ mbr' \in [Member -> SaiMember \cup {None}]
      /\ \A i \in 1 .. k : /\ mbr[ids[i]] = None /\ mbr'[ids[i]] # None
                           /\ mbr'[ids[i]].grp = g /\ mbr'[ids[i]].nh = nhs[i]
      /\ \A m \in Member : m \notin Range(ids) => mbr'[m] = mbr[m]
      /\ \A m \in Range(ids) : /\ m \in Member /\ mbr[m] = None
                               /\ mbr'[m] # None /\ mbr'[m].grp = g
  <2>1. k \in Nat /\ k <= Len(nhs) /\ ids \in [1 .. k -> Member] /\ TypeOK
      BY <1>1 DEF IInv
  <2> HIDE DEF k
  <2>2. /\ mbr' \in [Member -> SaiMember \cup {None}]
        /\ \A i \in 1 .. k : /\ mbr[ids[i]] = None /\ mbr'[ids[i]] # None
                             /\ mbr'[ids[i]].grp = g /\ mbr'[ids[i]].nh = nhs[i]
        /\ \A m \in Member : m \notin Range(ids) => mbr'[m] = mbr[m]
        /\ \A m \in Range(ids) : /\ m \in Member /\ mbr[m] = None
                                 /\ mbr'[m] # None /\ mbr'[m].grp = g
        /\ \A h : h # g => SameMembers(h)
      BY <2>1, MadeMembers
  <2> QED BY <2>2
<1> HIDE DEF k, pairs
<1>3. /\ Owned(g)' /\ map'[g] # None /\ IsInjective(map'[g])
      /\ Recorded(g)' = Recorded(g) \cup Range(pairs)
      /\ MembersOf(g)' = MembersOf(g) \cup Range(ids)
      /\ {[nh |-> mbr'[m].nh, mbr |-> m] : m \in Range(ids)} = Range(pairs)
    BY ReadyOwned, AddedOwned DEF pairs
<1>4. Exact(g)'
  <2>1. \A m \in MembersOf(g) : mbr'[m] = mbr[m]
      BY <1>2 DEF MembersOf
  <2>2. {[nh |-> mbr'[m].nh, mbr |-> m] : m \in MembersOf(g)} = Recorded(g)
      BY <2>1 DEF Ready, Exact
  <2>3. {[nh |-> mbr'[m].nh, mbr |-> m] : m \in MembersOf(g)'} = Recorded(g) \cup Range(pairs)
      BY <1>3, <2>2
  <2> QED BY <1>3, <2>3 DEF Exact
<1>5. Weighed(g)'
  <2> SUFFICES ASSUME NEW n \in NextHop PROVE Weight(g, n)' = want'[g][n]
      BY DEF Weighed
  <2> DEFINE D == {i \in DOMAIN nhs : nhs[i] = n}
             old == {m \in MembersOf(g) : mbr[m].nh = n}
             more == {ids[i] : i \in D}
  <2>1. {m \in MembersOf(g)' : mbr'[m].nh = n} = old \cup more
    <3>1. \A i \in 1 .. k : mbr'[ids[i]].nh = nhs[i]
        BY <1>2
    <3>2. Range(ids) = {ids[i] : i \in 1 .. k}
        BY <1>1 DEF Range
    <3>3. \A m \in MembersOf(g) : mbr'[m] = mbr[m]
        BY <1>2 DEF MembersOf
    <3> QED BY <3>1, <3>2, <3>3, <1>1, <1>3
  <2>2. old \cap more = {}
    <3>1. \A m \in old : mbr[m] # None
        BY DEF MembersOf
    <3>2. \A m \in more : mbr[m] = None
        BY <1>1, <1>2
    <3> QED BY <3>1, <3>2
  <2>3. IsFiniteSet(D) /\ D \in SUBSET DOMAIN ids /\ IsInjective(ids)
      BY <1>1, ListedNextHops DEF Made
  <2>4. IsFiniteSet(more) /\ Cardinality(more) = Cardinality(D)
    <3> HIDE DEF D
    <3> QED BY <2>3, ImageCardinality
  <2>5. IsFiniteSet(old)
      BY MembersFinite DEF MembersOf
  <2> HIDE DEF old, more
  <2>6. Cardinality(old \cup more) = Cardinality(old) + Cardinality(D)
      BY <2>2, <2>4, <2>5, DisjointCardinality
  <2>7. Weight(g, n)' = Cardinality(old \cup more)
      BY <2>1 DEF Weight
  <2>8. Cardinality(old) = want[g][n] /\ Cardinality(D) = Count(nhs, n)
      BY DEF Ready, Weighed, Weight, Count, old
  <2> QED BY <2>6, <2>7, <2>8
<1> QED BY <1>3, <1>4, <1>5 DEF Ready
-----------------------------------------------------------------------------
(* Members removed.                                                        *)

\* The members named go, of whichever group they are by now.
LEMMA RemovedMembers ==
    ASSUME TypeOK, MembersHaveGroups, NEW ms, SaiRemoves(ms)
    PROVE  /\ IsInjective(ms)
           /\ mbr' \in [Member -> SaiMember \cup {None}]
           /\ \A m \in Range(ms) : m \in Member /\ mbr[m] # None /\ mbr'[m] = None
           /\ \A m \in Member : m \notin Range(ms) => mbr'[m] = mbr[m]
           /\ \A g : Hit(g, ms) \subseteq groups \ {g}
           /\ \A g, h : h # g /\ h \notin Hit(g, ms) => SameMembers(h)
<1>1. /\ IsInjective(ms)
      /\ \A m \in Range(ms) : m \in Member /\ mbr[m] # None
      /\ mbr' = [m \in Member |-> IF m \in Range(ms) THEN None ELSE mbr[m]]
    BY DEF SaiRemoves, Range
<1>2. mbr' \in [Member -> SaiMember \cup {None}]
    BY <1>1 DEF TypeOK
<1>3. \A m \in Range(ms) : mbr'[m] = None
    BY <1>1
<1>4. \A m \in Member : m \notin Range(ms) => mbr'[m] = mbr[m]
    BY <1>1
<1>5. \A g : Hit(g, ms) \subseteq groups \ {g}
    BY <1>1 DEF Hit, MembersHaveGroups
<1>6. ASSUME NEW g, NEW h, h # g, h \notin Hit(g, ms)
      PROVE  SameMembers(h)
  <2>1. \A m \in Range(ms) : mbr[m].grp # h
      BY <1>6 DEF Hit
  <2> QED BY <2>1, <1>3, <1>4 DEF SameMembers
<1> QED BY <1>1, <1>2, <1>3, <1>4, <1>5, <1>6

\* What a removal leaves of a list that names only the group's own members.
LEMMA RemovedOwned ==
    ASSUME IInv, NEW g \in known, Owned(g), map[g] # None, NEW ms, SaiRemoves(ms),
           map'[g] = Without(map[g], ms)
    PROVE  Owned(g)'
<1> DEFINE list == map[g]
<1>1. list \in Seq(Record) /\ g \in Group
    BY DEF IInv, TypeOK
<1>2. \A m \in Member : m \notin Range(ms) => mbr'[m] = mbr[m]
    BY RemovedMembers DEF IInv
<1>3. Range(list) \subseteq {[nh |-> mbr[m].nh, mbr |-> m] : m \in MembersOf(g)} /\ IsInjective(list)
    BY DEF Owned, Recorded
<1>4. /\ map'[g] \in Seq(Record)
      /\ Range(map'[g]) = {r \in Range(list) : r.mbr \notin Range(ms)}
      /\ IsInjective(map'[g])
    BY <1>1, <1>3, WithoutFacts
<1> HIDE DEF list
<1>5. Recorded(g)' = {r \in Range(list) : r.mbr \notin Range(ms)}
    BY <1>4, NoneAssumption DEF Recorded
<1>6. ASSUME NEW r \in Range(list), r.mbr \notin Range(ms)
      PROVE  \E m \in MembersOf(g)' : r = [nh |-> mbr'[m].nh, mbr |-> m]
  <2>1. PICK m \in MembersOf(g) : r = [nh |-> mbr[m].nh, mbr |-> m]
      BY <1>3, <1>6
  <2>2. r.mbr = m
      BY <2>1
  <2>3. m \in Member /\ mbr'[m] = mbr[m]
      BY <1>2, <1>6, <2>2 DEF MembersOf
  <2>4. m \in MembersOf(g)'
      BY <2>3 DEF MembersOf
  <2> QED BY <2>1, <2>3, <2>4
<1> QED BY <1>4, <1>5, <1>6 DEF Owned

\* A deletion of members that finds all its next hops in an exact list takes as many
\* members of each from the group as it names.
LEMMA RemovedReady ==
    ASSUME IInv, NEW g \in known, Ready(g), map[g] # None, NEW nhs \in NhList,
           NEW at \in [DOMAIN nhs -> 0 .. Len(map[g])], Match(map[g], nhs, at),
           NEW ms, ms = [i \in DOMAIN nhs |-> MemberAt(map[g], at[i])], SaiRemoves(ms),
           map'[g] = Without(map[g], ms),
           want'[g] = [n \in NextHop |-> want[g][n] - Count(nhs, n)]
    PROVE  Ready(g)' /\ map'[g] # None
<1> DEFINE list == map[g]
<1>1. list \in Seq(Record) /\ Len(list) \in Nat /\ DOMAIN list = 1 .. Len(list) /\ g \in Group
    BY DEF IInv, TypeOK
<1>2. /\ nhs \in Seq(NextHop) /\ DOMAIN nhs = 1 .. Len(nhs) /\ Len(nhs) \in Nat
      /\ \A n : IsFiniteSet({i \in DOMAIN nhs : nhs[i] = n}) /\ Count(nhs, n) \in Nat
    BY ListedNextHops
<1>3. /\ IsInjective(ms)
      /\ mbr' \in [Member -> SaiMember \cup {None}]
      /\ \A m \in Range(ms) : m \in Member /\ mbr[m] # None /\ mbr'[m] = None
      /\ \A m \in Member : m \notin Range(ms) => mbr'[m] = mbr[m]
    BY RemovedMembers DEF IInv
<1>4. DOMAIN ms = DOMAIN nhs /\ Range(ms) = {ms[i] : i \in DOMAIN nhs}
    BY DEF Range
<1>5. Range(list) = {[nh |-> mbr[m].nh, mbr |-> m] : m \in MembersOf(g)} /\ IsInjective(list)
    BY DEF Ready, Exact, Recorded
<1> HIDE DEF list
<1>6. ASSUME NEW i \in DOMAIN nhs
      PROVE  ms[i] \in MembersOf(g) /\ mbr[ms[i]].nh = nhs[i]
  <2> DEFINE free == FreePlaces(list, nhs[i], {at[j] : j \in 1 .. i - 1})
  <2>1. at[i] = IF free = {} THEN 0 ELSE Least(free)
      BY <1>6 DEF Match, list
  <2>2. ms[i] = MemberAt(list, at[i]) /\ ms[i] \in Member
      BY <1>3, <1>4, <1>6 DEF list
  <2>3. at[i] # 0
      BY <2>2, RouteAssumption DEF MemberAt
  <2>4. free \in SUBSET Nat
      BY <1>1 DEF FreePlaces
  <2>5. at[i] \in free
    <3> HIDE DEF free
    <3> QED BY <2>1, <2>3, <2>4, LeastIsOne
  <2>6. at[i] \in DOMAIN list /\ list[at[i]].nh = nhs[i]
      BY <2>5 DEF FreePlaces
  <2>7. ms[i] = list[at[i]].mbr
      BY <2>2, <2>3 DEF MemberAt
  <2>8. list[at[i]] \in Range(list)
      BY <2>6 DEF Range
  <2>9. PICK m \in MembersOf(g) : list[at[i]] = [nh |-> mbr[m].nh, mbr |-> m]
      BY <2>8, <1>5
  <2>10. list[at[i]].mbr = m /\ list[at[i]].nh = mbr[m].nh
      BY <2>9
  <2> QED BY <2>6, <2>7, <2>10
<1>7. MembersOf(g)' = MembersOf(g) \ Range(ms)
    BY <1>3 DEF MembersOf
<1>8. \A m \in MembersOf(g)' : mbr'[m] = mbr[m]
    BY <1>3, <1>7 DEF MembersOf
<1>9. /\ map'[g] \in Seq(Record)
      /\ Range(map'[g]) = {r \in Range(list) : r.mbr \notin Range(ms)}
      /\ IsInjective(map'[g])
    BY <1>1, <1>5, WithoutFacts DEF list
<1>10. map'[g] # None
    BY <1>9, NoneAssumption
<1>11. Exact(g)'
  <2>1. Recorded(g)' = {r \in Range(list) : r.mbr \notin Range(ms)}
      BY <1>9, <1>10 DEF Recorded
  <2>2. \A m : [nh |-> mbr[m].nh, mbr |-> m].mbr = m
      OBVIOUS
  <2>3. {r \in Range(list) : r.mbr \notin Range(ms)}
           = {[nh |-> mbr[m].nh, mbr |-> m] : m \in MembersOf(g) \ Range(ms)}
      BY <1>5, <2>2
  <2>4. {[nh |-> mbr'[m].nh, mbr |-> m] : m \in MembersOf(g)'}
           = {[nh |-> mbr[m].nh, mbr |-> m] : m \in MembersOf(g) \ Range(ms)}
      BY <1>7, <1>8
  <2> QED BY <2>1, <2>3, <2>4 DEF Exact
<1>12. ASSUME NEW n \in NextHop
       PROVE  Weight(g, n)' = want[g][n] - Count(nhs, n) /\ Weight(g, n)' \in Nat
  <2> DEFINE D == {i \in DOMAIN nhs : nhs[i] = n}
             old == {m \in MembersOf(g) : mbr[m].nh = n}
             gone == {ms[i] : i \in D}
             left == {m \in MembersOf(g) \ Range(ms) : mbr[m].nh = n}
  <2>1. old = left \cup gone /\ left \cap gone = {}
      BY <1>4, <1>6
  <2>2. IsFiniteSet(D) /\ D \in SUBSET DOMAIN ms
      BY <1>2, <1>4
  <2>3. IsFiniteSet(gone) /\ Cardinality(gone) = Cardinality(D)
    <3>1. IsInjective(ms)
        BY <1>3
    <3> HIDE DEF D
    <3> QED BY <2>2, <3>1, ImageCardinality
  <2>4. IsFiniteSet(left) /\ Cardinality(left) \in Nat
      BY MembersFinite DEF MembersOf
  <2>5. Weight(g, n)' = Cardinality(left)
    <3>1. {m \in MembersOf(g)' : mbr'[m].nh = n} = left
        BY <1>7, <1>8
    <3> QED BY <3>1 DEF Weight
  <2>6. Cardinality(old) = want[g][n] /\ Cardinality(D) = Count(nhs, n) /\ Count(nhs, n) \in Nat
      BY <1>2 DEF Ready, Weighed, Weight, Count
  <2> HIDE DEF old, left, gone, D
  <2>7. Cardinality(old) = Cardinality(left) + Cardinality(gone)
      BY <2>1, <2>3, <2>4, DisjointCardinality
  <2> QED BY <2>3, <2>4, <2>5, <2>6, <2>7
<1>13. Weighed(g)'
    BY <1>12 DEF Weighed
<1> QED BY <1>9, <1>10, <1>11, <1>13 DEF Ready
-----------------------------------------------------------------------------
(* The steps.                                                              *)

\* What is to be shown of a step: IInv, with the groups taken one by one.
LEMMA Enough ==
    ASSUME TypeOK', MembersHaveGroups', NothingAsked',
           \A g \in known' \ (stale' \cup hit') : Owned(g)',
           \A g \in known' \ (torn' \cup hit') : Ready(g)' /\ map'[g] # None
    PROVE  IInv'
<1>1. ListIsExact'
    BY DEF ListIsExact, Ready, Exact, Owned, InSai
<1>2. WeightsAsAsked'
    BY DEF WeightsAsAsked, Ready, Weighed
<1> QED BY <1>1, <1>2 DEF IInv

LEMMA InitIInv == Init => IInv
<1> SUFFICES ASSUME Init PROVE IInv
    OBVIOUS
<1> USE RouteAssumption, NoneAssumption DEF Init
<1>1. TypeOK
    BY DEF TypeOK, NoWeights
<1>2. MembersHaveGroups /\ NothingAsked
    BY DEF MembersHaveGroups, NothingAsked
<1>3. ListIsExact /\ WeightsAsAsked
    BY DEF ListIsExact, WeightsAsAsked
<1> QED BY <1>1, <1>2, <1>3 DEF IInv

\* Routes and next hops are no part of a group.
LEMMA RoutesOnly ==
    ASSUME IInv, UNCHANGED <<groups, mbr, map, known, want, stale, torn, hit>>,
           hops' \subseteq NextHop, routes' \in [Route -> hops' \cup known \cup {None}]
    PROVE  IInv'
<1>1. TypeOK'
    BY DEF IInv, TypeOK
<1>2. MembersHaveGroups' /\ NothingAsked'
    BY DEF IInv, MembersHaveGroups, NothingAsked
<1>3. ListIsExact'
    BY DEF IInv, ListIsExact, Recorded, MembersOf, InSai
<1>4. WeightsAsAsked'
    BY DEF IInv, WeightsAsAsked, Weight, MembersOf
<1> QED BY <1>1, <1>2, <1>3, <1>4 DEF IInv

LEMMA AddStep ==
    ASSUME IInv, NEW g \in Group, NEW nhs \in NhList, MembersAdded(g, nhs),
           \/ g \notin groups /\ groups' = groups \cup {g}
           \/ g \in known /\ groups' = groups,
           known' = known \cup {g}, UNCHANGED <<hops, routes, stale, torn, hit>>
    PROVE  IInv'
<1> USE RouteAssumption
<1>1. PICK ids \in [DOMAIN nhs -> Member] :
         /\ Made(nhs, ids)
         /\ mbr' = WithMembers(g, nhs, ids)
         /\ map' = [map EXCEPT ![g] = Inserted(@, Pairs(nhs, ids))]
         /\ Asked(g, nhs)
    BY DEF MembersAdded
<1>2. TypeOK /\ MembersHaveGroups /\ NothingAsked
    BY DEF IInv
<1>3. /\ map \in [Group -> Seq(Record) \cup {None}] /\ want \in [Group -> [NextHop -> Int]]
      /\ known \subseteq groups /\ groups \subseteq Group /\ torn \subseteq groups /\ hit \subseteq groups
    BY <1>2 DEF TypeOK
<1>4. /\ nhs \in Seq(NextHop) /\ Len(nhs) \in Nat /\ DOMAIN nhs = 1 .. Len(nhs)
      /\ \A n : Count(nhs, n) \in Nat
      /\ \A i \in DOMAIN nhs : nhs[i] \in NextHop
  <2>1. /\ nhs \in Seq(NextHop) /\ Len(nhs) \in Nat /\ DOMAIN nhs = 1 .. Len(nhs)
        /\ \A n : Count(nhs, n) \in Nat
      BY ListedNextHops
  <2> QED BY <2>1
<1>5. /\ mbr' \in [Member -> SaiMember \cup {None}]
      /\ \A m \in Member : m \notin Range(ids) => mbr'[m] = mbr[m]
      /\ \A m \in Range(ids) : mbr'[m].grp = g
      /\ \A h : h # g => SameMembers(h)
  <2>1. Len(nhs) \in Nat /\ Len(nhs) <= Len(nhs) /\ ids \in [1 .. Len(nhs) -> Member]
      BY <1>4
  <2> QED BY <2>1, <1>1, <1>2, MadeMembers
<1>6. map'[g] = Inserted(map[g], Pairs(nhs, ids)) /\ \A h \in Group : h # g => map'[h] = map[h]
    BY <1>1, <1>3
<1>7. /\ \A h \in Group : h # g => want'[h] = want[h]
      /\ g \notin torn => want'[g] = [n \in NextHop |-> want[g][n] + Count(nhs, n)]
      /\ want' \in [Group -> [NextHop -> Int]]
  <2>1. [n \in NextHop |-> want[g][n] + Count(nhs, n)] \in [NextHop -> Int]
      BY <1>3, <1>4
  <2> QED BY <1>1, <1>3, <2>1 DEF Asked
<1>8. map'[g] \in Seq(Record)
  <2>1. Pairs(nhs, ids) \in Seq(Record)
    <3>1. DOMAIN ids = 1 .. Len(nhs)
        BY <1>4
    <3>2. \A i \in 1 .. Len(nhs) : [nh |-> nhs[i], mbr |-> ids[i]] \in Record
        BY <1>4 DEF Record
    <3> QED BY <1>4, <3>1, <3>2 DEF Pairs
  <2>2. map[g] # None => map[g] \in Seq(Record)
      BY <1>3
  <2>3. map[g] # None => map[g] \o Pairs(nhs, ids) \in Seq(Record)
      BY <2>1, <2>2, ConcatProperties
  <2> QED BY <1>6, <2>1, <2>3 DEF Inserted
<1>9. TypeOK'
  <2>1. map' \in [Group -> Seq(Record) \cup {None}]
      BY <1>1, <1>3, <1>6, <1>8
  <2>2. \A h \in Group \ known' : map'[h] = None
      BY <1>2, <1>6 DEF TypeOK
  <2> QED BY <1>2, <1>5, <1>7, <2>1, <2>2 DEF TypeOK
<1>10. MembersHaveGroups'
  <2>1. g \in groups' /\ groups \subseteq groups'
      BY <1>3
  <2> QED BY <2>1, <1>2, <1>5 DEF MembersHaveGroups
<1>11. NothingAsked'
    BY <1>2, <1>7 DEF NothingAsked
<1>12. ASSUME NEW h \in known' \ (torn' \cup hit')
       PROVE  Ready(h)' /\ map'[h] # None
  <2>1. CASE h = g
    <3>1. Ready(g)
        BY <1>3, <1>12, <2>1, KnownReady, NewReady
    <3>2. /\ map'[g] = Inserted(map[g], Pairs(nhs, ids))
          /\ want'[g] = [n \in NextHop |-> want[g][n] + Count(nhs, n)]
        BY <1>6, <1>7, <1>12, <2>1
    <3> QED BY <1>1, <2>1, <3>1, <3>2, AddedReady
  <2>2. CASE h # g
    <3>1. h \in known \ (torn \cup hit) /\ h \in Group
        BY <1>3, <1>12, <2>2
    <3>2. SameMembers(h) /\ map'[h] = map[h] /\ want'[h] = want[h]
        BY <1>5, <1>6, <1>7, <2>2, <3>1
    <3>3. Ready(h) /\ map[h] # None
        BY <3>1, KnownReady
    <3> QED BY <3>2, <3>3, ReadyKept
  <2> QED BY <2>1, <2>2
<1>13. ASSUME NEW h \in known' \ (stale' \cup hit')
       PROVE  Owned(h)'
  <2>1. CASE h = g
    <3>1. Owned(g)
        BY <1>3, <1>13, <2>1, KnownOwned, NewReady, ReadyOwned
    <3> QED BY <1>1, <1>6, <2>1, <3>1, AddedOwned
  <2>2. CASE h # g
    <3>1. h \in known \ (stale \cup hit) /\ h \in Group
        BY <1>3, <1>13, <2>2
    <3> QED BY <1>5, <1>6, <2>2, <3>1, KnownOwned, OwnedKept
  <2> QED BY <2>1, <2>2
<1> QED BY <1>9, <1>10, <1>11, <1>12, <1>13, Enough

\* An empty group has an id nobody is given.
LEMMA CreateEmptyStep ==
    ASSUME IInv, NEW g \in Group, GroupCreateEmpty(g)
    PROVE  IInv'
<1> USE DEF GroupCreateEmpty
<1>1. TypeOK'
    BY DEF IInv, TypeOK
<1>2. MembersHaveGroups' /\ NothingAsked'
    BY DEF IInv, MembersHaveGroups, NothingAsked
<1>3. ListIsExact'
    BY DEF IInv, ListIsExact, Recorded, MembersOf, InSai
<1>4. WeightsAsAsked'
    BY DEF IInv, WeightsAsAsked, Weight, MembersOf
<1> QED BY <1>1, <1>2, <1>3, <1>4 DEF IInv

\* The members a refused call leaves belong to a group that is not known, or torn
\* from now on.
LEMMA RefusedStep ==
    ASSUME IInv, NEW g \in Group, NEW nhs \in NhList, NEW k \in 0 .. MaxCall,
           NEW left \in [1 .. k -> Member], MembersRefused(g, nhs, left),
           \/ /\ g \notin groups
              /\ groups' = groups \cup {g} \/ (left = <<>> /\ groups' = groups)
              /\ UNCHANGED <<want, torn>>
           \/ g \in known /\ groups' = groups /\ Tear(g),
           UNCHANGED <<hops, routes, known, stale, hit>>
    PROVE  IInv'
<1>1. k \in Nat
    BY RouteAssumption
<1>2. Len(left) = k /\ DOMAIN left = 1 .. k
    BY <1>1
<1>3. /\ Made(nhs, left) /\ k <= Len(nhs) /\ mbr' = WithMembers(g, nhs, left) /\ map' = map
  <2>1. Len(left) <= Len(nhs)
      BY DEF MembersRefused, Made
  <2> QED BY <1>2, <2>1 DEF MembersRefused
<1>4. TypeOK /\ MembersHaveGroups /\ NothingAsked
    BY DEF IInv
<1>5. /\ mbr' \in [Member -> SaiMember \cup {None}]
      /\ \A m \in Member : m \notin Range(left) => mbr'[m] = mbr[m]
      /\ \A m \in Range(left) : mbr'[m].grp = g
      /\ \A h : h # g => SameMembers(h)
    BY <1>1, <1>3, <1>4, MadeMembers
<1>6. /\ torn \subseteq torn' /\ torn' \subseteq torn \cup {g}
      /\ want' \in [Group -> [NextHop -> Int]]
      /\ \A h \in Group : h # g => want'[h] = want[h]
      /\ g \in known => g \in torn'
      /\ g \notin known => want'[g] = want[g] /\ torn' = torn
  <2>1. want \in [Group -> [NextHop -> Int]] /\ NoWeights \in [NextHop -> Int] /\ known \subseteq groups
      BY <1>4 DEF TypeOK, NoWeights
  <2>2. CASE g \notin groups /\ UNCHANGED <<want, torn>>
      BY <2>1, <2>2
  <2>3. CASE g \in known /\ Tear(g)
    <3>1. /\ torn' = torn \cup {g}
          /\ want' = [want EXCEPT ![g] = NoWeights]
        BY <2>3 DEF Tear
    <3> QED BY <2>1, <2>3, <3>1
  <2> QED BY <2>2, <2>3
<1>7. /\ groups \subseteq groups' /\ groups' \subseteq groups \cup {g}
      /\ g \in groups' \/ Range(left) = {}
  <2>1. left = <<>> => DOMAIN left = {}
      OBVIOUS
  <2>2. left = <<>> => Range(left) = {}
      BY <2>1 DEF Range
  <2>3. known \subseteq groups
      BY <1>4 DEF TypeOK
  <2> QED BY <2>2, <2>3
<1>8. torn' \subseteq groups' /\ hit' \subseteq groups'
  <2>1. torn \subseteq groups /\ hit \subseteq groups /\ known \subseteq groups
      BY <1>4 DEF TypeOK
  <2> QED BY <2>1, <1>6, <1>7
<1>9. TypeOK'
    BY <1>3, <1>4, <1>5, <1>6, <1>7, <1>8 DEF TypeOK
<1>10. MembersHaveGroups'
    BY <1>4, <1>5, <1>7 DEF MembersHaveGroups
<1>11. NothingAsked'
    BY <1>4, <1>6 DEF NothingAsked
<1>12. ASSUME NEW h \in known' \ (torn' \cup hit')
       PROVE  Ready(h)' /\ map'[h] # None
  <2>1. known \subseteq groups /\ known \subseteq Group
      BY <1>4 DEF TypeOK
  <2>2. h # g /\ h \in known \ (torn \cup hit) /\ h \in Group
      BY <1>6, <1>12, <2>1
  <2>3. Ready(h) /\ map[h] # None
      BY <2>2, KnownReady
  <2>4. SameMembers(h) /\ map'[h] = map[h] /\ want'[h] = want[h]
      BY <1>3, <1>5, <1>6, <2>2
  <2> QED BY <2>3, <2>4, ReadyKept
<1>13. ASSUME NEW h \in known' \ (stale' \cup hit')
       PROVE  Owned(h)'
  <2>1. Owned(h) /\ map'[h] = map[h]
      BY <1>3, <1>13, KnownOwned
  <2>2. CASE h # g
      BY <1>5, <2>1, <2>2, OwnedKept
  <2>3. CASE h = g
    <3>1. \A m \in MembersOf(g) : m \in MembersOf(g)' /\ mbr'[m] = mbr[m]
      <4>1. \A m \in Range(left) : mbr[m] = None
          BY <1>3 DEF Made, Range
      <4> QED BY <1>5, <4>1 DEF MembersOf
    <3>2. {[nh |-> mbr[m].nh, mbr |-> m] : m \in MembersOf(g)}
             \subseteq {[nh |-> mbr'[m].nh, mbr |-> m] : m \in MembersOf(g)'}
        BY <3>1
    <3>3. Recorded(g)' = Recorded(g)
        BY <1>3 DEF Recorded
    <3> QED BY <2>1, <2>3, <3>2, <3>3 DEF Owned
  <2> QED BY <2>2, <2>3
<1> QED BY <1>9, <1>10, <1>11, <1>12, <1>13, Enough

\* A call that takes members of its group, or by its list of others, which are hit:
\* what is left to show of it is what becomes of its own group.
LEMMA RemovalStep ==
    ASSUME IInv, NEW g \in known, NEW ms, SaiRemoves(ms),
           map' \in [Group -> Seq(Record) \cup {None}], \A h \in Group : h # g => map'[h] = map[h],
           want' \in [Group -> [NextHop -> Int]], \A h \in Group : h # g => want'[h] = want[h],
           \/ /\ groups' = groups /\ known' = known
              /\ hit' = hit \cup Hit(g, ms)
           \/ /\ groups' = groups \ {g} /\ known' = known \ {g}
              /\ MembersOf(g) \subseteq Range(ms) /\ g \notin Routed
              /\ map'[g] = None /\ want'[g] = NoWeights
              /\ g \notin torn' /\ hit' = (hit \ {g}) \cup Hit(g, ms),
           torn \ {g} \subseteq torn', torn' \subseteq torn \cup {g},
           stale \ {g} \subseteq stale', stale' \subseteq torn',
           g \in known' \ (stale' \cup hit') => Owned(g)',
           g \in known' \ (torn' \cup hit') => Ready(g)' /\ map'[g] # None,
           UNCHANGED <<hops, routes>>
    PROVE  IInv'
<1>1. TypeOK /\ MembersHaveGroups /\ NothingAsked
    BY DEF IInv
<1>2. /\ known \subseteq groups /\ groups \subseteq Group /\ torn \subseteq groups
      /\ hit \subseteq groups /\ g \in Group
      /\ hops \subseteq NextHop /\ routes \in [Route -> hops \cup known \cup {None}]
    BY <1>1 DEF TypeOK
<1>3. /\ mbr' \in [Member -> SaiMember \cup {None}]
      /\ \A m \in Range(ms) : mbr'[m] = None
      /\ \A m \in Member : m \notin Range(ms) => mbr'[m] = mbr[m]
      /\ Hit(g, ms) \subseteq groups \ {g}
      /\ \A h : h # g /\ h \notin Hit(g, ms) => SameMembers(h)
    BY <1>1, RemovedMembers
<1>4. routes' \in [Route -> hops' \cup known' \cup {None}]
  <2>1. g \notin Routed => routes \in [Route -> hops \cup (known \ {g}) \cup {None}]
    <3>1. ASSUME g \notin Routed, NEW r \in Route PROVE routes[r] \in hops \cup (known \ {g}) \cup {None}
      <4>1. routes[r] \in hops \cup known \cup {None}
          BY <1>2
      <4>2. routes[r] # g \/ routes[r] = None
          BY <3>1 DEF Routed
      <4> QED BY <4>1, <4>2
    <3> QED BY <1>2, <3>1
  <2> QED BY <1>2, <2>1
<1>5. TypeOK'
  <2>1. /\ torn' \subseteq groups' /\ hit' \subseteq groups'
        /\ known' \subseteq groups' /\ groups' \subseteq Group
      BY <1>2, <1>3
  <2>2. \A h \in Group \ known' : map'[h] = None
      BY <1>1 DEF TypeOK
  <2> QED BY <1>2, <1>3, <1>4, <2>1, <2>2 DEF TypeOK
<1>6. MembersHaveGroups'
  <2> SUFFICES ASSUME NEW m \in Member, mbr'[m] # None PROVE mbr'[m].grp \in groups'
      BY DEF MembersHaveGroups
  <2>1. m \notin Range(ms) /\ mbr'[m] = mbr[m] /\ mbr[m].grp \in groups
      BY <1>1, <1>3 DEF MembersHaveGroups
  <2>2. MembersOf(g) \subseteq Range(ms) => mbr[m].grp # g
      BY <2>1 DEF MembersOf
  <2> QED BY <2>1, <2>2
<1>7. NothingAsked'
  <2> SUFFICES ASSUME NEW h \in Group \ known' PROVE want'[h] = NoWeights
      BY DEF NothingAsked
  <2> QED BY <1>1 DEF NothingAsked
<1>8. ASSUME NEW h \in known', h # g, h \notin hit'
      PROVE  /\ h \in known \ hit /\ h \in Group /\ SameMembers(h)
             /\ map'[h] = map[h] /\ want'[h] = want[h]
  <2>1. h \in known \ hit /\ h \in Group /\ h \notin Hit(g, ms)
      BY <1>2, <1>8
  <2> QED BY <1>3, <1>8, <2>1
<1>9. ASSUME NEW h \in known' \ (stale' \cup hit')
      PROVE  Owned(h)'
  <2>1. CASE h = g
      BY <1>9, <2>1
  <2>2. CASE h # g
    <3>1. h \in known \ (stale \cup hit)
        BY <1>8, <1>9, <2>2
    <3> QED BY <1>8, <1>9, <2>2, <3>1, KnownOwned, OwnedKept
  <2> QED BY <2>1, <2>2
<1>10. ASSUME NEW h \in known' \ (torn' \cup hit')
       PROVE  Ready(h)' /\ map'[h] # None
  <2>1. CASE h = g
      BY <1>10, <2>1
  <2>2. CASE h # g
    <3>1. h \in known \ (torn \cup hit)
        BY <1>8, <1>10, <2>2
    <3>2. Ready(h) /\ map[h] # None
        BY <3>1, KnownReady
    <3> QED BY <1>8, <1>10, <2>2, <3>2, ReadyKept
  <2> QED BY <2>1, <2>2
<1> QED BY <1>5, <1>6, <1>7, <1>9, <1>10, Enough

LEMMA NoWeightsType == NoWeights \in [NextHop -> Int]
BY DEF NoWeights

\* Nothing asked of one group leaves what is asked of the others.
LEMMA ForgottenWeights ==
    ASSUME IInv, NEW g \in Group, want' = [want EXCEPT ![g] = NoWeights]
    PROVE  /\ want' \in [Group -> [NextHop -> Int]] /\ want'[g] = NoWeights
           /\ \A h \in Group : h # g => want'[h] = want[h]
<1>1. want \in [Group -> [NextHop -> Int]]
    BY DEF IInv, TypeOK
<1> QED BY <1>1, NoWeightsType

\* A group is deleted, or the deletion stops after some members or after all.
LEMMA DeleteStep ==
    ASSUME IInv, NEW g \in Group,
           GroupDelete(g) \/ GroupDeleteStops(g) \/ GroupDeleteRefused(g)
    PROVE  IInv'
<1>1. map \in [Group -> Seq(Record) \cup {None}] /\ stale \subseteq torn
    BY DEF IInv, TypeOK
<1>2. map' = [map EXCEPT ![g] = None] =>
         /\ map' \in [Group -> Seq(Record) \cup {None}] /\ map'[g] = None
         /\ \A h \in Group : h # g => map'[h] = map[h]
    BY <1>1
<1>3. CASE GroupDelete(g)
  <2> DEFINE ms == Members(map[g])
  <2>1. /\ g \in known /\ SaiRemoves(ms)
        /\ map' = [map EXCEPT ![g] = None] /\ want' = [want EXCEPT ![g] = NoWeights]
        /\ groups' = groups \ {g} /\ known' = known \ {g}
        /\ stale' = stale \ {g} /\ torn' = torn \ {g}
        /\ hit' = (hit \ {g}) \cup Hit(g, ms)
        /\ g \notin Routed /\ MembersOf(g) \subseteq Range(ms) /\ UNCHANGED <<hops, routes>>
      BY <1>3 DEF GroupDelete
  <2> HIDE DEF ms
  <2>2. /\ want' \in [Group -> [NextHop -> Int]] /\ want'[g] = NoWeights
        /\ \A h \in Group : h # g => want'[h] = want[h]
      BY <2>1, ForgottenWeights
  <2>3. stale' \subseteq torn' /\ g \notin known'
      BY <1>1, <2>1
  <2> QED BY <1>2, <2>1, <2>2, <2>3, RemovalStep
<1>4. CASE GroupDeleteStops(g)
  <2>1. PICK k \in 1 .. Len(map[g]) - 1 :
           LET ms == Members(SubSeq(map[g], 1, k))
           IN  SaiRemoves(ms) /\ hit' = hit \cup Hit(g, ms)
      BY <1>4 DEF GroupDeleteStops
  <2> DEFINE ms == Members(SubSeq(map[g], 1, k))
  <2>2. /\ g \in known /\ SaiRemoves(ms)
        /\ stale' = stale \cup {g} /\ torn' = torn \cup {g}
        /\ hit' = hit \cup Hit(g, ms) /\ want' = [want EXCEPT ![g] = NoWeights]
        /\ UNCHANGED <<hops, groups, map, routes, known>>
      BY <1>4, <2>1 DEF GroupDeleteStops, Tear
  <2> HIDE DEF ms
  <2>3. /\ want' \in [Group -> [NextHop -> Int]]
        /\ \A h \in Group : h # g => want'[h] = want[h]
      BY <2>2, ForgottenWeights
  <2>4. stale' \subseteq torn' /\ g \in stale' /\ g \in torn'
      BY <1>1, <2>2
  <2> QED BY <1>1, <2>2, <2>3, <2>4, RemovalStep
<1>5. CASE GroupDeleteRefused(g)
  <2> DEFINE ms == Members(map[g])
  <2>1. /\ g \in known /\ SaiRemoves(ms)
        /\ map' = [map EXCEPT ![g] = None] /\ want' = [want EXCEPT ![g] = NoWeights]
        /\ stale' = stale \ {g} /\ torn' = torn \cup {g}
        /\ hit' = hit \cup Hit(g, ms)
        /\ UNCHANGED <<hops, groups, routes, known>>
      BY <1>5 DEF GroupDeleteRefused, Tear
  <2> HIDE DEF ms
  <2>2. /\ want' \in [Group -> [NextHop -> Int]]
        /\ \A h \in Group : h # g => want'[h] = want[h]
      BY <2>1, ForgottenWeights
  <2>3. stale' \subseteq torn' /\ g \in torn'
      BY <1>1, <2>1
  <2>4. Owned(g)'
      BY <1>2, <2>1 DEF Owned, Recorded
  <2> QED BY <1>2, <2>1, <2>2, <2>3, <2>4, RemovalStep
<1> QED BY <1>3, <1>4, <1>5

\* What a deletion of members makes of the map.
LEMMA WithoutInMap ==
    ASSUME IInv, NEW g \in known, map[g] # None, NEW ms, map' = [map EXCEPT ![g] = Without(@, ms)]
    PROVE  /\ map' \in [Group -> Seq(Record) \cup {None}]
           /\ map'[g] = Without(map[g], ms)
           /\ \A h \in Group : h # g => map'[h] = map[h]
<1>1. map \in [Group -> Seq(Record) \cup {None}] /\ g \in Group
    BY DEF IInv, TypeOK
<1>2. Without(map[g], ms) \in Seq(Record)
    BY <1>1, WithoutFacts
<1> QED BY <1>1, <1>2

\* A stopped deletion of members leaves a list of what it has not removed.
LEMMA DelNextHopsStopsStep ==
    ASSUME IInv, NEW g \in Group, NEW nhs \in NhList, DelNextHopsStops(g, nhs)
    PROVE  IInv'
<1>1. PICK at \in [DOMAIN nhs -> 0 .. Len(map[g])], k \in 1 .. Len(nhs) - 1 :
         LET ms == [i \in 1 .. k |-> MemberAt(map[g], at[i])]
         IN  /\ SaiRemoves(ms)
             /\ map' = [map EXCEPT ![g] = Without(@, ms)]
             /\ hit' = hit \cup Hit(g, ms)
    BY DEF DelNextHopsStops
<1> DEFINE ms == [i \in 1 .. k |-> MemberAt(map[g], at[i])]
<1>2. /\ g \in known /\ map[g] # None /\ SaiRemoves(ms)
      /\ map' = [map EXCEPT ![g] = Without(@, ms)]
      /\ hit' = hit \cup Hit(g, ms)
      /\ torn' = torn \cup {g} /\ want' = [want EXCEPT ![g] = NoWeights]
      /\ UNCHANGED <<hops, groups, routes, known, stale>>
    BY <1>1 DEF DelNextHopsStops, Tear
<1> HIDE DEF ms
<1>3. stale \subseteq torn
    BY DEF IInv, TypeOK
<1>4. /\ map' \in [Group -> Seq(Record) \cup {None}]
      /\ map'[g] = Without(map[g], ms)
      /\ \A h \in Group : h # g => map'[h] = map[h]
    BY <1>2, WithoutInMap
<1>5. /\ want' \in [Group -> [NextHop -> Int]]
      /\ \A h \in Group : h # g => want'[h] = want[h]
    BY <1>2, ForgottenWeights
<1>6. stale' \subseteq torn' /\ g \in torn'
    BY <1>2, <1>3
<1>7. g \in known' \ (stale' \cup hit') => Owned(g)'
    BY <1>2, <1>4, KnownOwned, RemovedOwned
<1> QED BY <1>2, <1>4, <1>5, <1>6, <1>7, RemovalStep

\* A deletion that finds every next hop takes as many members as it names.
LEMMA DelNextHopsStep ==
    ASSUME IInv, NEW g \in Group, NEW nhs \in NhList, DelNextHops(g, nhs)
    PROVE  IInv'
<1>1. PICK at \in [DOMAIN nhs -> 0 .. Len(map[g])] :
         LET ms == [i \in DOMAIN nhs |-> MemberAt(map[g], at[i])]
         IN  /\ Match(map[g], nhs, at)
             /\ SaiRemoves(ms)
             /\ map' = [map EXCEPT ![g] = Without(@, ms)]
             /\ hit' = hit \cup Hit(g, ms)
    BY DEF DelNextHops
<1> DEFINE ms == [i \in DOMAIN nhs |-> MemberAt(map[g], at[i])]
<1>2. /\ Match(map[g], nhs, at) /\ ms = [i \in DOMAIN nhs |-> MemberAt(map[g], at[i])]
      /\ g \in known /\ map[g] # None /\ SaiRemoves(ms)
      /\ map' = [map EXCEPT ![g] = Without(@, ms)]
      /\ hit' = hit \cup Hit(g, ms)
      /\ want' = [want EXCEPT ![g] = IF g \in torn THEN @
                                     ELSE [n \in NextHop |-> @[n] - Count(nhs, n)]]
      /\ UNCHANGED <<hops, groups, routes, known, stale, torn>>
    BY <1>1 DEF DelNextHops
<1> HIDE DEF ms
<1>3. want \in [Group -> [NextHop -> Int]] /\ stale \subseteq torn
    BY DEF IInv, TypeOK
<1>4. /\ map' \in [Group -> Seq(Record) \cup {None}]
      /\ map'[g] = Without(map[g], ms)
      /\ \A h \in Group : h # g => map'[h] = map[h]
    BY <1>2, WithoutInMap
<1>5. /\ want' \in [Group -> [NextHop -> Int]]
      /\ \A h \in Group : h # g => want'[h] = want[h]
      /\ g \notin torn => want'[g] = [n \in NextHop |-> want[g][n] - Count(nhs, n)]
  <2>1. \A n : Count(nhs, n) \in Nat
      BY ListedNextHops
  <2>2. [n \in NextHop |-> want[g][n] - Count(nhs, n)] \in [NextHop -> Int]
      BY <1>3, <2>1
  <2> QED BY <1>2, <1>3, <2>2
<1>6. g \in known' \ (stale' \cup hit') => Owned(g)'
    BY <1>2, <1>4, KnownOwned, RemovedOwned
<1>7. g \in known' \ (torn' \cup hit') => Ready(g)' /\ map'[g] # None
  <2> SUFFICES ASSUME g \in known' \ (torn' \cup hit') PROVE Ready(g)' /\ map'[g] # None
      OBVIOUS
  <2>1. g \in known \ (torn \cup hit)
      BY <1>2
  <2>2. Ready(g) /\ want'[g] = [n \in NextHop |-> want[g][n] - Count(nhs, n)]
      BY <1>5, <2>1, KnownReady
  <2>3. at \in [DOMAIN nhs -> 0 .. Len(map[g])]
      BY <1>1
  <2>4. /\ g \in known /\ map[g] # None /\ Match(map[g], nhs, at) /\ SaiRemoves(ms)
        /\ ms = [i \in DOMAIN nhs |-> MemberAt(map[g], at[i])]
        /\ map'[g] = Without(map[g], ms)
      BY <1>2, <1>4
  <2> QED BY <2>2, <2>3, <2>4, RemovedReady
<1>8. stale' \subseteq torn'
    BY <1>2, <1>3
<1> QED BY <1>2, <1>4, <1>5, <1>6, <1>7, <1>8, RemovalStep

-----------------------------------------------------------------------------
\* Every step preserves IInv.
LEMMA NextStep == IInv /\ [Next]_vars => IInv'
<1> SUFFICES ASSUME IInv, [Next]_vars PROVE IInv'
    OBVIOUS
<1>1. known \subseteq Group
    BY DEF IInv, TypeOK
<1>2. CASE \E n \in NextHop : NextHopAdd(n) \/ NextHopDelete(n)
  <2>1. PICK n \in NextHop : NextHopAdd(n) \/ NextHopDelete(n)
      BY <1>2
  <2>2. /\ UNCHANGED <<groups, mbr, map, routes, known, want, stale, torn, hit>>
        /\ hops' \subseteq NextHop
      BY <2>1 DEF NextHopAdd, NextHopDelete, IInv, TypeOK
  <2>3. routes' \in [Route -> hops' \cup known \cup {None}]
      BY <2>1, RouteAssumption DEF NextHopAdd, NextHopDelete, Routed, IInv, TypeOK
  <2> QED BY <2>2, <2>3, RoutesOnly
<1>3. CASE \E r \in Route, h \in NextHop \cup Group : RouteSet(r, h)
    BY <1>3, RoutesOnly DEF RouteSet, IInv, TypeOK
<1>4. CASE \E r \in Route : RouteDelete(r)
    BY <1>4, RoutesOnly DEF RouteDelete, IInv, TypeOK
<1>5. CASE \E g \in Group, nhs \in NhList : GroupCreate(g, nhs)
    BY <1>5, AddStep DEF GroupCreate
<1>6. CASE \E g \in Group, nhs \in NhList : AddNextHops(g, nhs)
  <2>1. PICK g \in Group, nhs \in NhList : AddNextHops(g, nhs)
      BY <1>6
  <2>2. /\ MembersAdded(g, nhs) /\ g \in known /\ groups' = groups /\ known' = known \cup {g}
        /\ UNCHANGED <<hops, routes, stale, torn, hit>>
      BY <2>1 DEF AddNextHops
  <2> QED BY <2>2, AddStep
<1>7. CASE \E g \in Group, nhs \in NhList : GroupCreateRefused(g, nhs)
  <2>1. PICK g \in Group, nhs \in NhList : GroupCreateRefused(g, nhs)
      BY <1>7
  <2>2. PICK k \in 0 .. MaxCall : \E left \in [1 .. k -> Member] :
           /\ MembersRefused(g, nhs, left)
           /\ groups' = groups \cup {g} \/ (left = <<>> /\ groups' = groups)
      BY <2>1 DEF GroupCreateRefused
  <2>3. PICK left \in [1 .. k -> Member] :
           /\ MembersRefused(g, nhs, left)
           /\ groups' = groups \cup {g} \/ (left = <<>> /\ groups' = groups)
      BY <2>2
  <2>4. g \notin groups /\ UNCHANGED <<hops, routes, known, want, stale, torn, hit>>
      BY <2>1 DEF GroupCreateRefused
  <2> QED BY <2>3, <2>4, RefusedStep
<1>8. CASE \E g \in Group, nhs \in NhList : AddNextHopsRefused(g, nhs)
  <2>1. PICK g \in Group, nhs \in NhList : AddNextHopsRefused(g, nhs)
      BY <1>8
  <2>2. PICK k \in 1 .. MaxCall : \E left \in [1 .. k -> Member] :
           MembersRefused(g, nhs, left)
      BY <2>1 DEF AddNextHopsRefused
  <2>3. PICK left \in [1 .. k -> Member] :
           MembersRefused(g, nhs, left)
      BY <2>2
  <2>4. k \in 0 .. MaxCall
      BY RouteAssumption
  <2>5. g \in known /\ Tear(g) /\ UNCHANGED <<hops, groups, routes, known, stale, hit>>
      BY <2>1 DEF AddNextHopsRefused
  <2> QED BY <2>3, <2>4, <2>5, RefusedStep
<1>9. CASE \E g \in Group, nhs \in NhList : DelNextHops(g, nhs) \/ DelNextHopsStops(g, nhs)
    BY <1>9, DelNextHopsStep, DelNextHopsStopsStep
<1>10. CASE \E g \in Group : GroupCreateEmpty(g)
    BY <1>10, CreateEmptyStep
<1>11. CASE \E g \in Group : GroupDelete(g) \/ GroupDeleteStops(g) \/ GroupDeleteRefused(g)
    BY <1>11, DeleteStep
<1>12. CASE UNCHANGED vars
  <2>1. UNCHANGED <<groups, mbr, map, known, want, stale, torn, hit, hops, routes>>
      BY <1>12 DEF vars
  <2> QED BY <2>1, RoutesOnly DEF IInv, TypeOK
<1> QED
    BY <1>2, <1>3, <1>4, <1>5, <1>6, <1>7, <1>8, <1>9, <1>10, <1>11, <1>12 DEF Next

\* IInv holds in every state of every instance.
THEOREM RouteInvariance == Spec => []IInv
    BY InitIInv, NextStep, PTL DEF Spec

\* Objects, members, lists and histories are of their types.
THEOREM RouteTypesCorrect == Spec => []TypeOK
    BY RouteInvariance, PTL DEF IInv

\* The list of a group names its members in SAI, but for what a stopped call on it, or
\* another group's stale list, has changed.
THEOREM ListAlwaysExact == Spec => []ListIsExact
    BY RouteInvariance, PTL DEF IInv

\* A group no call on which has stopped, and that no other group's stale list has taken
\* a member of, has the weights the calls that were answered OK leave it.
THEOREM WeightsAlwaysAsAsked == Spec => []WeightsAsAsked
    BY RouteInvariance, PTL DEF IInv
=============================================================================
