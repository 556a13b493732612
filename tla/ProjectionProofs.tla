-------------------------- MODULE ProjectionProofs --------------------------
(***************************************************************************)
(* What is derived from all source posts together: Event Lineage           *)
(* (LineageTree, LineageGraph), the pages of an ontology neighborhood      *)
(* (NeighborhoodPages) and lineage for other systems (ExternalLineage),    *)
(* each proved for its own specification and then for MCProjections, whose *)
(* behaviours are behaviours of all three.                                 *)
(***************************************************************************)
EXTENDS MCProjections, FiniteSetTheorems, WellFoundedInduction, TLAPS

-----------------------------------------------------------------------------
(* Numbers, finite sets and sums over them. *)

\* A set of numbers has a least one.
LEMMA LeastNumber ==
    ASSUME NEW T \in SUBSET Nat, T # {}
    PROVE  \E n \in T : \A m \in T : n <= m
<1> DEFINE R == {pair \in Nat \X Nat : pair[1] < pair[2]}
<1>1. IsWellFoundedOn(R, Nat)
  BY NatLessThanWellFounded, Zenon DEF OpToRel
<1>2. PICK n \in T : \A m \in T : ~(<<m, n>> \in R)
  <2> HIDE DEF R
  <2> QED
    BY <1>1, WFMin
<1>3. \A m \in T : ~(m < n)
  <2> SUFFICES ASSUME NEW m \in T, m < n PROVE FALSE
    OBVIOUS
  <2>1. <<m, n>> \in R
    OBVIOUS
  <2> HIDE DEF R
  <2> QED
    BY <1>2, <2>1
<1>4. \A m \in T : n <= m
  BY <1>3
<1> QED
  BY <1>4

\* Without one of its elements a finite set has one less.
LEMMA OneLess ==
    ASSUME NEW S, IsFiniteSet(S), NEW x \in S
    PROVE  /\ IsFiniteSet(S \ {x})
           /\ Cardinality(S) \in Nat /\ Cardinality(S \ {x}) \in Nat
           /\ Cardinality(S \ {x}) = Cardinality(S) - 1
<1>1. IsFiniteSet(S \ {x}) /\ Cardinality(S \ {x}) = Cardinality(S) - 1
  BY FS_RemoveElement
<1>2. Cardinality(S) \in Nat /\ Cardinality(S \ {x}) \in Nat
  BY <1>1, FS_CardinalityType
<1> QED
  BY <1>1, <1>2

\* Of finite sets one is such that none of them is it without one of its elements.
LEMMA SmallestSet ==
    ASSUME NEW sets, sets # {}, \A some \in sets : IsFiniteSet(some)
    PROVE  \E some \in sets : \A x \in some : some \ {x} \notin sets
<1> DEFINE sizes == {Cardinality(some) : some \in sets}
<1>1. sizes \in SUBSET Nat /\ sizes # {}
  BY FS_CardinalityType
<1>2. PICK n \in sizes : \A m \in sizes : n <= m
  <2> HIDE DEF sizes
  <2> QED
    BY <1>1, LeastNumber
<1>3. PICK some \in sets : n = Cardinality(some)
  OBVIOUS
<1>4. ASSUME NEW x \in some, some \ {x} \in sets PROVE FALSE
  <2>1. Cardinality(some \ {x}) \in sizes
    BY <1>4
  <2>2. /\ Cardinality(some) \in Nat /\ Cardinality(some \ {x}) \in Nat
        /\ Cardinality(some \ {x}) = Cardinality(some) - 1
    BY OneLess
  <2> HIDE DEF sizes
  <2> QED
    BY <1>2, <1>3, <2>1, <2>2
<1> QED
  BY <1>4

\* One step of a sum over a set.
Added(f, g, some) ==
    IF some = {} THEN 0 ELSE LET x == CHOOSE x \in some : TRUE IN f[x] + g[some \ {x}]

\* The element a step adds.
Adds(some) == CHOOSE x \in some : TRUE

LEMMA AddsOne ==
    ASSUME NEW f, NEW g, NEW some, some # {}
    PROVE  Adds(some) \in some /\ Added(f, g, some) = f[Adds(some)] + g[some \ {Adds(some)}]
BY DEF Adds, Added

\* A sum of numbers over a finite set exists: up to any size there is a function that follows
\* its definition.
LEMMA SumsExist ==
    ASSUME NEW f, IsFiniteSet(DOMAIN f), \A x \in DOMAIN f : f[x] \in Nat
    PROVE  \E g \in [SUBSET DOMAIN f -> Nat] : \A some \in SUBSET DOMAIN f : g[some] = Added(f, g, some)
<1> DEFINE Subsets == SUBSET DOMAIN f
           Upto(n) == \E g \in [Subsets -> Nat] :
                          \A some \in Subsets : Cardinality(some) <= n => g[some] = Added(f, g, some)
           never == {n \in Nat : ~Upto(n)}
<1>1. \A some \in Subsets : IsFiniteSet(some) /\ Cardinality(some) \in Nat
  BY FS_Subset, FS_CardinalityType
<1>2. Upto(0)
  <2> DEFINE g == [some \in Subsets |-> 0]
  <2>1. \A some \in Subsets : Cardinality(some) <= 0 => some = {}
    BY <1>1, FS_EmptySet
  <2>2. \A some \in Subsets : Cardinality(some) <= 0 => g[some] = Added(f, g, some)
    BY <2>1 DEF Added
  <2>3. g \in [Subsets -> Nat]
    OBVIOUS
  <2> HIDE DEF g
  <2> QED
    BY <2>2, <2>3
<1>3. ASSUME NEW n \in Nat, Upto(n) PROVE Upto(n + 1)
  <2>1. PICK g \in [Subsets -> Nat] :
            \A some \in Subsets : Cardinality(some) <= n => g[some] = Added(f, g, some)
    BY <1>3
  <2> DEFINE h == [some \in Subsets |-> Added(f, g, some)]
  <2>2. \A some \in Subsets : Added(f, g, some) \in Nat
    <3> SUFFICES ASSUME NEW some \in Subsets, some # {} PROVE Added(f, g, some) \in Nat
      BY DEF Added
    <3> PICK x : x = Adds(some)
      OBVIOUS
    <3>1. x \in some /\ Added(f, g, some) = f[x] + g[some \ {x}]
      BY AddsOne
    <3>2. f[x] \in Nat /\ g[some \ {x}] \in Nat
      BY <3>1
    <3> QED
      BY <3>1, <3>2
  <2>3. h \in [Subsets -> Nat]
    BY <2>2
  <2>4. ASSUME NEW some \in Subsets, Cardinality(some) <= n + 1 PROVE h[some] = Added(f, h, some)
    <3>1. CASE some = {}
      BY <3>1 DEF Added
    <3>2. CASE some # {}
      <4> PICK x : x = Adds(some)
        OBVIOUS
      <4>1. x \in some
        BY <3>2, AddsOne
      <4>2. some \ {x} \in Subsets
        OBVIOUS
      <4>3. Cardinality(some \ {x}) <= n
        <5>1. IsFiniteSet(some)
          BY <1>1
        <5>2. /\ Cardinality(some) \in Nat /\ Cardinality(some \ {x}) \in Nat
              /\ Cardinality(some \ {x}) = Cardinality(some) - 1
          BY <4>1, <5>1, OneLess
        <5> QED
          BY <2>4, <5>2
      <4>4. h[some \ {x}] = g[some \ {x}]
        BY <2>1, <4>2, <4>3
      <4>5. h[some] = f[x] + g[some \ {x}]
        BY <3>2, AddsOne
      <4>6. Added(f, h, some) = f[x] + h[some \ {x}]
        <5> HIDE DEF h
        <5> QED
          BY <3>2, AddsOne
      <4> QED
        BY <4>4, <4>5, <4>6
    <3> QED
      BY <3>1, <3>2
  <2> HIDE DEF h
  <2> QED
    BY <2>3, <2>4
<1>4. never = {}
  <2> SUFFICES ASSUME never # {} PROVE FALSE
    OBVIOUS
  <2>1. PICK n \in never : \A m \in never : n <= m
    BY LeastNumber
  <2>2. n \in Nat /\ ~Upto(n) /\ n # 0
    BY <1>2
  <2>3. n - 1 \in Nat /\ Upto(n - 1)
    <3> HIDE DEF Upto
    <3> QED
      BY <2>1, <2>2
  <2>4. Upto((n - 1) + 1)
    <3> HIDE DEF Upto
    <3> QED
      BY <1>3, <2>3
  <2> HIDE DEF Upto
  <2> QED
    BY <2>2, <2>4
<1>5. Upto(Cardinality(DOMAIN f))
  <2> HIDE DEF Upto
  <2> QED
    BY <1>4, FS_CardinalityType
<1>6. \A some \in Subsets : Cardinality(some) <= Cardinality(DOMAIN f)
  BY FS_Subset
<1> QED
  BY <1>5, <1>6

\* SumFunction follows it too: two functions that do are equal.
LEMMA SumIs ==
    ASSUME NEW f, IsFiniteSet(DOMAIN f), \A x \in DOMAIN f : f[x] \in Nat
    PROVE  \E g \in [SUBSET DOMAIN f -> Nat] :
              /\ \A some \in SUBSET DOMAIN f : g[some] = Added(f, g, some)
              /\ SumFunction(f) = g[DOMAIN f]
<1> DEFINE Subsets == SUBSET DOMAIN f
           Is(g) == g = [some \in Subsets |-> Added(f, g, some)]
           sums == CHOOSE g : Is(g)
<1>1. SumFunction(f) = sums[DOMAIN f]
  BY DEF SumFunction, SumFunctionOnSet, FoldFunctionOnSet, MapThenFoldSet, Added
<1>2. PICK g \in [Subsets -> Nat] : \A some \in Subsets : g[some] = Added(f, g, some)
  BY SumsExist
<1>3. Is(g)
  BY <1>2
<1>4. Is(sums)
  BY <1>3
<1>5. \A some \in Subsets : sums[some] = Added(f, sums, some)
  BY <1>4
<1> HIDE DEF sums, Is
<1>6. \A some \in Subsets : sums[some] = g[some]
  <2> DEFINE differ == {some \in Subsets : sums[some] # g[some]}
  <2> SUFFICES ASSUME differ # {} PROVE FALSE
    OBVIOUS
  <2>1. \A some \in differ : IsFiniteSet(some)
    BY FS_Subset
  <2>2. PICK some \in differ : \A x \in some : some \ {x} \notin differ
    <3> HIDE DEF differ
    <3> QED
      BY <2>1, SmallestSet
  <2>3. some # {}
    BY <1>2, <1>5 DEF Added
  <2> PICK x : x = Adds(some)
    OBVIOUS
  <2>4. x \in some /\ some \ {x} \in Subsets
    BY <2>3, AddsOne
  <2>5. sums[some \ {x}] = g[some \ {x}]
    BY <2>2, <2>4
  <2>6. sums[some] = f[x] + sums[some \ {x}]
    <3>1. sums[some] = Added(f, sums, some)
      BY <1>5
    <3> QED
      BY <2>3, <3>1, AddsOne
  <2>7. g[some] = f[x] + g[some \ {x}]
    <3>1. g[some] = Added(f, g, some)
      BY <1>2
    <3> QED
      BY <2>3, <3>1, AddsOne
  <2> QED
    BY <2>5, <2>6, <2>7
<1>7. SumFunction(f) = g[DOMAIN f]
  BY <1>1, <1>6
<1> QED
  BY <1>2, <1>7

LEMMA SumIsNat ==
    ASSUME NEW f, IsFiniteSet(DOMAIN f), \A x \in DOMAIN f : f[x] \in Nat
    PROVE  SumFunction(f) \in Nat
<1>1. PICK g \in [SUBSET DOMAIN f -> Nat] : SumFunction(f) = g[DOMAIN f]
  BY SumIs
<1> QED
  BY <1>1

\* A sum of greater numbers is not less.
LEMMA SumsGrow ==
    ASSUME NEW f, NEW h, DOMAIN f = DOMAIN h, IsFiniteSet(DOMAIN f),
           \A x \in DOMAIN f : f[x] \in Nat /\ h[x] \in Nat /\ f[x] <= h[x]
    PROVE  SumFunction(f) <= SumFunction(h)
<1> DEFINE Subsets == SUBSET DOMAIN f
<1>1. PICK s \in [Subsets -> Nat] :
         /\ \A some \in Subsets : s[some] = Added(f, s, some)
         /\ SumFunction(f) = s[DOMAIN f]
  BY SumIs
<1>2. PICK t \in [Subsets -> Nat] :
         /\ \A some \in Subsets : t[some] = Added(h, t, some)
         /\ SumFunction(h) = t[DOMAIN f]
  BY SumIs
<1>3. \A some \in Subsets : s[some] <= t[some]
  <2> DEFINE larger == {some \in Subsets : ~(s[some] <= t[some])}
  <2> SUFFICES ASSUME larger # {} PROVE FALSE
    OBVIOUS
  <2>1. \A some \in larger : IsFiniteSet(some)
    BY FS_Subset
  <2>2. PICK some \in larger : \A x \in some : some \ {x} \notin larger
    <3> HIDE DEF larger
    <3> QED
      BY <2>1, SmallestSet
  <2>3. some # {}
    BY <1>1, <1>2 DEF Added
  <2> PICK x : x = Adds(some)
    OBVIOUS
  <2>4. x \in some /\ some \ {x} \in Subsets
    BY <2>3, AddsOne
  <2>5. s[some \ {x}] <= t[some \ {x}]
    BY <2>2, <2>4
  <2>6. s[some] = f[x] + s[some \ {x}] /\ t[some] = h[x] + t[some \ {x}]
    BY <1>1, <1>2, <2>3, AddsOne
  <2>7. f[x] \in Nat /\ h[x] \in Nat /\ f[x] <= h[x]
    BY <2>4
  <2>8. s[some \ {x}] \in Nat /\ t[some \ {x}] \in Nat
    BY <2>4
  <2>9. s[some] <= t[some]
    BY <2>5, <2>6, <2>7, <2>8
  <2> QED
    BY <2>9
<1> QED
  BY <1>1, <1>2, <1>3

-----------------------------------------------------------------------------
(* Reconstruction. *)

\* A finite group has an order by time.
LEMMA OrdersExist ==
    ASSUME NEW members \in SUBSET Events
    PROVE  Orders(members) # {}
<1> DEFINE without == {some \in SUBSET Events : Orders(some) = {}}
<1> SUFFICES ASSUME without # {} PROVE FALSE
  OBVIOUS
<1>1. \A some \in without : IsFiniteSet(some)
  BY TreeClock, FS_Subset
<1>2. PICK some \in without : \A x \in some : some \ {x} \notin without
  <2> HIDE DEF without
  <2> QED
    BY <1>1, SmallestSet
<1>3. some # {}
  <2> SUFFICES ASSUME some = {} PROVE FALSE
    OBVIOUS
  <2>1. Cardinality(some) = 0
    BY FS_EmptySet
  <2>2. \A order \in [1 .. 0 -> some] : order \in Orders(some)
    BY <2>1 DEF Orders
  <2>3. [i \in 1 .. 0 |-> i] \in [1 .. 0 -> some]
    OBVIOUS
  <2> QED
    BY <2>2, <2>3
<1> DEFINE times == {At[x] : x \in some}
<1>4. times \in SUBSET Nat /\ times # {}
  BY <1>3, TreeClock
<1>5. PICK n \in times : \A m \in times : n <= m
  <2> HIDE DEF times
  <2> QED
    BY <1>4, LeastNumber
<1>6. PICK first \in some : At[first] = n
  OBVIOUS
<1> DEFINE rest == some \ {first}
<1>7. /\ IsFiniteSet(some) /\ IsFiniteSet(rest) /\ Cardinality(some) \in Nat
      /\ Cardinality(rest) \in Nat /\ Cardinality(rest) = Cardinality(some) - 1
  BY <1>1, OneLess
<1>8. rest \in SUBSET Events /\ rest \notin without
  BY <1>2
<1>9. PICK order : order \in Orders(rest)
  BY <1>8
<1> DEFINE size == Cardinality(some)
           longer == [i \in 1 .. size |-> IF i = 1 THEN first ELSE order[i - 1]]
<1>10. order \in [1 .. size - 1 -> rest]
  BY <1>7, <1>9 DEF Orders
<1>11. \A i, j \in 1 .. size - 1 : i < j => order[i] # order[j] /\ At[order[i]] <= At[order[j]]
  BY <1>7, <1>9 DEF Orders
<1>12. longer \in [1 .. size -> some]
  BY <1>7, <1>10
<1>13. ASSUME NEW i \in 1 .. size, NEW j \in 1 .. size, i < j
       PROVE  longer[i] # longer[j] /\ At[longer[i]] <= At[longer[j]]
  <2>1. j - 1 \in 1 .. size - 1 /\ longer[j] = order[j - 1] /\ order[j - 1] \in rest
    BY <1>7, <1>10, <1>13
  <2>2. CASE i = 1
    <3>1. longer[i] = first
      BY <2>2
    <3>2. At[first] <= At[order[j - 1]]
      BY <1>5, <1>6, <2>1
    <3> QED
      BY <2>1, <3>1, <3>2
  <2>3. CASE i # 1
    <3>1. i - 1 \in 1 .. size - 1 /\ longer[i] = order[i - 1] /\ i - 1 < j - 1
      BY <1>7, <1>13, <2>3
    <3> HIDE DEF longer, rest
    <3> QED
      BY <1>11, <2>1, <3>1
  <2> QED
    BY <2>2, <2>3
<1>14. longer \in Orders(some)
  <2> HIDE DEF longer
  <2> QED
    BY <1>12, <1>13 DEF Orders
<1> QED
  BY <1>14

\* A record has no more candidates than the window and the records before it allow.
LEMMA FewCandidates ==
    ASSUME NEW order, NEW k \in Nat
    PROVE  /\ Cardinality(Candidates(order, k + 1)) \in Nat
           /\ Cardinality(Candidates(order, k + 1)) <= IF k < Window THEN k ELSE Window
<1> DEFINE low == IF k < Window THEN 1 ELSE k + 1 - Window
           places == low .. k
           place == [j \in places |-> order[j]]
<1>1. {j \in 1 .. (k + 1) - 1 : j >= (k + 1) - Window} = places
  BY TreeBounds
<1>2. Candidates(order, k + 1) = {order[j] : j \in places}
  BY <1>1 DEF Candidates
<1>3. IsFiniteSet(places) /\ Cardinality(places) = IF k < Window THEN k ELSE Window
  BY FS_Interval, TreeBounds
<1>4. place \in Surjection(places, Candidates(order, k + 1))
  BY <1>2 DEF Surjection
<1>5. /\ IsFiniteSet(Candidates(order, k + 1))
      /\ Cardinality(Candidates(order, k + 1)) <= Cardinality(places)
  BY <1>3, <1>4, FS_Surjection
<1> QED
  BY <1>3, <1>5, FS_CardinalityType

\* The pairs judged in a group are at most those counted for its size.
LEMMA GroupWithinCount ==
    ASSUME NEW members, IsFiniteSet(members)
    PROVE  /\ JudgedOf(members) \in Nat /\ PairsOfGroup(Cardinality(members)) \in Nat
           /\ JudgedOf(members) <= PairsOfGroup(Cardinality(members))
<1> PICK order : order = CHOOSE o \in Orders(members) : TRUE
  OBVIOUS
<1> PICK n : n = Cardinality(members)
  OBVIOUS
<1>1. n \in Nat
  BY FS_CardinalityType
<1> DEFINE f == [k \in 0 .. n - 1 |-> Cardinality(Candidates(order, k + 1))]
           h == [k \in 0 .. n - 1 |-> IF k < Window THEN k ELSE Window]
<1>2. IsFiniteSet(0 .. n - 1)
  BY <1>1, FS_Interval
<1>3. \A k \in 0 .. n - 1 : f[k] \in Nat /\ h[k] \in Nat /\ f[k] <= h[k]
  BY <1>1, FewCandidates, TreeBounds
<1>4. JudgedOf(members) = SumFunction(f)
  BY DEF JudgedOf
<1>5. PairsOfGroup(n) = SumFunction(h)
  BY DEF PairsOfGroup
<1>6. DOMAIN f = 0 .. n - 1 /\ DOMAIN h = 0 .. n - 1
  OBVIOUS
<1> HIDE DEF f, h
<1>7. SumFunction(f) \in Nat /\ SumFunction(h) \in Nat
  BY <1>2, <1>3, <1>6, SumIsNat
<1>8. SumFunction(f) <= SumFunction(h)
  BY <1>2, <1>3, <1>6, SumsGrow
<1> QED
  BY <1>4, <1>5, <1>7, <1>8

\* The model is asked for no more pairs than were counted beforehand.
LEMMA JudgedWithinCount ==
    ASSUME NEW records \in SUBSET Events
    PROVE  /\ Judged(records) \in Nat /\ PairCount(records) \in Nat
           /\ Judged(records) <= PairCount(records)
<1> DEFINE groups == GroupsOf(records)
           f == [g \in groups |-> JudgedOf(InGroup(records, g))]
           h == [g \in groups |-> PairsOfGroup(Cardinality(InGroup(records, g)))]
<1>1. IsFiniteSet(records)
  BY TreeClock, FS_Subset
<1>2. IsFiniteSet(groups)
  <2> DEFINE group == [x \in records |-> GroupOf[x]]
  <2>1. group \in Surjection(records, groups)
    BY DEF Surjection, GroupsOf
  <2> QED
    BY <1>1, <2>1, FS_Surjection
<1>3. \A g : IsFiniteSet(InGroup(records, g))
  BY <1>1, FS_Subset DEF InGroup
<1>4. \A g \in groups : f[g] \in Nat /\ h[g] \in Nat /\ f[g] <= h[g]
  BY <1>3, GroupWithinCount
<1>5. Judged(records) = SumFunction(f) /\ PairCount(records) = SumFunction(h)
  BY DEF Judged, PairCount
<1>6. DOMAIN f = groups /\ DOMAIN h = groups
  OBVIOUS
<1> HIDE DEF f, h, groups
<1>7. SumFunction(f) \in Nat /\ SumFunction(h) \in Nat
  BY <1>2, <1>4, <1>6, SumIsNat
<1>8. SumFunction(f) <= SumFunction(h)
  BY <1>2, <1>4, <1>6, SumsGrow
<1> QED
  BY <1>5, <1>7, <1>8

\* An order of a group has a place for each of its records.
LEMMA OrdersCover ==
    ASSUME NEW members, IsFiniteSet(members), NEW order \in Orders(members), NEW x \in members
    PROVE  \E i \in DOMAIN order : order[i] = x
<1> PICK n : n = Cardinality(members)
  OBVIOUS
<1>1. n \in Nat
  BY FS_CardinalityType
<1>2. /\ order \in [1 .. n -> members]
      /\ \A i, j \in 1 .. n : i < j => order[i] # order[j]
  BY DEF Orders
<1>3. order \in Injection(1 .. n, members)
  BY <1>1, <1>2 DEF Injection, IsInjective
<1>4. IsFiniteSet(1 .. n) /\ Cardinality(1 .. n) = n
  BY <1>1, FS_Interval
<1>5. order \in Surjection(1 .. n, members)
  BY <1>3, <1>4, FS_Injection
<1> QED
  BY <1>2, <1>5 DEF Surjection

\* What an order gives a record as its parent stands before it.
LEMMA ParentBefore ==
    ASSUME NEW active, NEW records \in SUBSET Events, NEW parent \in Forests(active, records),
           NEW z \in records
    PROVE  \E order \in Orders(Members(records, z)) :
              /\ \E k \in DOMAIN order : order[k] = z
              /\ DOMAIN order \subseteq Nat
              /\ \A i \in DOMAIN order :
                    /\ order[i] \in Members(records, z)
                    /\ parent[order[i]] # NoEvent =>
                          \E j \in DOMAIN order :
                             /\ j < i /\ parent[order[i]] = order[j]
                             /\ At[order[j]] <= At[order[i]]
<1> DEFINE members == Members(records, z)
<1>1. IsFiniteSet(members) /\ z \in members
  BY TreeClock, FS_Subset DEF Members
<1>2. PICK order \in Orders(members) : Grows(active, order, parent)
  BY DEF Forests
<1> PICK n : n = Cardinality(members)
  OBVIOUS
<1>3. n \in Nat
  BY <1>1, FS_CardinalityType
<1>4. /\ order \in [1 .. n -> members] /\ DOMAIN order = 1 .. n
      /\ \A i, j \in 1 .. n : i < j => order[i] # order[j] /\ At[order[i]] <= At[order[j]]
  BY DEF Orders
<1>5. \E k \in DOMAIN order : order[k] = z
  <2> HIDE DEF members
  <2> QED
    BY <1>1, OrdersCover
<1>6. ASSUME NEW i \in DOMAIN order, parent[order[i]] # NoEvent
      PROVE  \E j \in DOMAIN order : /\ j < i /\ parent[order[i]] = order[j]
                                     /\ At[order[j]] <= At[order[i]]
  <2>1. parent[order[i]] \in Best(active, Candidates(order, i), order[i])
    BY <1>2, <1>6 DEF Grows
  <2>2. parent[order[i]] \in Candidates(order, i)
    BY <2>1 DEF Best
  <2>3. PICK j \in 1 .. i - 1 : parent[order[i]] = order[j]
    BY <2>2 DEF Candidates
  <2>4. j \in 1 .. n /\ j < i /\ i \in 1 .. n
    BY <1>3, <1>4, <2>3
  <2> QED
    BY <1>4, <2>3, <2>4
<1>7. DOMAIN order \subseteq Nat
  BY <1>3, <1>4
<1> QED
  BY <1>2, <1>4, <1>5, <1>6, <1>7

\* The edge leads within a group from an earlier record to a later one.
EdgeOK(e) ==
    /\ e \in Edges
    /\ GroupOf[e.parent] = GroupOf[e.child] /\ At[e.parent] <= At[e.child]

\* What one reconstruction computes: a forest.
ResultOK(result) ==
    /\ \A e, f \in result : e.child = f.child => e = f
    /\ \A cycle \in SUBSET Events : cycle # {} =>
           \E x \in cycle : \A e \in result : e.child = x => e.parent \notin cycle
    /\ \A e \in result : EdgeOK(e)

LEMMA NothingIsForest ==
    ASSUME NEW result, result = {}
    PROVE  ResultOK(result)
<1>1. ASSUME NEW cycle \in SUBSET Events, cycle # {}
      PROVE  \E x \in cycle : \A e \in result : e.child = x => e.parent \notin cycle
  <2>1. PICK x \in cycle : TRUE
    BY <1>1
  <2> QED
    BY <2>1
<1>2. \A e, f \in result : e.child = f.child => e = f
  OBVIOUS
<1>3. \A e \in result : EdgeOK(e)
  OBVIOUS
<1> QED
  BY <1>1, <1>2, <1>3 DEF ResultOK

LEMMA ForestIsForest ==
    ASSUME NEW active \in ChannelSets, NEW records \in SUBSET Events,
           NEW parent \in Forests(active, records)
    PROVE  ResultOK(EdgesOf(parent, active))
<1> DEFINE result == EdgesOf(parent, active)
<1>1. parent \in [records -> records \cup {NoEvent}]
  BY DEF Forests
<1>2. \A e \in result : /\ e.child \in records /\ e.parent = parent[e.child]
                        /\ e.parent # NoEvent /\ e.channels = active
                        /\ e = [parent |-> e.parent, child |-> e.child, channels |-> active]
  BY <1>1 DEF EdgesOf
<1>3. \A e, f \in result : e.child = f.child => e = f
  <2> SUFFICES ASSUME NEW e \in result, NEW f \in result, e.child = f.child PROVE e = f
    OBVIOUS
  <2> HIDE DEF result
  <2>1. e.parent = f.parent
    BY <1>2
  <2> QED
    BY <1>2, <2>1
<1>4. ASSUME NEW e \in result PROVE EdgeOK(e)
  <2> HIDE DEF result
  <2> PICK z : z = e.child
    OBVIOUS
  <2>1. z \in records /\ parent[z] = e.parent /\ parent[z] # NoEvent
    BY <1>2, <1>4
  <2>2. PICK order \in Orders(Members(records, z)) :
           /\ \E k \in DOMAIN order : order[k] = z
           /\ \A i \in DOMAIN order :
                 /\ order[i] \in Members(records, z)
                 /\ parent[order[i]] # NoEvent =>
                       \E j \in DOMAIN order :
                          /\ j < i /\ parent[order[i]] = order[j]
                          /\ At[order[j]] <= At[order[i]]
    BY <2>1, ParentBefore
  <2>3. PICK k \in DOMAIN order : order[k] = z
    BY <2>2
  <2>4. PICK j \in DOMAIN order : parent[order[k]] = order[j] /\ At[order[j]] <= At[order[k]]
    BY <2>1, <2>2, <2>3
  <2>5. e.parent \in Members(records, z) /\ At[e.parent] <= At[z]
    BY <2>1, <2>2, <2>3, <2>4
  <2>6. e.parent \in Events /\ e.child \in Events /\ GroupOf[e.parent] = GroupOf[e.child]
    BY <2>1, <2>5 DEF Members
  <2>7. e \in Edges
    BY <1>2, <1>4, <2>6 DEF Edges
  <2> QED
    BY <2>5, <2>6, <2>7 DEF EdgeOK
<1>5. ASSUME NEW cycle \in SUBSET Events, cycle # {}
      PROVE  \E x \in cycle : \A e \in result : e.child = x => e.parent \notin cycle
  <2> HIDE DEF result
  <2>1. PICK z \in cycle : TRUE
    BY <1>5
  <2>2. CASE z \notin records
    BY <1>2, <2>1, <2>2
  <2>3. CASE z \in records
    <3>1. PICK order \in Orders(Members(records, z)) :
             /\ \E k \in DOMAIN order : order[k] = z
             /\ DOMAIN order \subseteq Nat
             /\ \A i \in DOMAIN order :
                   parent[order[i]] # NoEvent =>
                       \E j \in DOMAIN order : j < i /\ parent[order[i]] = order[j]
      BY <2>3, ParentBefore
    <3> DEFINE places == {i \in DOMAIN order : order[i] \in cycle}
    <3>2. places \in SUBSET Nat /\ places # {}
      BY <2>1, <3>1
    <3>3. PICK i \in places : \A j \in places : i <= j
      <4> HIDE DEF places
      <4> QED
        BY <3>2, LeastNumber
    <3>4. ASSUME NEW e \in result, e.child = order[i], e.parent \in cycle PROVE FALSE
      <4>1. parent[order[i]] = e.parent /\ parent[order[i]] # NoEvent
        BY <1>2, <3>4
      <4>2. PICK j \in DOMAIN order : j < i /\ parent[order[i]] = order[j]
        BY <3>1, <4>1
      <4>3. j \in places
        BY <3>4, <4>1, <4>2
      <4>4. i <= j /\ i \in Nat /\ j \in Nat
        BY <3>1, <3>3, <4>3
      <4> QED
        BY <4>2, <4>4
    <3> QED
      BY <3>4
  <2> QED
    BY <2>2, <2>3
<1> QED
  BY <1>3, <1>4, <1>5 DEF ResultOK

\* Reconstruction always has a result: it never gets stuck, whatever its scores and weights.
THEOREM ReconstructionHasResult ==
    ASSUME NEW active, NEW records \in SUBSET Events
    PROVE  Forests(active, records) # {}
<1> DEFINE order == [g \in GroupsOf(records) |-> CHOOSE o \in Orders(InGroup(records, g)) : TRUE]
           place(x) == CHOOSE i \in DOMAIN order[GroupOf[x]] : order[GroupOf[x]][i] = x
           best(x) == Best(active, Candidates(order[GroupOf[x]], place(x)), x)
           parent == [x \in records |-> IF best(x) = {} THEN NoEvent ELSE CHOOSE y \in best(x) : TRUE]
<1>1. ASSUME NEW x \in records
      PROVE  /\ GroupOf[x] \in GroupsOf(records)
             /\ InGroup(records, GroupOf[x]) = Members(records, x) /\ x \in Members(records, x)
             /\ Members(records, x) \in SUBSET records /\ IsFiniteSet(Members(records, x))
             /\ \A y \in Members(records, x) : GroupOf[y] = GroupOf[x]
  BY TreeClock, FS_Subset DEF GroupsOf, InGroup, Members
<1>2. ASSUME NEW x \in records
      PROVE  /\ order[GroupOf[x]] \in Orders(Members(records, x))
             /\ \E n \in Nat : order[GroupOf[x]] \in [1 .. n -> Members(records, x)]
             /\ \A i, j \in DOMAIN order[GroupOf[x]] :
                    order[GroupOf[x]][i] = order[GroupOf[x]][j] => i = j
  <2> PICK members : members = Members(records, x)
    OBVIOUS
  <2>1. order[GroupOf[x]] = CHOOSE o \in Orders(members) : TRUE
    BY <1>1
  <2>2. Orders(members) # {}
    BY <1>1, OrdersExist
  <2>3. order[GroupOf[x]] \in Orders(members)
    BY <2>1, <2>2
  <2> PICK o : o = order[GroupOf[x]]
    OBVIOUS
  <2> PICK n : n = Cardinality(members)
    OBVIOUS
  <2>4. n \in Nat
    BY <1>1, FS_CardinalityType
  <2>5. o \in [1 .. n -> members] /\ \A i, j \in 1 .. n : i < j => o[i] # o[j]
    BY <2>3 DEF Orders
  <2>6. \A i, j \in 1 .. n : o[i] = o[j] => i = j
    <3> SUFFICES ASSUME NEW i \in 1 .. n, NEW j \in 1 .. n, o[i] = o[j], i # j PROVE FALSE
      OBVIOUS
    <3>1. i < j \/ j < i
      BY <2>4
    <3> QED
      BY <2>5, <3>1
  <2> HIDE DEF order
  <2>7. DOMAIN o = 1 .. n
    BY <2>5
  <2> QED
    BY <2>3, <2>4, <2>5, <2>6, <2>7
<1> HIDE DEF order
<1>3. ASSUME NEW x \in records
      PROVE  place(x) \in DOMAIN order[GroupOf[x]] /\ order[GroupOf[x]][place(x)] = x
  <2>1. \E i \in DOMAIN order[GroupOf[x]] : order[GroupOf[x]][i] = x
    BY <1>1, <1>2, OrdersCover
  <2> QED
    BY <2>1
<1>4. ASSUME NEW x \in records
      PROVE  best(x) \subseteq records
  <2>1. PICK n \in Nat : order[GroupOf[x]] \in [1 .. n -> Members(records, x)]
    BY <1>2
  <2>2. \A j \in 1 .. place(x) - 1 : order[GroupOf[x]][j] \in records
    <3> HIDE DEF place
    <3>1. place(x) \in 1 .. n
      BY <1>3, <2>1
    <3> QED
      BY <1>1, <2>1, <3>1
  <2> QED
    BY <2>2 DEF Best, Candidates
<1>5. parent \in [records -> records \cup {NoEvent}]
  <2> HIDE DEF best
  <2> QED
    BY <1>4
<1>6. ASSUME NEW x \in records
      PROVE  Grows(active, order[GroupOf[x]], parent)
  <2> PICK o : o = order[GroupOf[x]]
    OBVIOUS
  <2> SUFFICES ASSUME NEW i \in DOMAIN o
               PROVE  LET found == Best(active, Candidates(o, i), o[i])
                      IN  IF found = {} THEN parent[o[i]] = NoEvent ELSE parent[o[i]] \in found
    BY DEF Grows
  <2> PICK y : y = o[i]
    OBVIOUS
  <2>1. y \in records /\ GroupOf[y] = GroupOf[x]
    BY <1>1, <1>2
  <2>2. place(y) = i
    <3> HIDE DEF place
    <3>1. place(y) \in DOMAIN o /\ o[place(y)] = y
      BY <1>3, <2>1
    <3>2. \A a, b \in DOMAIN o : o[a] = o[b] => a = b
      BY <1>2
    <3> QED
      BY <3>1, <3>2
  <2>3. best(y) = Best(active, Candidates(o, i), y)
    <3> HIDE DEF place
    <3> QED
      BY <2>1, <2>2
  <2>4. parent[y] = IF best(y) = {} THEN NoEvent ELSE CHOOSE z \in best(y) : TRUE
    <3> HIDE DEF best
    <3> QED
      BY <2>1
  <2> HIDE DEF best, parent
  <2> QED
    BY <2>3, <2>4
<1>7. parent \in Forests(active, records)
  <2> HIDE DEF parent
  <2> QED
    BY <1>2, <1>5, <1>6 DEF Forests
<1> QED
  BY <1>7

-----------------------------------------------------------------------------
(* The stored graph and its readers. *)

\* A rebuild under way.
RebuildOK(x) == x \in Rebuilds /\ x.judged <= MaxPairs /\ ResultOK(x.result)

\* A reply, from the moment its edges are read.
Together(x) ==
    /\ x.nodes \subseteq x.all
    /\ \A e \in x.links : e.parent \in x.nodes /\ e.child \in x.nodes
    /\ (x.kind # "landing" /\ ~x.truncated) =>
           \A some \in SUBSET x.nodes :
               (some # {} /\ \A e \in x.links : e.parent \in some <=> e.child \in some)
                   => some \cap x.asked # {}

EvidenceOf(x) == {Key(e) : e \in x.evidence} \subseteq {Key(e) : e \in x.links}

ViewOK(x) ==
    /\ x \in Views
    /\ x.pc \in {"edges", "shown"} => Together(x)
    /\ x.pc = "shown" => EvidenceOf(x)

\* The inductive invariant.
LineageInv ==
    /\ eligible \subseteq Events
    /\ estimates \subseteq ChannelSets
    /\ edges \subseteq Edges
    /\ meta \in Metas
    /\ DOMAIN rebuild = Rebuilders /\ rebuild = [r \in Rebuilders |-> rebuild[r]]
    /\ \A r \in Rebuilders : RebuildOK(rebuild[r])
    /\ DOMAIN view = Viewers /\ view = [v \in Viewers |-> view[v]]
    /\ \A v \in Viewers : ViewOK(view[v])
    /\ \A e \in edges : EdgeOK(e)

LEMMA ChannelsDiffer == Channels # Deterministic /\ Deterministic \in ChannelSets /\ Channels \in ChannelSets
BY DEF Channels, Deterministic, ChannelSets

LEMMA IdleOK == RebuildOK(NoRebuild) /\ ViewOK(NoView)
<1>1. NoRebuild \in Rebuilds /\ NoView \in Views
  BY ChannelsDiffer DEF NoRebuild, Rebuilds, NoView, Views
<1>2. NoRebuild.judged = 0 /\ NoRebuild.result = {} /\ NoView.pc = "idle"
  BY DEF NoRebuild, NoView
<1>3. ResultOK(NoRebuild.result)
  BY <1>2, NothingIsForest
<1> QED
  BY <1>1, <1>2, <1>3, TreeBounds DEF RebuildOK, ViewOK

LEMMA LineageStarts == LineageInit => LineageInv
<1> SUFFICES ASSUME LineageInit PROVE LineageInv
  OBVIOUS
<1> USE DEF LineageInit
<1>1. meta \in Metas
  BY ChannelsDiffer DEF NoMeta, Metas
<1>2. /\ DOMAIN rebuild = Rebuilders /\ rebuild = [r \in Rebuilders |-> rebuild[r]]
      /\ \A r \in Rebuilders : RebuildOK(rebuild[r])
  BY IdleOK
<1>3. /\ DOMAIN view = Viewers /\ view = [v \in Viewers |-> view[v]]
      /\ \A v \in Viewers : ViewOK(view[v])
  BY IdleOK
<1> QED
  BY <1>1, <1>2, <1>3 DEF LineageInv

\* Only the progress of one rebuild changes.
LEMMA RebuildMoves ==
    ASSUME LineageInv, NEW r \in Rebuilders, NEW new, RebuildOK(new),
           rebuild' = [rebuild EXCEPT ![r] = new],
           UNCHANGED <<eligible, estimates, edges, meta, view>>
    PROVE  LineageInv'
<1>1. /\ DOMAIN rebuild' = Rebuilders /\ rebuild' = [x \in Rebuilders |-> rebuild'[x]]
      /\ \A x \in Rebuilders : rebuild'[x] = IF x = r THEN new ELSE rebuild[x]
  BY DEF LineageInv
<1>2. \A x \in Rebuilders : RebuildOK(rebuild[x])'
  <2> SUFFICES ASSUME NEW x \in Rebuilders PROVE RebuildOK(rebuild'[x])
    BY DEF RebuildOK
  <2> QED
    BY <1>1 DEF LineageInv
<1> QED
  BY <1>1, <1>2 DEF LineageInv

\* Only the progress of one reader changes.
LEMMA ViewMoves ==
    ASSUME LineageInv, NEW v \in Viewers, NEW new, ViewOK(new),
           view' = [view EXCEPT ![v] = new],
           UNCHANGED <<eligible, estimates, edges, meta, rebuild>>
    PROVE  LineageInv'
<1>1. /\ DOMAIN view' = Viewers /\ view' = [x \in Viewers |-> view'[x]]
      /\ \A x \in Viewers : view'[x] = IF x = v THEN new ELSE view[x]
  BY DEF LineageInv
<1>2. \A x \in Viewers : ViewOK(view'[x])
  BY <1>1 DEF LineageInv
<1> QED
  BY <1>1, <1>2 DEF LineageInv

LEMMA ReadRecordsStep ==
    ASSUME LineageInv, NEW r \in Rebuilders, ReadRecords(r)
    PROVE  LineageInv'
<1>1. PICK configured \in BOOLEAN :
         LET active == IF configured /\ PairCount(eligible) <= MaxPairs THEN Channels
                       ELSE Deterministic
         IN  /\ rebuild' = [rebuild EXCEPT ![r] = [NoRebuild EXCEPT
                    !.pc = "read", !.records = eligible, !.active = active,
                    !.judged = IF active = Channels THEN Judged(eligible) ELSE 0]]
             /\ UNCHANGED <<eligible, estimates, edges, meta, view>>
  BY Zenon DEF ReadRecords
<1> PICK active : active = IF configured /\ PairCount(eligible) <= MaxPairs THEN Channels
                           ELSE Deterministic
  OBVIOUS
<1> PICK judged : judged = IF active = Channels THEN Judged(eligible) ELSE 0
  OBVIOUS
<1> PICK new : new = [NoRebuild EXCEPT !.pc = "read", !.records = eligible, !.active = active,
                                       !.judged = judged]
  OBVIOUS
<1>2. eligible \in SUBSET Events
  BY DEF LineageInv
<1>3. /\ Judged(eligible) \in Nat /\ PairCount(eligible) \in Nat
      /\ Judged(eligible) <= PairCount(eligible)
  BY <1>2, JudgedWithinCount
<1>4. active \in ChannelSets /\ judged \in Nat /\ judged <= MaxPairs
  BY <1>3, ChannelsDiffer, TreeBounds
<1>5. new \in Rebuilds /\ new.judged = judged /\ new.result = {}
  BY <1>2, <1>4 DEF NoRebuild, Rebuilds
<1>6. RebuildOK(new)
  BY <1>4, <1>5, NothingIsForest DEF RebuildOK
<1>7. rebuild' = [rebuild EXCEPT ![r] = new] /\ UNCHANGED <<eligible, estimates, edges, meta, view>>
  BY <1>1
<1> QED
  BY <1>6, <1>7, RebuildMoves

LEMMA ReconstructStep ==
    ASSUME LineageInv, NEW r \in Rebuilders, Reconstruct(r)
    PROVE  LineageInv'
<1> PICK old : old = rebuild[r]
  OBVIOUS
<1>1. old \in Rebuilds
  BY DEF LineageInv, RebuildOK
<1>2. old.active \in ChannelSets /\ old.records \in SUBSET Events
  BY <1>1 DEF Rebuilds
<1>3. PICK parent \in Forests(old.active, old.records) :
         /\ rebuild' = [rebuild EXCEPT ![r].pc = "computed", ![r].records = {}, ![r].judged = 0,
                                       ![r].result = EdgesOf(parent, old.active)]
         /\ UNCHANGED <<eligible, estimates, edges, meta, view>>
  BY DEF Reconstruct
<1> PICK result : result = EdgesOf(parent, old.active)
  OBVIOUS
<1>4. ResultOK(result)
  BY <1>2, ForestIsForest
<1>5. result \subseteq Edges
  BY <1>4 DEF ResultOK, EdgeOK
<1> PICK new : new = [old EXCEPT !.pc = "computed", !.records = {}, !.judged = 0, !.result = result]
  OBVIOUS
<1>6. new \in Rebuilds /\ new.judged = 0 /\ new.result = result
  BY <1>1, <1>5 DEF Rebuilds
<1>7. RebuildOK(new)
  BY <1>4, <1>6, TreeBounds DEF RebuildOK
<1>8. rebuild' = [rebuild EXCEPT ![r] = new]
  BY <1>3 DEF LineageInv
<1> QED
  BY <1>3, <1>7, <1>8, RebuildMoves

LEMMA BeginReplaceStep ==
    ASSUME LineageInv, NEW r \in Rebuilders, BeginReplace(r)
    PROVE  LineageInv'
<1> PICK old : old = rebuild[r]
  OBVIOUS
<1> PICK new : new = [old EXCEPT !.pc = "deleting", !.seen = edges]
  OBVIOUS
<1>1. old \in Rebuilds /\ old.judged <= MaxPairs /\ ResultOK(old.result)
  BY DEF LineageInv, RebuildOK
<1>2. new \in Rebuilds /\ new.judged = old.judged /\ new.result = old.result
  BY <1>1 DEF LineageInv, Rebuilds
<1>3. RebuildOK(new)
  BY <1>1, <1>2 DEF RebuildOK
<1>4. rebuild' = [rebuild EXCEPT ![r] = new] /\ UNCHANGED <<eligible, estimates, edges, meta, view>>
  BY DEF BeginReplace, LineageInv
<1> QED
  BY <1>3, <1>4, RebuildMoves

LEMMA DeleteEdgesStep ==
    ASSUME LineageInv, NEW r \in Rebuilders, DeleteEdges(r)
    PROVE  LineageInv'
<1> PICK old : old = rebuild[r]
  OBVIOUS
<1> PICK new : new = [old EXCEPT !.pc = "replacing"]
  OBVIOUS
<1>1. old \in Rebuilds /\ old.judged <= MaxPairs /\ ResultOK(old.result)
  BY DEF LineageInv, RebuildOK
<1>2. new \in Rebuilds /\ new.judged = old.judged /\ new.result = old.result
  BY <1>1 DEF Rebuilds
<1>3. RebuildOK(new)
  BY <1>1, <1>2 DEF RebuildOK
<1>4. rebuild' = [rebuild EXCEPT ![r] = new] /\ UNCHANGED <<eligible, estimates, edges, meta, view>>
  BY DEF DeleteEdges, LineageInv
<1> QED
  BY <1>3, <1>4, RebuildMoves

\* One rebuild's edges are added to what it has not seen; the others only learn they are late.
LEMMA ReplaceStep ==
    ASSUME LineageInv, NEW r \in Rebuilders, Replace(r)
    PROVE  LineageInv'
<1> PICK old : old = rebuild[r]
  OBVIOUS
<1>1. old \in Rebuilds /\ ResultOK(old.result)
  BY DEF LineageInv, RebuildOK
<1>2. /\ edges' = Left(r) \cup old.result
      /\ meta' = [exists |-> TRUE, channels |-> old.active, by |-> old.result]
      /\ rebuild' = [x \in Rebuilders |-> IF x = r THEN NoRebuild
                         ELSE [rebuild[x] EXCEPT !.late = rebuild[x].pc = "replacing"]]
      /\ UNCHANGED <<eligible, estimates, view>>
  BY DEF Replace
<1>3. \A e \in edges' : EdgeOK(e)
  BY <1>1, <1>2 DEF LineageInv, ResultOK, Left
<1>4. edges' \subseteq Edges
  BY <1>3 DEF EdgeOK
<1>5. old.active \in ChannelSets /\ old.result \in SUBSET Edges
  BY <1>1 DEF Rebuilds
<1>6. meta' \in Metas
  BY <1>2, <1>5 DEF Metas
<1>7. ASSUME NEW x \in Rebuilders PROVE RebuildOK(rebuild'[x])
  <2> PICK one : one = rebuild[x]
    OBVIOUS
  <2>1. one \in Rebuilds /\ one.judged <= MaxPairs /\ ResultOK(one.result)
    BY DEF LineageInv, RebuildOK
  <2> PICK new : new = [one EXCEPT !.late = one.pc = "replacing"]
    OBVIOUS
  <2>2. (one.pc = "replacing") \in BOOLEAN
    OBVIOUS
  <2>3. new \in Rebuilds /\ new.judged = one.judged /\ new.result = one.result
    BY <2>1, <2>2 DEF Rebuilds
  <2>4. RebuildOK(new)
    BY <2>1, <2>3 DEF RebuildOK
  <2> QED
    BY <1>2, <2>4, IdleOK
<1>8. /\ DOMAIN rebuild' = Rebuilders /\ rebuild' = [x \in Rebuilders |-> rebuild'[x]]
  BY <1>2
<1>9. \A x \in Rebuilders : RebuildOK(rebuild[x])'
  BY <1>7 DEF RebuildOK
<1> QED
  BY <1>2, <1>3, <1>4, <1>6, <1>8, <1>9 DEF LineageInv

LEMMA AbandonStep ==
    ASSUME LineageInv, NEW r \in Rebuilders, AdjudicationRaises(r) \/ KeyTaken(r)
    PROVE  LineageInv'
<1>1. rebuild' = [rebuild EXCEPT ![r] = NoRebuild] /\ UNCHANGED <<eligible, estimates, edges, meta, view>>
  BY DEF AdjudicationRaises, KeyTaken, Abandon
<1> QED
  BY <1>1, IdleOK, RebuildMoves

LEMMA ReadPostsStep ==
    ASSUME LineageInv, NEW v \in Viewers, ReadPosts(v)
    PROVE  LineageInv'
<1>1. PICK scope \in SUBSET Events, asked \in SUBSET Events, kind \in {"landing", "focus", "cited"} :
         /\ view' = [view EXCEPT ![v] = [NoView EXCEPT !.pc = "posts", !.kind = kind,
                                                       !.all = scope \cap eligible, !.asked = asked]]
         /\ UNCHANGED <<eligible, estimates, edges, meta, rebuild>>
  BY DEF ReadPosts
<1> PICK new : new = [NoView EXCEPT !.pc = "posts", !.kind = kind, !.all = scope \cap eligible,
                                    !.asked = asked]
  OBVIOUS
<1>2. new \in Views /\ new.pc = "posts"
  BY DEF NoView, Views
<1>3. ViewOK(new)
  BY <1>2 DEF ViewOK
<1> QED
  BY <1>1, <1>3, ViewMoves

\* A component is closed under the edges.
LEMMA ComponentClosed ==
    ASSUME NEW focus, NEW allowed, NEW a \in Component(focus, allowed), NEW b \in allowed,
           Linked(a, b)
    PROVE  b \in Component(focus, allowed)
<1> SUFFICES ASSUME NEW closed \in SUBSET allowed, focus \in closed,
                    \A x \in closed, y \in allowed : Linked(x, y) => y \in closed
             PROVE  b \in closed
  BY DEF Component
<1>1. a \in closed
  BY DEF Component
<1> QED
  BY <1>1

\* What surrounds the posts asked about hangs together by the edges between its posts.
LEMMA AroundHangsTogether ==
    ASSUME NEW v \in Viewers, NEW links, NEW some,
           links = {e \in edges : e.parent \in Around(v) /\ e.child \in Around(v)},
           some \subseteq Around(v), some # {},
           \A e \in links : e.parent \in some <=> e.child \in some
    PROVE  some \cap view[v].asked # {}
<1> PICK all : all = view[v].all
  OBVIOUS
<1> SUFFICES ASSUME some \cap view[v].asked = {} PROVE FALSE
  OBVIOUS
<1>1. PICK z \in some : TRUE
  OBVIOUS
<1>2. PICK focus \in Asked(v) : z \in Component(focus, all)
  BY <1>1 DEF Around
<1> DEFINE closed == all \ some
<1>3. focus \in closed
  BY DEF Asked
<1>4. ASSUME NEW a \in closed, NEW b \in all, Linked(a, b), b \in some PROVE FALSE
  <2>1. PICK e \in edges : {e.parent, e.child} = {a, b}
    BY <1>4 DEF Linked
  <2>2. Linked(b, a)
    BY <2>1 DEF Linked
  <2>3. PICK other \in Asked(v) : b \in Component(other, all)
    BY <1>4 DEF Around
  <2>4. a \in Component(other, all)
    BY <1>4, <2>2, <2>3, ComponentClosed
  <2>5. a \in Around(v) /\ b \in Around(v)
    BY <2>3, <2>4 DEF Around
  <2>6. \/ e.parent = a /\ e.child = b
        \/ e.parent = b /\ e.child = a
    BY <2>1
  <2>7. e \in links
    BY <2>1, <2>5, <2>6
  <2> QED
    BY <1>4, <2>6, <2>7
<1>5. z \in closed
  <2>1. closed \in SUBSET all
    OBVIOUS
  <2>2. \A a \in closed, b \in all : Linked(a, b) => b \in closed
    BY <1>4
  <2> HIDE DEF closed
  <2> QED
    BY <1>2, <1>3, <2>1, <2>2 DEF Component
<1> QED
  BY <1>1, <1>5

LEMMA ReadEdgesStep ==
    ASSUME LineageInv, NEW v \in Viewers, ReadEdges(v)
    PROVE  LineageInv'
<1> PICK old : old = view[v]
  OBVIOUS
<1> PICK around : around = Around(v)
  OBVIOUS
<1>1. old \in Views
  BY DEF LineageInv, ViewOK
<1>2. PICK nodes \in SUBSET old.all, isolated \in BOOLEAN :
         /\ CASE old.kind = "landing" -> Newest(v, old.all, nodes)
              [] old.kind = "cited"   -> Newest(v, around, nodes)
              [] old.kind = "focus"   ->
                     nodes = IF isolated \/ Cardinality(around) > 1 THEN around ELSE {}
         /\ view' = [view EXCEPT ![v].pc = "edges", ![v].nodes = nodes,
                         ![v].links = {e \in edges : e.parent \in nodes /\ e.child \in nodes},
                         ![v].truncated = /\ old.kind # "focus"
                                          /\ nodes # IF old.kind = "cited" THEN around
                                                     ELSE old.all]
         /\ UNCHANGED <<eligible, estimates, edges, meta, rebuild>>
  BY DEF ReadEdges
<1> PICK links : links = {e \in edges : e.parent \in nodes /\ e.child \in nodes}
  OBVIOUS
<1> PICK truncated : truncated = (/\ old.kind # "focus"
                                  /\ nodes # IF old.kind = "cited" THEN around ELSE old.all)
  OBVIOUS
<1> PICK new : new = [old EXCEPT !.pc = "edges", !.nodes = nodes, !.links = links,
                                 !.truncated = truncated]
  OBVIOUS
<1>3. view' = [view EXCEPT ![v] = new]
  BY <1>2 DEF LineageInv
<1>4. links \subseteq edges /\ links \subseteq Edges /\ truncated \in BOOLEAN
  BY DEF LineageInv
<1>5. old.all \in SUBSET Events /\ nodes \in SUBSET Events
      /\ old.kind \in {"landing", "focus", "cited"}
  BY <1>1, <1>2 DEF Views
<1>6. /\ new \in Views /\ new.pc = "edges" /\ new.nodes = nodes /\ new.links = links
      /\ new.all = old.all /\ new.kind = old.kind /\ new.asked = old.asked
      /\ new.truncated = truncated
  BY <1>1, <1>4, <1>5 DEF Views
<1>7. ASSUME old.kind # "landing", ~truncated, NEW some \in SUBSET nodes, some # {},
             \A e \in links : e.parent \in some <=> e.child \in some
      PROVE  some \cap old.asked # {}
  <2>1. nodes = around
    <3>1. CASE old.kind = "cited"
      BY <1>7, <3>1
    <3>2. CASE old.kind = "focus"
      <4>1. nodes = around \/ nodes = {}
        BY <1>2, <3>2
      <4> QED
        BY <1>7, <4>1
    <3> QED
      BY <1>5, <1>7, <3>1, <3>2
  <2>2. links = {e \in edges : e.parent \in Around(v) /\ e.child \in Around(v)}
    BY <2>1
  <2>3. some \subseteq Around(v)
    BY <2>1
  <2> QED
    BY <1>7, <2>2, <2>3, AroundHangsTogether
<1>8. Together(new)
  BY <1>2, <1>6, <1>7 DEF Together
<1>9. ViewOK(new)
  BY <1>6, <1>8 DEF ViewOK
<1> QED
  BY <1>2, <1>3, <1>9, ViewMoves

LEMMA ReadSignalsStep ==
    ASSUME LineageInv, NEW v \in Viewers, ReadSignals(v)
    PROVE  LineageInv'
<1> PICK old : old = view[v]
  OBVIOUS
<1> PICK evidence : evidence = {e \in edges : \E link \in old.links : Key(link) = Key(e)}
  OBVIOUS
<1> PICK new : new = [old EXCEPT !.pc = "shown", !.evidence = evidence]
  OBVIOUS
<1>1. old \in Views /\ old.pc = "edges" /\ Together(old)
  BY DEF LineageInv, ViewOK, ReadSignals
<1>2. evidence \in SUBSET Edges
  BY DEF LineageInv
<1>3. /\ new \in Views /\ new.pc = "shown" /\ new.evidence = evidence /\ new.links = old.links
      /\ new.nodes = old.nodes /\ new.all = old.all /\ new.kind = old.kind
      /\ new.asked = old.asked /\ new.truncated = old.truncated
  BY <1>1, <1>2 DEF Views
<1>4. Together(new)
  BY <1>1, <1>3 DEF Together
<1>5. EvidenceOf(new)
  <2>1. \A e \in evidence : \E link \in old.links : Key(link) = Key(e)
    OBVIOUS
  <2> QED
    BY <1>3, <2>1 DEF EvidenceOf
<1>6. ViewOK(new)
  BY <1>3, <1>4, <1>5 DEF ViewOK
<1>7. view' = [view EXCEPT ![v] = new] /\ UNCHANGED <<eligible, estimates, edges, meta, rebuild>>
  BY DEF ReadSignals, LineageInv
<1> QED
  BY <1>6, <1>7, ViewMoves

LEMMA CloseViewStep ==
    ASSUME LineageInv, NEW v \in Viewers, CloseView(v)
    PROVE  LineageInv'
<1>1. view' = [view EXCEPT ![v] = NoView] /\ UNCHANGED <<eligible, estimates, edges, meta, rebuild>>
  BY DEF CloseView
<1> QED
  BY <1>1, IdleOK, ViewMoves

LEMMA ElsewhereStep ==
    ASSUME LineageInv, ImportEvent \/ AnchorSet \/ EstimateSet
    PROVE  LineageInv'
<1>1. /\ eligible' \subseteq Events /\ estimates' \subseteq ChannelSets
      /\ UNCHANGED <<edges, meta, rebuild, view>>
  BY DEF ImportEvent, AnchorSet, EstimateSet, LineageInv
<1> QED
  BY <1>1 DEF LineageInv, RebuildOK

LEMMA LineageStays == LineageInv /\ [LineageNext]_lineageVars => LineageInv'
<1> SUFFICES ASSUME LineageInv, [LineageNext]_lineageVars PROVE LineageInv'
  OBVIOUS
<1>1. CASE UNCHANGED lineageVars
  BY <1>1 DEF lineageVars, LineageInv, RebuildOK
<1>2. ASSUME NEW r \in Rebuilders, RebuildStep(r) PROVE LineageInv'
  BY <1>2, ReadRecordsStep, ReconstructStep, BeginReplaceStep, DeleteEdgesStep, ReplaceStep,
     AbandonStep DEF RebuildStep
<1>3. ASSUME NEW v \in Viewers, ViewStep(v) PROVE LineageInv'
  BY <1>3, ReadPostsStep, ReadEdgesStep, ReadSignalsStep, CloseViewStep DEF ViewStep
<1>4. CASE ImportEvent \/ AnchorSet \/ EstimateSet
  BY <1>4, ElsewhereStep
<1> QED
  BY <1>1, <1>2, <1>3, <1>4 DEF LineageNext

LEMMA LineageInvTypes == LineageInv => LineageTypeOK
<1> SUFFICES ASSUME LineageInv PROVE LineageTypeOK
  OBVIOUS
<1>1. rebuild \in [Rebuilders -> Rebuilds] /\ view \in [Viewers -> Views]
  BY DEF LineageInv, RebuildOK, ViewOK
<1> QED
  BY <1>1 DEF LineageInv, LineageTypeOK

LEMMA LineageInvSound == LineageInv => ComputedIsForest /\ ShownHangsTogether
<1> SUFFICES ASSUME LineageInv PROVE ComputedIsForest /\ ShownHangsTogether
  OBVIOUS
<1>1. ComputedIsForest
  <2>1. \A r \in Rebuilders : rebuild[r].judged <= MaxPairs /\ ResultOK(rebuild[r].result)
    BY DEF LineageInv, RebuildOK
  <2>2. \A e \in edges : GroupOf[e.parent] = GroupOf[e.child] /\ At[e.parent] <= At[e.child]
    BY DEF LineageInv, EdgeOK
  <2> QED
    BY <2>1, <2>2, Zenon DEF ComputedIsForest, ResultOK
<1>2. ShownHangsTogether
  <2> SUFFICES ASSUME NEW v \in Viewers, view[v].pc = "shown"
               PROVE  Together(view[v]) /\ EvidenceOf(view[v])
    BY Zenon DEF ShownHangsTogether, Together, EvidenceOf
  <2> QED
    BY DEF LineageInv, ViewOK
<1> QED
  BY <1>1, <1>2

\* Along every schedule of rebuilds, imports and readers, what a rebuild computes is a forest
\* within the budget, the stored edges lead forward in time within a group, and a reply on a
\* timeline hangs together and shows its reader's own posts only.
THEOREM LineageSound == LineageSpec => [](LineageTypeOK /\ ComputedIsForest /\ ShownHangsTogether)
<1>1. LineageSpec => []LineageInv
  BY LineageStarts, LineageStays, PTL DEF LineageSpec
<1> QED
  BY <1>1, LineageInvTypes, LineageInvSound, PTL

\* The least of some numbers is one of them.
LEMMA LeastIs ==
    ASSUME NEW T \in SUBSET Nat, T # {}
    PROVE  Min(T) \in T /\ Min(T) \in Nat /\ \A m \in T : Min(T) <= m
<1>1. \E n \in T : \A m \in T : n <= m
  BY LeastNumber
<1> QED
  BY <1>1 DEF Min

\* A finite set of numbers has a greatest one.
LEMMA GreatestNumber ==
    ASSUME NEW T \in SUBSET Nat, T # {}, IsFiniteSet(T)
    PROVE  \E n \in T : \A m \in T : m <= n
<1> DEFINE Greatest(some) == \E n \in some : \A m \in some : m <= n
           without == {some \in SUBSET T : some # {} /\ ~Greatest(some)}
<1> SUFFICES ASSUME without # {} PROVE FALSE
  OBVIOUS
<1>1. \A some \in without : IsFiniteSet(some)
  BY FS_Subset
<1>2. PICK some \in without : \A x \in some : some \ {x} \notin without
  <2> HIDE DEF without
  <2> QED
    BY <1>1, SmallestSet
<1>3. PICK x \in some : TRUE
  OBVIOUS
<1>4. some \ {x} = {} \/ Greatest(some \ {x})
  BY <1>2
<1>5. CASE some \ {x} = {}
  <2>1. \A m \in some : m = x
    BY <1>5
  <2>2. Greatest(some)
    BY <1>3, <2>1
  <2> QED
    BY <2>2
<1>6. CASE Greatest(some \ {x})
  <2>1. PICK n \in some \ {x} : \A m \in some \ {x} : m <= n
    BY <1>6
  <2>2. n \in Nat /\ x \in Nat /\ some \subseteq Nat
    BY <1>3
  <2>3. CASE x <= n
    <3>1. \A m \in some : m <= n
      BY <2>1, <2>3
    <3> QED
      BY <3>1
  <2>4. CASE n <= x
    <3>1. \A m \in some : m <= x
      BY <2>1, <2>2, <2>4
    <3> QED
      BY <3>1
  <2> QED
    BY <2>2, <2>3, <2>4
<1> QED
  BY <1>4, <1>5, <1>6

\* Of a finite set in a strict order, those with fewer than limit before them are at most limit.
LEMMA FirstFew ==
    ASSUME NEW S, IsFiniteSet(S), NEW before \in [S -> SUBSET S], NEW limit \in Nat, NEW first,
           \A x \in S : x \notin before[x],
           \A x, y \in S : x # y => x \in before[y] \/ y \in before[x],
           \A x, y \in S : x \in before[y] => before[x] \subseteq before[y],
           first = {x \in S : Cardinality(before[x]) < limit}
    PROVE  IsFiniteSet(first) /\ Cardinality(first) \in Nat /\ Cardinality(first) <= limit
<1> DEFINE f == [x \in first |-> Cardinality(before[x])]
<1>1. \A x \in S : IsFiniteSet(before[x]) /\ Cardinality(before[x]) \in Nat
  BY FS_Subset, FS_CardinalityType
<1>2. ASSUME NEW x \in S, NEW y \in S, x \in before[y]
      PROVE  Cardinality(before[x]) # Cardinality(before[y])
  <2>1. before[x] \in SUBSET before[y] /\ before[x] # before[y]
    BY <1>2
  <2> QED
    BY <1>1, <2>1, FS_Subset
<1>3. f \in [first -> 0 .. limit - 1]
  BY <1>1
<1>4. \A x, y \in first : f[x] = f[y] => x = y
  BY <1>2
<1>5. f \in Injection(first, 0 .. limit - 1)
  <2> HIDE DEF f
  <2> QED
    BY <1>3, <1>4 DEF Injection, IsInjective
<1>6. IsFiniteSet(0 .. limit - 1) /\ Cardinality(0 .. limit - 1) = limit
  BY FS_Interval
<1>7. IsFiniteSet(first) /\ Cardinality(first) <= limit
  BY <1>5, <1>6, FS_Injection
<1> QED
  BY <1>7, FS_CardinalityType

\* Numbers made of a count and a rank below the base tell the ranks apart.
LEMMA RanksDiffer ==
    ASSUME NEW base \in Nat, NEW h \in Nat, NEW k \in Nat, NEW r \in 1 .. base, NEW s \in 1 .. base,
           h * (base + 1) + r = k * (base + 1) + s
    PROVE  r = s
<1>1. CASE h = k
  <2>1. h * (base + 1) \in Nat
    OBVIOUS
  <2> QED
    BY <1>1, <2>1
<1>2. ASSUME NEW a \in Nat, NEW b \in Nat, a < b
      PROVE  a * (base + 1) + base + 1 <= b * (base + 1)
  <2>1. PICK d \in Nat : b = a + 1 + d
    <3>1. b - a - 1 \in Nat /\ b = a + 1 + (b - a - 1)
      BY <1>2
    <3> QED
      BY <3>1
  <2>2. b * (base + 1) = a * (base + 1) + (base + 1) + d * (base + 1)
    BY <2>1
  <2>3. d * (base + 1) \in Nat /\ a * (base + 1) \in Nat
    OBVIOUS
  <2> QED
    BY <2>2, <2>3
<1>3. h * (base + 1) \in Nat /\ k * (base + 1) \in Nat
  OBVIOUS
<1>4. CASE h < k
  <2>1. h * (base + 1) + base + 1 <= k * (base + 1)
    BY <1>2, <1>4
  <2> QED
    BY <1>3, <2>1
<1>5. CASE k < h
  <2>1. k * (base + 1) + base + 1 <= h * (base + 1)
    BY <1>2, <1>5
  <2> QED
    BY <1>3, <2>1
<1> QED
  BY <1>1, <1>4, <1>5

-----------------------------------------------------------------------------

Kinds == {"mention", "affiliation", "broader"}

LEMMA PageNumbers ==
    /\ MaxDepth \in Nat /\ MaxDepth >= 1 /\ MaxEdges \in Nat /\ MaxEdges >= 1
    /\ HardEdges \in Nat /\ LastInstant \in Nat /\ MaxEdits \in Nat
BY PageConstants

\* Facts lead between nodes, and those of the hierarchy are no facts of posts.
LEMMA FactsLead ==
    /\ \A f \in Shown : f \in [kind : Kinds, from : Nodes, to : Nodes] /\ Ends(f) \in SUBSET Nodes
    /\ Facts \subseteq Shown /\ Broader \subseteq Shown /\ Facts \cap Broader = {}
    /\ Shown = Facts \cup Broader
<1>1. \A f \in Mentions : f.kind = "mention" /\ f \in [kind : Kinds, from : Nodes, to : Nodes]
  BY DEF Mentions, Kinds, Nodes
<1>2. \A f \in Affiliations : f.kind = "affiliation" /\ f \in [kind : Kinds, from : Nodes, to : Nodes]
  <2> SUFFICES ASSUME NEW f \in Affiliations
               PROVE  f.kind = "affiliation" /\ f \in [kind : Kinds, from : Nodes, to : Nodes]
    OBVIOUS
  <2>1. PICK q \in {x \in Persons : Employer[x] # NoNode} :
           f = [kind |-> "affiliation", from |-> q, to |-> Employer[q]]
    BY DEF Affiliations
  <2>2. q \in Nodes /\ Employer[q] \in Nodes
    BY PageConstants DEF Nodes
  <2> QED
    BY <2>1, <2>2 DEF Kinds
<1>3. \A f \in Broader : f.kind = "broader" /\ f \in [kind : Kinds, from : Nodes, to : Nodes]
  <2> SUFFICES ASSUME NEW f \in Broader
               PROVE  f.kind = "broader" /\ f \in [kind : Kinds, from : Nodes, to : Nodes]
    OBVIOUS
  <2>1. PICK q \in {x \in Firms : Owner[x] # NoNode} :
           f = [kind |-> "broader", from |-> q, to |-> Owner[q]]
    BY DEF Broader
  <2>2. q \in Nodes /\ Owner[q] \in Nodes
    BY PageConstants DEF Nodes
  <2> QED
    BY <2>1, <2>2 DEF Kinds
<1>4. \A f \in Facts : f.kind # "broader" /\ f \in [kind : Kinds, from : Nodes, to : Nodes]
  BY <1>1, <1>2 DEF Facts
<1>5. \A f \in Shown : f \in [kind : Kinds, from : Nodes, to : Nodes]
  BY <1>3, <1>4 DEF Shown
<1>6. \A f \in Shown : Ends(f) \in SUBSET Nodes
  BY <1>5 DEF Ends
<1>7. Facts \cap Broader = {}
  BY <1>3, <1>4
<1> QED
  BY <1>5, <1>6, <1>7 DEF Shown

LEMMA ShownFinite == IsFiniteSet(Shown) /\ Cardinality(Shown) \in Nat
<1> DEFINE triples == (Kinds \X Nodes) \X Nodes
           f == [x \in Shown |-> << <<x.kind, x.from>>, x.to >>]
<1>1. IsFiniteSet(Kinds)
  <2>1. Kinds = ({"mention"} \cup {"affiliation"}) \cup {"broader"}
    BY DEF Kinds
  <2> QED
    BY <2>1, FS_Singleton, FS_Union
<1>2. IsFiniteSet(triples)
  <2>1. IsFiniteSet(Kinds \X Nodes)
    BY <1>1, PageConstants, FS_Product
  <2> QED
    BY <2>1, PageConstants, FS_Product
<1>3. f \in [Shown -> triples]
  BY FactsLead
<1>4. \A x, y \in Shown : f[x] = f[y] => x = y
  <2> SUFFICES ASSUME NEW x \in Shown, NEW y \in Shown, f[x] = f[y] PROVE x = y
    OBVIOUS
  <2>1. x \in [kind : Kinds, from : Nodes, to : Nodes] /\ y \in [kind : Kinds, from : Nodes, to : Nodes]
    BY FactsLead
  <2>2. x.kind = y.kind /\ x.from = y.from /\ x.to = y.to
    OBVIOUS
  <2> QED
    BY <2>1, <2>2
<1>5. f \in Injection(Shown, triples)
  <2> HIDE DEF f, triples
  <2> QED
    BY <1>3, <1>4 DEF Injection, IsInjective
<1>6. IsFiniteSet(Shown)
  <2> HIDE DEF f, triples
  <2> QED
    BY <1>2, <1>5, FS_Injection
<1> QED
  BY <1>6, FS_CardinalityType

\* A row of a window.
PageRows == [fact : Facts, hop : 0 .. MaxDepth - 1, evidence : SUBSET Posts]

LEMMA HopIs ==
    ASSUME NEW facts, NEW f \in Near(facts)
    PROVE  Hop(f, facts) \in 0 .. MaxDepth - 1
<1> DEFINE steps == {d \in 0 .. MaxDepth - 1 : Ends(f) \cap Reached(facts)[d] # {}}
<1>1. MaxDepth - 1 \in steps
  BY PageNumbers DEF Near
<1>2. steps \in SUBSET Nat /\ steps # {}
  BY <1>1, PageNumbers
<1>3. Hop(f, facts) = Min(steps)
  BY DEF Hop
<1>4. Min(steps) \in steps
  <2> HIDE DEF steps
  <2> QED
    BY <1>2, LeastIs
<1> QED
  BY <1>3, <1>4

\* The rows of a window, and their keys.
LEMMA RowsTyped ==
    ASSUME NEW posts \in SUBSET Posts, NEW snapshot
    PROVE  \A r \in RowsOf(posts, snapshot) : r \in PageRows /\ r.evidence \subseteq posts
<1> SUFFICES ASSUME NEW r \in RowsOf(posts, snapshot) PROVE r \in PageRows /\ r.evidence \subseteq posts
  OBVIOUS
<1> PICK facts : facts = CandidateFacts(posts, snapshot)
  OBVIOUS
<1>1. PICK f \in Near(facts) :
         r = [fact |-> f, hop |-> Hop(f, facts), evidence |-> Supporters(f, posts, snapshot)]
  BY DEF RowsOf
<1>2. Hop(f, facts) \in 0 .. MaxDepth - 1
  BY HopIs
<1>3. f \in Facts
  BY DEF Near, CandidateFacts
<1>4. Supporters(f, posts, snapshot) \subseteq posts
  BY DEF Supporters
<1> QED
  BY <1>1, <1>2, <1>3, <1>4 DEF PageRows

LEMMA RowKeyIs ==
    ASSUME NEW r \in PageRows
    PROVE  RowKey(r) \in Nat /\ \E h \in Nat : RowKey(r) = h * (Cardinality(Shown) + 1) + Rank[r.fact]
<1>1. r.fact \in Shown /\ r.hop \in Nat
  BY FactsLead, PageNumbers DEF PageRows
<1>2. Rank[r.fact] \in Nat /\ Cardinality(Shown) \in Nat
  BY <1>1, ShownFinite, PageConstants
<1> PICK c : c = Cardinality(Shown)
  OBVIOUS
<1>3. RowKey(r) = r.hop * (c + 1) + Rank[r.fact]
  BY DEF RowKey
<1>4. r.hop * (c + 1) \in Nat
  BY <1>1, <1>2
<1> QED
  BY <1>1, <1>2, <1>3, <1>4

LEMMA KeyMapIs ==
    ASSUME NEW rows \in SUBSET PageRows
    PROVE  /\ KeyMap(rows) \in [FactsOf(rows) -> Nat]
           /\ \A f \in FactsOf(rows) : \E h \in Nat :
                  KeyMap(rows)[f] = h * (Cardinality(Shown) + 1) + Rank[f]
<1>1. ASSUME NEW f \in FactsOf(rows)
      PROVE  /\ KeyMap(rows)[f] \in Nat
             /\ \E h \in Nat : KeyMap(rows)[f] = h * (Cardinality(Shown) + 1) + Rank[f]
  <2> DEFINE numbers == {RowKey(r) : r \in {s \in rows : s.fact = f}}
  <2>1. numbers \in SUBSET Nat /\ numbers # {}
    BY RowKeyIs DEF FactsOf
  <2>2. KeyMap(rows)[f] = Min(numbers)
    BY DEF KeyMap
  <2>3. Min(numbers) \in numbers /\ Min(numbers) \in Nat
    <3> HIDE DEF numbers
    <3> QED
      BY <2>1, LeastIs
  <2>4. PICK r \in rows : r.fact = f /\ Min(numbers) = RowKey(r)
    BY <2>3
  <2> HIDE DEF numbers
  <2> QED
    BY <2>2, <2>3, <2>4, RowKeyIs
<1>2. DOMAIN KeyMap(rows) = FactsOf(rows) /\ KeyMap(rows) = [f \in FactsOf(rows) |-> KeyMap(rows)[f]]
  BY DEF KeyMap
<1> QED
  BY <1>1, <1>2

LEMMA LoadedTyped ==
    ASSUME NEW posts \in SUBSET Posts, NEW snapshot, NEW after, NEW limit
    PROVE  /\ Loaded(posts, snapshot, after, limit).rows \in SUBSET PageRows
           /\ Loaded(posts, snapshot, after, limit).more \in BOOLEAN
           /\ \A r \in Loaded(posts, snapshot, after, limit).rows : r.evidence \subseteq posts
<1>1. /\ Loaded(posts, snapshot, after, limit).rows \subseteq RowsOf(posts, snapshot)
      /\ Loaded(posts, snapshot, after, limit).more \in BOOLEAN
  BY DEF Loaded
<1> QED
  BY <1>1, RowsTyped

LEMMA RowFacts ==
    ASSUME NEW rows \in SUBSET PageRows
    PROVE  FactsOf(rows) \subseteq Facts
BY DEF FactsOf, PageRows

-----------------------------------------------------------------------------
(* What the assembler collects. *)

\* The focus, the ends that have been seen and the rows are what the request has read.
RowsRead == request.rows \in SUBSET PageRows

LEMMA CollectedIs ==
    ASSUME RowsRead
    PROVE  /\ Collected \subseteq Shown /\ Collected \cap Facts \subseteq FactsOf(request.rows)
           /\ EndsOf(Collected) \subseteq request.seen \cup {terms.focus}
           /\ Collected \ Facts \subseteq Broader
<1> PICK facts : facts = FactsOf(request.rows)
  OBVIOUS
<1> PICK hierarchy : hierarchy = BroaderOf(request.rows)
  OBVIOUS
<1>1. facts \subseteq Facts /\ hierarchy \subseteq Broader
  BY RowFacts DEF RowsRead, BroaderOf
<1>2. /\ Wanted(facts) \subseteq facts /\ Wanted(hierarchy) \subseteq hierarchy
      /\ \A f \in Wanted(facts) \cup Wanted(hierarchy) : Ends(f) \subseteq request.seen \cup {terms.focus}
  BY DEF Wanted, Authorized
<1>3. Collected \subseteq Wanted(facts) \cup Wanted(hierarchy)
  BY DEF Collected, Near
<1>4. EndsOf(Collected) \subseteq request.seen \cup {terms.focus}
  BY <1>2, <1>3 DEF EndsOf
<1> QED
  BY <1>1, <1>2, <1>3, <1>4, FactsLead

LEMMA DistanceIs ==
    ASSUME RowsRead, NEW f \in Collected
    PROVE  Distance(f) \in Nat
<1> PICK hierarchy : hierarchy = Wanted(BroaderOf(request.rows))
  OBVIOUS
<1>1. CASE f \in Facts
  <2> DEFINE hops == {r.hop : r \in {s \in request.rows : s.fact = f}}
  <2>1. hops \in SUBSET Nat /\ hops # {}
    BY <1>1, CollectedIs, PageNumbers DEF FactsOf, RowsRead, PageRows
  <2>2. Min(hops) \in Nat
    <3> HIDE DEF hops
    <3> QED
      BY <2>1, LeastIs
  <2>3. Depth(f) = Min(hops)
    BY DEF Depth
  <2> HIDE DEF hops
  <2> QED
    BY <1>1, <2>2, <2>3 DEF Distance
<1>2. CASE f \notin Facts /\ Collected \cap Facts = {}
  <2>1. Wanted(FactsOf(request.rows)) = {}
    <3> SUFFICES ASSUME Wanted(FactsOf(request.rows)) # {} PROVE FALSE
      OBVIOUS
    <3>1. PICK g \in Wanted(FactsOf(request.rows)) : TRUE
      OBVIOUS
    <3>2. g \in Collected
      BY <3>1 DEF Collected
    <3>3. g \in Facts
      BY RowFacts DEF Wanted, Authorized, RowsRead
    <3> QED
      BY <1>2, <3>2, <3>3
  <2>2. f \in Near(hierarchy)
    BY <2>1 DEF Collected
  <2>3. Hop(f, hierarchy) \in 0 .. MaxDepth - 1
    BY <2>2, HopIs
  <2>4. Distance(f) = Hop(f, hierarchy)
    BY <1>2 DEF Distance
  <2> QED
    BY <2>3, <2>4, PageNumbers
<1>3. CASE f \notin Facts /\ Collected \cap Facts # {}
  BY <1>3, PageNumbers DEF Distance
<1> QED
  BY <1>1, <1>2, <1>3

LEMMA PlaceIs ==
    ASSUME RowsRead, NEW f \in Collected
    PROVE  Place(f) \in Nat /\ \E h \in Nat : Place(f) = h * (Cardinality(Shown) + 1) + Rank[f]
<1>1. f \in Shown
  BY CollectedIs
<1>2. Rank[f] \in Nat /\ Cardinality(Shown) \in Nat
  BY <1>1, ShownFinite, PageConstants
<1>3. CASE f \in Facts
  <2>1. Place(f) = KeyMap(request.rows)[f] /\ f \in FactsOf(request.rows)
    BY <1>3, CollectedIs DEF Place
  <2> QED
    BY <2>1, KeyMapIs DEF RowsRead
<1>4. CASE f \notin Facts
  <2> PICK h : h = MaxDepth + Distance(f)
    OBVIOUS
  <2> PICK c : c = Cardinality(Shown)
    OBVIOUS
  <2>1. h \in Nat
    BY DistanceIs, PageNumbers
  <2>2. Place(f) = h * (c + 1) + Rank[f]
    BY <1>4 DEF Place
  <2>3. h * (c + 1) \in Nat
    BY <1>2, <2>1
  <2> QED
    BY <1>2, <2>1, <2>2, <2>3
<1> QED
  BY <1>3, <1>4

LEMMA PlacesDiffer ==
    ASSUME RowsRead, NEW f \in Collected, NEW g \in Collected, Place(f) = Place(g)
    PROVE  f = g
<1>1. f \in Shown /\ g \in Shown
  BY CollectedIs
<1> PICK c : c = Cardinality(Shown)
  OBVIOUS
<1>2. c \in Nat /\ Rank[f] \in 1 .. c /\ Rank[g] \in 1 .. c
  BY <1>1, ShownFinite, PageConstants
<1>3. PICK h \in Nat : Place(f) = h * (c + 1) + Rank[f]
  BY PlaceIs
<1>4. PICK k \in Nat : Place(g) = k * (c + 1) + Rank[g]
  BY PlaceIs
<1>5. Rank[f] = Rank[g]
  BY <1>2, <1>3, <1>4, RanksDiffer
<1> QED
  BY <1>1, <1>5, PageConstants

\* The first edges are no more than a page holds, and there is one if there is any.
LEMMA LeadingFew ==
    ASSUME RowsRead, NEW facts \in SUBSET Collected
    PROVE  /\ Leading(facts) \subseteq facts /\ IsFiniteSet(Leading(facts))
           /\ Cardinality(Leading(facts)) \in Nat /\ Cardinality(Leading(facts)) <= MaxEdges
           /\ facts # {} => Leading(facts) # {}
<1>1. IsFiniteSet(facts)
  BY CollectedIs, ShownFinite, FS_Subset
<1> DEFINE before == [f \in facts |-> {g \in facts : Place(g) < Place(f)}]
<1>2. before \in [facts -> SUBSET facts]
  OBVIOUS
<1>3. \A f \in facts : Place(f) \in Nat
  BY PlaceIs
<1>4. /\ \A f \in facts : f \notin before[f]
      /\ \A f, g \in facts : f # g => f \in before[g] \/ g \in before[f]
      /\ \A f, g \in facts : f \in before[g] => before[f] \subseteq before[g]
  <2>1. \A f, g \in facts : f # g => Place(f) < Place(g) \/ Place(g) < Place(f)
    BY <1>3, PlacesDiffer
  <2> QED
    BY <1>3, <2>1
<1>5. Leading(facts) = {f \in facts : Cardinality(before[f]) < MaxEdges}
  BY DEF Leading
<1> HIDE DEF before
<1>6. /\ IsFiniteSet(Leading(facts)) /\ Cardinality(Leading(facts)) \in Nat
      /\ Cardinality(Leading(facts)) <= MaxEdges
  BY <1>1, <1>2, <1>4, <1>5, PageNumbers, FirstFew
<1>7. ASSUME facts # {} PROVE Leading(facts) # {}
  <2> DEFINE places == {Place(f) : f \in facts}
  <2>1. places \in SUBSET Nat /\ places # {}
    BY <1>3, <1>7
  <2>2. PICK n \in places : \A m \in places : n <= m
    <3> HIDE DEF places
    <3> QED
      BY <2>1, LeastNumber
  <2>3. PICK f \in facts : Place(f) = n
    OBVIOUS
  <2>4. {g \in facts : Place(g) < Place(f)} = {}
    BY <1>3, <2>2, <2>3
  <2>5. f \in Leading(facts)
    BY <2>4, FS_EmptySet, PageNumbers DEF Leading
  <2> QED
    BY <2>5
<1>8. Leading(facts) \subseteq facts
  BY DEF Leading
<1> QED
  BY <1>6, <1>7, <1>8

\* The last of some edges is one of them.
LEMMA LastIs ==
    ASSUME RowsRead, NEW facts \in SUBSET Collected, facts # {}
    PROVE  LastOf(facts) \in facts
<1>1. IsFiniteSet(facts)
  BY CollectedIs, ShownFinite, FS_Subset
<1> DEFINE places == {Place(f) : f \in facts}
           place == [f \in facts |-> Place(f)]
<1>2. places \in SUBSET Nat /\ places # {}
  BY PlaceIs
<1>3. place \in Surjection(facts, places)
  BY DEF Surjection
<1>4. IsFiniteSet(places)
  <2> HIDE DEF place, places
  <2> QED
    BY <1>1, <1>3, FS_Surjection
<1>5. PICK n \in places : \A m \in places : m <= n
  <2> HIDE DEF places
  <2> QED
    BY <1>2, <1>4, GreatestNumber
<1>6. \E f \in facts : \A g \in facts : Place(g) <= Place(f)
  BY <1>5
<1> QED
  BY <1>6 DEF LastOf

\* The nearest nodes are no more than were asked for.
LEMMA NearestFew ==
    ASSUME RowsRead, terms.nodes \in Nat, terms.focus \in Nodes,
           NEW facts \in SUBSET Collected, NEW nodes \in SUBSET ({terms.focus} \cup EndsOf(facts))
    PROVE  /\ Nearest(nodes) \subseteq nodes
           /\ Cardinality(Nearest(nodes)) \in Nat /\ Cardinality(Nearest(nodes)) <= terms.nodes
<1>1. nodes \in SUBSET Nodes
  BY CollectedIs, FactsLead DEF EndsOf
<1>2. IsFiniteSet(nodes)
  BY <1>1, PageConstants, FS_Subset
<1>3. ASSUME NEW n \in nodes PROVE FarFrom(n) \in Nat
  <2>1. CASE n = terms.focus
    BY <2>1 DEF FarFrom
  <2>2. CASE n # terms.focus
    <3> DEFINE distances == {Distance(f) : f \in {g \in Collected : n \in Ends(g)}}
    <3>1. distances \in SUBSET Nat /\ distances # {}
      BY <2>2, DistanceIs DEF EndsOf
    <3>2. Min(distances) \in Nat
      <4> HIDE DEF distances
      <4> QED
        BY <3>1, LeastIs
    <3>3. FarFrom(n) = 1 + Min(distances)
      BY <2>2 DEF FarFrom
    <3> HIDE DEF distances
    <3> QED
      BY <3>2, <3>3
  <2> QED
    BY <2>1, <2>2
<1>4. \A n \in nodes : NodeRank[n] \in Nat
  BY <1>1, PageConstants
<1>5. \A m, n \in nodes : NodeRank[m] = NodeRank[n] => m = n
  BY <1>1, PageConstants
<1> DEFINE before == [n \in nodes |-> {m \in nodes : Closer(m, n)}]
<1>6. before \in [nodes -> SUBSET nodes]
  OBVIOUS
<1>7. /\ \A n \in nodes : n \notin before[n]
      /\ \A m, n \in nodes : m # n => m \in before[n] \/ n \in before[m]
      /\ \A m, n \in nodes : m \in before[n] => before[m] \subseteq before[n]
  <2>1. \A n \in nodes : ~Closer(n, n)
    BY <1>3, <1>4 DEF Closer
  <2>2. \A m, n \in nodes : m # n => Closer(m, n) \/ Closer(n, m)
    BY <1>3, <1>4, <1>5 DEF Closer
  <2>3. \A k, m, n \in nodes : Closer(k, m) /\ Closer(m, n) => Closer(k, n)
    BY <1>3, <1>4 DEF Closer
  <2> QED
    BY <2>1, <2>2, <2>3
<1>8. Nearest(nodes) = {n \in nodes : Cardinality(before[n]) < terms.nodes}
  BY DEF Nearest
<1>9. Nearest(nodes) \subseteq nodes
  BY DEF Nearest
<1> HIDE DEF before
<1>10. Cardinality(Nearest(nodes)) \in Nat /\ Cardinality(Nearest(nodes)) <= terms.nodes
  BY <1>2, <1>6, <1>7, <1>8, FirstFew
<1> QED
  BY <1>9, <1>10

-----------------------------------------------------------------------------
(* The invariant of the pages. *)

KeyMaps == UNION {[facts -> Nat] : facts \in SUBSET Facts}

Requests == [pc : Stages, cursor : Cursors, snapshot : 0 .. LastInstant, posts : SUBSET Posts,
             wider : SUBSET Posts, round : 0 .. MaxDepth, rows : SUBSET PageRows, more : BOOLEAN,
             keys : KeyMaps, seen : SUBSET Nodes, asked : SUBSET Nodes]

Chains == [delivered : SUBSET Shown, undisturbed : BOOLEAN, snapshot : 0 .. LastInstant,
           visible : SUBSET Nodes]

\* The graph: nothing is dated later than now but what has not been imported.
GraphOK ==
    /\ clock \in 0 .. LastInstant /\ edits \in 0 .. MaxEdits
    /\ born \in [Posts -> 0 .. LastInstant + 1]
    /\ \A p \in Posts : born[p] <= clock \/ born[p] = LastInstant + 1
    /\ readable \subseteq Posts /\ mentioned \subseteq Mentions
    /\ support \subseteq Facts \X Posts /\ since \in [Facts -> 0 .. LastInstant]
    /\ terms \in [focus : Focuses, sealed : BOOLEAN, allowed : Filters, nodes : NodeLimits]

\* What a request has read was visible, and it reads no later than now.
RequestOK(x, now, visible) ==
    /\ x \in Requests /\ x.keys \in [FactsOf(x.rows) -> Nat]
    /\ x.cursor.snapshot <= now /\ x.snapshot <= now
    /\ x.posts \subseteq visible /\ x.wider \subseteq visible /\ x.seen \subseteq visible
    /\ \A r \in x.rows : r.evidence \subseteq visible
    /\ x.pc = "reload" => x.round < MaxDepth

PageOK(x, now, limit) ==
    /\ x.edges \subseteq Shown /\ EndsOf(x.edges) \subseteq x.nodes
    /\ Cardinality(x.edges) <= MaxEdges /\ Cardinality(x.nodes) <= limit
    /\ x.cursor \in Cursors /\ x.cursor.snapshot <= now
    /\ x.cursor # NoCursor => x.truncated

PageInv ==
    /\ GraphOK
    /\ chain \in Chains
    /\ RequestOK(request, clock, chain.visible)
    /\ request.pc # "idle" => Visible \subseteq chain.visible
    /\ request.pc \notin {"idle", "focus"} => terms.focus \in chain.visible
    /\ PageOK(page, clock, terms.nodes)

LEMMA NoRequestOK ==
    ASSUME NEW now \in Nat, NEW visible
    PROVE  RequestOK(NoRequest, now, visible) /\ NoRequest.pc = "idle"
<1>1. NoCursor \in Cursors /\ NoCursor.snapshot = 0
  BY PageNumbers DEF NoCursor, Cursors
<1>2. NoKeys \in [{} -> Nat] /\ NoKeys \in KeyMaps
  <2>1. NoKeys \in [{} -> Nat]
    BY DEF NoKeys
  <2> QED
    BY <2>1 DEF KeyMaps
<1>3. /\ NoRequest.pc = "idle" /\ NoRequest.cursor = NoCursor /\ NoRequest.snapshot = 0
      /\ NoRequest.posts = {} /\ NoRequest.wider = {} /\ NoRequest.rows = {}
      /\ NoRequest.keys = NoKeys /\ NoRequest.seen = {}
  BY DEF NoRequest
<1>4. NoRequest \in Requests
  BY <1>1, <1>2, PageNumbers DEF NoRequest, Requests, Stages
<1>5. FactsOf(NoRequest.rows) = {}
  BY <1>3 DEF FactsOf
<1> QED
  BY <1>1, <1>2, <1>3, <1>4, <1>5 DEF RequestOK

LEMMA NoPageOK ==
    ASSUME NEW now \in Nat, NEW limit \in Nat, NEW code
    PROVE  PageOK([NoPage EXCEPT !.failed = code], now, limit) /\ PageOK(NoPage, now, limit)
<1> SUFFICES ASSUME NEW x, x = [NoPage EXCEPT !.failed = code] \/ x = NoPage
             PROVE  PageOK(x, now, limit)
  OBVIOUS
<1>1. /\ x.edges = {} /\ x.nodes = {} /\ x.cursor = NoCursor
  BY DEF NoPage
<1>2. NoCursor \in Cursors /\ NoCursor.snapshot = 0
  BY PageNumbers DEF NoCursor, Cursors
<1>3. EndsOf({}) = {}
  BY DEF EndsOf
<1> QED
  BY <1>1, <1>2, <1>3, FS_EmptySet, PageNumbers DEF PageOK

LEMMA LimitIsNat ==
    ASSUME GraphOK
    PROVE  clock \in Nat /\ terms.nodes \in Nat /\ terms.nodes >= 1 /\ terms.focus \in Nodes
<1>1. clock \in Nat
  BY PageNumbers DEF GraphOK
<1>2. terms.nodes \in NodeLimits /\ terms.focus \in Focuses
  BY DEF GraphOK
<1>3. terms.nodes \in Nat \ {0}
  BY <1>2, PageConstants
<1>4. terms.nodes \in Nat /\ terms.nodes >= 1
  BY <1>3
<1>5. terms.focus \in Nodes
  BY <1>2, PageConstants
<1> QED
  BY <1>1, <1>4, <1>5

LEMMA PagesStart == PagesInit => PageInv
<1> SUFFICES ASSUME PagesInit PROVE PageInv
  OBVIOUS
<1>1. GraphOK
  BY PageNumbers DEF GraphOK, PagesInit
<1>2. chain \in Chains
  BY PageNumbers DEF Chains, PagesInit
<1>3. request = NoRequest /\ page = NoPage
  BY DEF PagesInit
<1>4. RequestOK(request, clock, chain.visible) /\ request.pc = "idle"
  BY <1>1, <1>3, LimitIsNat, NoRequestOK
<1>5. PageOK(page, clock, terms.nodes)
  BY <1>1, <1>3, LimitIsNat, NoPageOK
<1> QED
  BY <1>1, <1>2, <1>4, <1>5 DEF PageInv

\* What grounds a node at an earlier moment grounds it now.
LEMMA GroundsAreVisible ==
    ASSUME GraphOK, NEW n \in Nodes, NEW snapshot \in Nat, snapshot <= clock
    PROVE  /\ Grounds(n, snapshot) \subseteq Posts /\ Grounds(n, snapshot) \subseteq Visible
           /\ Grounds(n, snapshot) # {} => n \in Visible
<1>1. ASSUME NEW p \in Grounds(n, snapshot)
      PROVE  p \in Posts /\ p \in Grounds(n, clock) /\ p \in Grounds(p, clock)
  <2>1. p \in readable /\ p \in Posts /\ born[p] <= snapshot
    BY DEF Grounds, Existing, GraphOK
  <2>2. born[p] <= clock
    <3>1. born[p] \in Nat /\ clock \in Nat
      BY <2>1, PageNumbers DEF GraphOK
    <3> QED
      BY <2>1, <3>1
  <2> QED
    BY <2>1, <2>2 DEF Grounds, Existing
<1>2. \A p \in Grounds(n, snapshot) : p \in Nodes /\ p \in Visible
  BY <1>1 DEF Visible, Nodes
<1> QED
  BY <1>1, <1>2 DEF Visible

LEMMA SeenIsVisible ==
    ASSUME GraphOK, NEW nodes \in SUBSET Nodes, request.snapshot \in Nat, request.snapshot <= clock
    PROVE  SeenOf(nodes) \subseteq Visible /\ SeenOf(nodes) \in SUBSET Nodes
<1>1. \A n \in SeenOf(nodes) : n \in Nodes /\ n \in Visible
  BY GroundsAreVisible DEF SeenOf
<1> QED
  BY <1>1

-----------------------------------------------------------------------------
(* The steps of a request. *)

LEMMA FailStep ==
    ASSUME PageInv, NEW code, Fail(code)
    PROVE  PageInv'
<1>1. request' = NoRequest /\ page' = [NoPage EXCEPT !.failed = code] /\ UNCHANGED <<graphVars, terms, chain>>
  BY DEF Fail
<1>2. clock \in Nat /\ terms.nodes \in Nat
  BY LimitIsNat DEF PageInv
<1>3. RequestOK(NoRequest, clock, chain.visible) /\ NoRequest.pc = "idle"
  BY <1>2, NoRequestOK
<1>4. PageOK(page', clock, terms.nodes)
  BY <1>1, <1>2, NoPageOK
<1>5. GraphOK'
  BY <1>1 DEF PageInv, GraphOK, graphVars
<1>6. clock' = clock /\ terms' = terms /\ chain' = chain
  BY <1>1 DEF graphVars
<1>7. RequestOK(request, clock, chain.visible)' /\ request'.pc = "idle"
  BY <1>1, <1>3, <1>6
<1>8. PageOK(page, clock, terms.nodes)'
  BY <1>4, <1>6
<1> QED
  BY <1>5, <1>6, <1>7, <1>8 DEF PageInv

\* A step within a request.
LEMMA RequestMoves ==
    ASSUME PageInv, NEW new, RequestOK(new, clock, chain.visible), Advance(new),
           request.pc # "idle",
           terms.focus \in chain.visible
    PROVE  PageInv'
<1>1. request' = new /\ UNCHANGED <<graphVars, terms, page, chain>>
  BY DEF Advance
<1>2. GraphOK'
  BY <1>1 DEF PageInv, GraphOK, graphVars
<1>3. clock' = clock /\ terms' = terms /\ chain' = chain /\ page' = page
  BY <1>1 DEF graphVars
<1>4. RequestOK(request, clock, chain.visible)'
  BY <1>1, <1>3
<1>5. PageOK(page, clock, terms.nodes)'
  BY <1>3 DEF PageInv
<1>6. Visible' = Visible
  BY <1>1 DEF Visible, Grounds, Existing, MentionedIn, graphVars
<1> QED
  BY <1>2, <1>3, <1>4, <1>5, <1>6 DEF PageInv

LEMMA BeginRequestStep ==
    ASSUME PageInv, BeginRequest
    PROVE  PageInv'
<1>1. PICK cursor \in {NoCursor, page.cursor} :
         LET snapshot == IF cursor.kind = "source" THEN cursor.snapshot ELSE clock
         IN  /\ request' = [NoRequest EXCEPT !.pc = "focus", !.cursor = cursor, !.snapshot = snapshot]
             /\ chain' = [delivered |-> IF cursor = NoCursor THEN {} ELSE chain.delivered,
                          undisturbed |-> cursor = NoCursor \/ StillUndisturbed(snapshot),
                          snapshot |-> snapshot, visible |-> Visible]
             /\ UNCHANGED <<graphVars, terms, page>>
  BY DEF BeginRequest
<1> PICK snapshot : snapshot = IF cursor.kind = "source" THEN cursor.snapshot ELSE clock
  OBVIOUS
<1> PICK new : new = [NoRequest EXCEPT !.pc = "focus", !.cursor = cursor, !.snapshot = snapshot]
  OBVIOUS
<1>2. clock \in Nat /\ clock \in 0 .. LastInstant /\ chain \in Chains
  BY LimitIsNat DEF PageInv, GraphOK
<1>3. cursor \in Cursors /\ cursor.snapshot <= clock
  <2>1. NoCursor \in Cursors /\ NoCursor.snapshot = 0
    BY PageNumbers DEF NoCursor, Cursors
  <2>2. page.cursor \in Cursors /\ page.cursor.snapshot <= clock
    BY DEF PageInv, PageOK
  <2> QED
    BY <1>2, <2>1, <2>2
<1>4. snapshot \in 0 .. LastInstant /\ snapshot <= clock
  BY <1>2, <1>3 DEF Cursors
<1>5. RequestOK(NoRequest, clock, Visible)
  BY <1>2, NoRequestOK
<1>6. NoRequest \in Requests
  BY <1>5 DEF RequestOK
<1>7. /\ new \in Requests /\ new.pc = "focus" /\ new.cursor = cursor /\ new.snapshot = snapshot
      /\ new.rows = NoRequest.rows /\ new.keys = NoRequest.keys /\ new.posts = NoRequest.posts
      /\ new.wider = NoRequest.wider /\ new.seen = NoRequest.seen
  BY <1>3, <1>4, <1>6 DEF Requests, Stages
<1>8. RequestOK(new, clock, Visible)
  BY <1>3, <1>4, <1>5, <1>7 DEF RequestOK
<1>9. request' = new /\ UNCHANGED <<graphVars, terms, page>> /\ chain'.visible = Visible
  BY <1>1
<1>10. chain' \in Chains
  <2> PICK undisturbed : undisturbed = (cursor = NoCursor \/ StillUndisturbed(snapshot))
    OBVIOUS
  <2>1. undisturbed \in BOOLEAN
    BY DEF StillUndisturbed
  <2>2. Visible \subseteq Nodes
    BY DEF Visible
  <2>3. chain.delivered \subseteq Shown
    BY <1>2 DEF Chains
  <2>4. chain' = [delivered |-> IF cursor = NoCursor THEN {} ELSE chain.delivered,
                  undisturbed |-> undisturbed, snapshot |-> snapshot, visible |-> Visible]
    BY <1>1
  <2> QED
    BY <1>4, <2>1, <2>2, <2>3, <2>4 DEF Chains
<1>11. GraphOK'
  BY <1>9 DEF PageInv, GraphOK, graphVars
<1>12. clock' = clock /\ terms' = terms /\ page' = page
  BY <1>9 DEF graphVars
<1>13. RequestOK(request, clock, chain.visible)'
  BY <1>8, <1>9, <1>12
<1>14. PageOK(page, clock, terms.nodes)'
  BY <1>12 DEF PageInv
<1>15. Visible' = Visible
  BY <1>9 DEF Visible, Grounds, Existing, MentionedIn, graphVars
<1>16. request'.pc = "focus"
  BY <1>7, <1>9
<1> QED
  BY <1>9, <1>10, <1>11, <1>13, <1>14, <1>15, <1>16 DEF PageInv

\* What a step of a request finds.
LEMMA RequestHas ==
    ASSUME PageInv, request.pc # "idle"
    PROVE  /\ GraphOK /\ request \in Requests /\ RequestOK(request, clock, chain.visible)
           /\ Visible \subseteq chain.visible /\ request.posts \in SUBSET Posts
           /\ request.snapshot \in Nat /\ request.snapshot <= clock
           /\ RowsRead /\ EndsOf(FactsOf(request.rows)) \in SUBSET Nodes
<1>1. request \in Requests /\ RequestOK(request, clock, chain.visible)
  BY DEF PageInv, RequestOK
<1>2. RowsRead /\ request.posts \in SUBSET Posts /\ request.snapshot \in Nat
  BY <1>1, PageNumbers DEF Requests, RowsRead
<1>3. FactsOf(request.rows) \subseteq Shown
  BY <1>2, RowFacts, FactsLead DEF RowsRead
<1>4. EndsOf(FactsOf(request.rows)) \in SUBSET Nodes
  BY <1>3, FactsLead DEF EndsOf
<1> QED
  BY <1>1, <1>2, <1>4 DEF PageInv, RequestOK

LEMMA ReadFocusStep ==
    ASSUME PageInv, ReadFocus
    PROVE  PageInv'
<1> PICK old : old = request
  OBVIOUS
<1> PICK grounds : grounds = Grounds(terms.focus, request.snapshot)
  OBVIOUS
<1> PICK new : new = [old EXCEPT !.pc = "load", !.posts = grounds]
  OBVIOUS
<1>1. old.pc = "focus" /\ IF grounds = {} THEN Fail("focus_not_visible") ELSE Advance(new)
  BY DEF ReadFocus
<1>2. CASE grounds = {}
  BY <1>1, <1>2, FailStep
<1>3. CASE grounds # {}
  <2>1. terms.focus \in Nodes
    BY LimitIsNat DEF PageInv
  <2>2. GraphOK /\ request.snapshot \in Nat /\ request.snapshot <= clock /\ Visible \subseteq chain.visible
    BY <1>1, RequestHas
  <2>3. grounds \subseteq Posts /\ grounds \subseteq Visible /\ terms.focus \in Visible
    BY <1>3, <2>1, <2>2, GroundsAreVisible
  <2>4. old \in Requests /\ RequestOK(old, clock, chain.visible)
    BY <1>1, RequestHas
  <2>5. /\ new \in Requests /\ new.pc = "load" /\ new.posts = grounds /\ new.wider = old.wider
        /\ new.seen = old.seen /\ new.rows = old.rows /\ new.keys = old.keys
        /\ new.cursor = old.cursor /\ new.snapshot = old.snapshot
    BY <2>3, <2>4 DEF Requests, Stages
  <2>6. RequestOK(new, clock, chain.visible)
    BY <2>2, <2>3, <2>4, <2>5 DEF RequestOK
  <2> QED
    BY <1>1, <1>3, <2>2, <2>3, <2>6, RequestMoves
<1> QED
  BY <1>2, <1>3

\* The keys of a window belong to its rows.
LEMMA KeysTyped ==
    ASSUME NEW rows \in SUBSET PageRows
    PROVE  KeyMap(rows) \in [FactsOf(rows) -> Nat] /\ KeyMap(rows) \in KeyMaps
<1>1. KeyMap(rows) \in [FactsOf(rows) -> Nat] /\ FactsOf(rows) \in SUBSET Facts
  BY KeyMapIs, RowFacts
<1> QED
  BY <1>1 DEF KeyMaps

LEMMA LoadFirstStep ==
    ASSUME PageInv, LoadFirst
    PROVE  PageInv'
<1> PICK old : old = request
  OBVIOUS
<1> PICK window : window = Loaded(old.posts, old.snapshot, 0, HardEdges)
  OBVIOUS
<1> PICK keys : keys = KeyMap(window.rows)
  OBVIOUS
<1> PICK new : new = [old EXCEPT !.pc = "widen", !.rows = window.rows, !.more = window.more,
                                 !.keys = keys]
  OBVIOUS
<1>1. old.pc = "load" /\ Advance(new)
  BY DEF LoadFirst
<1>2. old \in Requests /\ RequestOK(old, clock, chain.visible) /\ old.posts \in SUBSET Posts
  BY <1>1, RequestHas
<1>3. window.rows \in SUBSET PageRows /\ window.more \in BOOLEAN
      /\ \A r \in window.rows : r.evidence \subseteq old.posts
  BY <1>2, LoadedTyped
<1>4. keys \in [FactsOf(window.rows) -> Nat] /\ keys \in KeyMaps
  BY <1>3, KeysTyped
<1>5. /\ new \in Requests /\ new.pc = "widen" /\ new.posts = old.posts /\ new.wider = old.wider
      /\ new.seen = old.seen /\ new.rows = window.rows /\ new.keys = keys
      /\ new.cursor = old.cursor /\ new.snapshot = old.snapshot
  BY <1>2, <1>3, <1>4 DEF Requests, Stages
<1>6. RequestOK(new, clock, chain.visible)
  BY <1>2, <1>3, <1>4, <1>5 DEF RequestOK
<1>7. terms.focus \in chain.visible
  BY <1>1 DEF PageInv
<1> QED
  BY <1>1, <1>6, <1>7, RequestMoves

LEMMA WidenStep ==
    ASSUME PageInv, Widen
    PROVE  PageInv'
<1> PICK old : old = request
  OBVIOUS
<1> PICK ends : ends = EndsOf(FactsOf(request.rows))
  OBVIOUS
<1> PICK posts : posts = request.posts \cup UNION {Grounds(n, request.snapshot) : n \in ends}
  OBVIOUS
<1> PICK grows : grows = (request.round < MaxDepth /\ posts # request.posts)
  OBVIOUS
<1> PICK seen : seen = IF ends = {} THEN old.seen ELSE SeenOf(ends)
  OBVIOUS
<1> PICK asked : asked = IF ends = {} THEN old.asked ELSE ends
  OBVIOUS
<1> PICK wider : wider = IF grows THEN posts ELSE {}
  OBVIOUS
<1> PICK new : new = [old EXCEPT !.pc = IF grows THEN "reload" ELSE "page", !.seen = seen,
                                 !.asked = asked, !.wider = wider]
  OBVIOUS
<1>1. old.pc = "widen" /\ Advance(new)
  BY DEF Widen
<1>2. /\ GraphOK /\ old \in Requests /\ RequestOK(old, clock, chain.visible)
      /\ Visible \subseteq chain.visible /\ old.posts \in SUBSET Posts
      /\ request.snapshot \in Nat /\ request.snapshot <= clock /\ ends \in SUBSET Nodes
  BY <1>1, RequestHas
<1>3. \A n \in ends : Grounds(n, request.snapshot) \subseteq Posts /\ Grounds(n, request.snapshot) \subseteq Visible
  BY <1>2, GroundsAreVisible
<1>4. wider \in SUBSET Posts /\ wider \subseteq chain.visible
  BY <1>2, <1>3 DEF RequestOK
<1>5. seen \in SUBSET Nodes /\ seen \subseteq chain.visible /\ asked \in SUBSET Nodes
  <2>1. SeenOf(ends) \subseteq Visible /\ SeenOf(ends) \in SUBSET Nodes
    BY <1>2, SeenIsVisible
  <2>2. old.seen \in SUBSET Nodes /\ old.seen \subseteq chain.visible /\ old.asked \in SUBSET Nodes
    BY <1>2 DEF RequestOK, Requests
  <2> QED
    BY <1>2, <2>1, <2>2
<1>6. /\ new \in Requests /\ new.pc = (IF grows THEN "reload" ELSE "page") /\ new.posts = old.posts
      /\ new.wider = wider /\ new.round = old.round
      /\ new.seen = seen /\ new.rows = old.rows /\ new.keys = old.keys
      /\ new.cursor = old.cursor /\ new.snapshot = old.snapshot
  BY <1>2, <1>4, <1>5 DEF Requests, Stages
<1>7. RequestOK(new, clock, chain.visible)
  <2>1. grows => old.round < MaxDepth
    OBVIOUS
  <2>2. new.pc = "reload" => new.round < MaxDepth
    BY <1>6, <2>1
  <2>3. new.posts \subseteq chain.visible /\ new.wider \subseteq chain.visible
        /\ new.seen \subseteq chain.visible /\ \A r \in new.rows : r.evidence \subseteq chain.visible
    BY <1>2, <1>4, <1>5, <1>6 DEF RequestOK
  <2> QED
    BY <1>2, <1>6, <2>2, <2>3 DEF RequestOK
<1>8. terms.focus \in chain.visible
  BY <1>1 DEF PageInv
<1> QED
  BY <1>1, <1>7, <1>8, RequestMoves

LEMMA ReloadStep ==
    ASSUME PageInv, Reload
    PROVE  PageInv'
<1> PICK old : old = request
  OBVIOUS
<1> PICK window : window = Loaded(old.wider, old.snapshot, 0, HardEdges)
  OBVIOUS
<1> PICK rows : rows = old.rows \cup window.rows
  OBVIOUS
<1> PICK more : more = (old.more \/ window.more)
  OBVIOUS
<1> PICK keys : keys = Updated(old.keys, KeyMap(window.rows))
  OBVIOUS
<1> PICK new : new = [old EXCEPT !.pc = "widen", !.posts = old.wider, !.wider = {},
                                 !.round = old.round + 1, !.rows = rows, !.more = more, !.keys = keys]
  OBVIOUS
<1>1. old.pc = "reload" /\ Advance(new)
  BY DEF Reload
<1>2. old \in Requests /\ RequestOK(old, clock, chain.visible) /\ old.rows \in SUBSET PageRows
      /\ old.wider \in SUBSET Posts
  BY <1>1, RequestHas DEF Requests
<1>3. window.rows \in SUBSET PageRows /\ window.more \in BOOLEAN
      /\ \A r \in window.rows : r.evidence \subseteq old.wider
  BY <1>2, LoadedTyped
<1>4. rows \in SUBSET PageRows /\ more \in BOOLEAN
  BY <1>2, <1>3 DEF Requests
<1>5. keys \in [FactsOf(rows) -> Nat] /\ keys \in KeyMaps
  <2> PICK added : added = KeyMap(window.rows)
    OBVIOUS
  <2>1. added \in [FactsOf(window.rows) -> Nat] /\ old.keys \in [FactsOf(old.rows) -> Nat]
    BY <1>2, <1>3, KeysTyped DEF RequestOK
  <2>2. FactsOf(rows) = FactsOf(old.rows) \cup FactsOf(window.rows)
    BY DEF FactsOf
  <2>3. keys \in [FactsOf(rows) -> Nat]
    BY <2>1, <2>2 DEF Updated
  <2>4. FactsOf(rows) \in SUBSET Facts
    BY <1>4, RowFacts
  <2> QED
    BY <2>3, <2>4 DEF KeyMaps
<1>6. old.round + 1 \in 0 .. MaxDepth
  BY <1>1, <1>2, PageNumbers DEF RequestOK, Requests
<1>7. /\ new \in Requests /\ new.pc = "widen" /\ new.posts = old.wider /\ new.wider = {}
      /\ new.seen = old.seen /\ new.rows = rows /\ new.keys = keys
      /\ new.cursor = old.cursor /\ new.snapshot = old.snapshot
  BY <1>2, <1>4, <1>5, <1>6 DEF Requests, Stages
<1>8. RequestOK(new, clock, chain.visible)
  BY <1>2, <1>3, <1>5, <1>7 DEF RequestOK
<1>9. terms.focus \in chain.visible
  BY <1>1 DEF PageInv
<1> QED
  BY <1>1, <1>8, <1>9, RequestMoves

LEMMA ReadPageStep ==
    ASSUME PageInv, ReadPage
    PROVE  PageInv'
<1> PICK old : old = request
  OBVIOUS
<1> PICK window : window = Loaded(old.posts, old.snapshot, old.cursor.key, MaxEdges)
  OBVIOUS
<1> PICK keys : keys = KeyMap(window.rows)
  OBVIOUS
<1> PICK whole : whole = [old EXCEPT !.pc = "ends"]
  OBVIOUS
<1> PICK new : new = [old EXCEPT !.pc = "ends", !.rows = window.rows, !.more = window.more,
                                 !.keys = keys]
  OBVIOUS
<1>1. old.pc = "page" /\ (Advance(whole) \/ Fail("stale_snapshot") \/ Advance(new))
  BY DEF ReadPage
<1>2. old \in Requests /\ RequestOK(old, clock, chain.visible) /\ old.posts \in SUBSET Posts
  BY <1>1, RequestHas
<1>3. window.rows \in SUBSET PageRows /\ window.more \in BOOLEAN
      /\ \A r \in window.rows : r.evidence \subseteq old.posts
  BY <1>2, LoadedTyped
<1>4. keys \in [FactsOf(window.rows) -> Nat] /\ keys \in KeyMaps
  BY <1>3, KeysTyped
<1>5. /\ new \in Requests /\ new.pc = "ends" /\ new.posts = old.posts /\ new.wider = old.wider
      /\ new.seen = old.seen /\ new.rows = window.rows /\ new.keys = keys
      /\ new.cursor = old.cursor /\ new.snapshot = old.snapshot
  BY <1>2, <1>3, <1>4 DEF Requests, Stages
<1>6. /\ whole \in Requests /\ whole.pc = "ends" /\ whole.posts = old.posts /\ whole.wider = old.wider
      /\ whole.seen = old.seen /\ whole.rows = old.rows /\ whole.keys = old.keys
      /\ whole.cursor = old.cursor /\ whole.snapshot = old.snapshot
  BY <1>2 DEF Requests, Stages
<1>7. RequestOK(new, clock, chain.visible)
  BY <1>2, <1>3, <1>4, <1>5 DEF RequestOK
<1>8. RequestOK(whole, clock, chain.visible)
  BY <1>2, <1>6 DEF RequestOK
<1>9. terms.focus \in chain.visible
  BY <1>1 DEF PageInv
<1> QED
  BY <1>1, <1>7, <1>8, <1>9, RequestMoves, FailStep

LEMMA ReadEndsStep ==
    ASSUME PageInv, ReadEnds
    PROVE  PageInv'
<1> PICK old : old = request
  OBVIOUS
<1> PICK ends : ends = EndsOf(FactsOf(request.rows))
  OBVIOUS
<1> PICK seen : seen = IF ends = {} THEN old.seen ELSE SeenOf(ends)
  OBVIOUS
<1> PICK asked : asked = IF ends = {} THEN old.asked ELSE ends
  OBVIOUS
<1> PICK new : new = [old EXCEPT !.pc = "parents", !.seen = seen, !.asked = asked]
  OBVIOUS
<1>1. old.pc = "ends" /\ Advance(new)
  BY DEF ReadEnds
<1>2. /\ GraphOK /\ old \in Requests /\ RequestOK(old, clock, chain.visible)
      /\ Visible \subseteq chain.visible
      /\ request.snapshot \in Nat /\ request.snapshot <= clock /\ ends \in SUBSET Nodes
  BY <1>1, RequestHas
<1>3. seen \in SUBSET Nodes /\ seen \subseteq chain.visible /\ asked \in SUBSET Nodes
  <2>1. SeenOf(ends) \subseteq Visible /\ SeenOf(ends) \in SUBSET Nodes
    BY <1>2, SeenIsVisible
  <2>2. old.seen \in SUBSET Nodes /\ old.seen \subseteq chain.visible /\ old.asked \in SUBSET Nodes
    BY <1>2 DEF RequestOK, Requests
  <2> QED
    BY <1>2, <2>1, <2>2
<1>4. /\ new \in Requests /\ new.pc = "parents" /\ new.posts = old.posts
      /\ new.wider = old.wider /\ new.seen = seen /\ new.rows = old.rows /\ new.keys = old.keys
      /\ new.cursor = old.cursor /\ new.snapshot = old.snapshot
  BY <1>2, <1>3 DEF Requests, Stages
<1>5. RequestOK(new, clock, chain.visible)
  BY <1>2, <1>3, <1>4 DEF RequestOK
<1>6. terms.focus \in chain.visible
  BY <1>1 DEF PageInv
<1> QED
  BY <1>1, <1>5, <1>6, RequestMoves

LEMMA ReadParentsStep ==
    ASSUME PageInv, ReadParents
    PROVE  PageInv'
<1> PICK old : old = request
  OBVIOUS
<1> PICK parents : parents = {f.to : f \in BroaderOf(request.rows)} \ request.asked
  OBVIOUS
<1> PICK seen : seen = old.seen \cup SeenOf(parents)
  OBVIOUS
<1> PICK new : new = [old EXCEPT !.pc = "answer", !.asked = {}, !.seen = seen]
  OBVIOUS
<1>1. old.pc = "parents" /\ Advance(new)
  BY DEF ReadParents, ParentsShown
<1>2. /\ GraphOK /\ old \in Requests /\ RequestOK(old, clock, chain.visible)
      /\ Visible \subseteq chain.visible
      /\ request.snapshot \in Nat /\ request.snapshot <= clock
  BY <1>1, RequestHas
<1>3. parents \in SUBSET Nodes
  <2>1. \A f \in Broader : f.to \in Nodes
    BY FactsLead
  <2> QED
    BY <2>1 DEF BroaderOf
<1>4. seen \in SUBSET Nodes /\ seen \subseteq chain.visible
  <2>1. SeenOf(parents) \subseteq Visible /\ SeenOf(parents) \in SUBSET Nodes
    BY <1>2, <1>3, SeenIsVisible
  <2> QED
    BY <1>2, <2>1 DEF RequestOK, Requests
<1>5. /\ new \in Requests /\ new.pc = "answer" /\ new.posts = old.posts
      /\ new.wider = old.wider /\ new.seen = seen /\ new.rows = old.rows /\ new.keys = old.keys
      /\ new.cursor = old.cursor /\ new.snapshot = old.snapshot
  BY <1>2, <1>4 DEF Requests, Stages
<1>6. RequestOK(new, clock, chain.visible)
  BY <1>2, <1>4, <1>5 DEF RequestOK
<1>7. terms.focus \in chain.visible
  BY <1>1 DEF PageInv
<1> QED
  BY <1>1, <1>6, <1>7, RequestMoves

-----------------------------------------------------------------------------
(* The answer. *)

LEMMA NextCursorIs ==
    ASSUME GraphOK, RequestOK(request, clock, chain.visible),
           NEW shown \in SUBSET Collected, NEW rest \in BOOLEAN, NEW trimmed, NEW truncated,
           rest => truncated /\ shown # {}
    PROVE  /\ NextCursor(shown, rest, trimmed, truncated) \in Cursors
           /\ NextCursor(shown, rest, trimmed, truncated).snapshot <= clock
           /\ NextCursor(shown, rest, trimmed, truncated) # NoCursor => truncated
<1>1. request \in Requests /\ RowsRead /\ request.keys \in [FactsOf(request.rows) -> Nat]
      /\ request.snapshot \in 0 .. LastInstant /\ request.snapshot <= clock
      /\ request.posts \in SUBSET Posts
  BY DEF RequestOK, Requests, RowsRead
<1>2. Collected \subseteq Shown /\ Collected \cap Facts \subseteq FactsOf(request.rows)
  BY <1>1, CollectedIs
<1> PICK next : next = (rest /\ ~trimmed)
  OBVIOUS
<1> PICK kept : kept = IF trimmed
                       THEN {f \in shown : Ends(f) \subseteq Nearest({terms.focus} \cup EndsOf(shown))}
                       ELSE shown
  OBVIOUS
<1> PICK answer : answer = NextCursor(shown, rest, trimmed, truncated)
  OBVIOUS
<1>3. kept \subseteq shown
  OBVIOUS
<1> PICK source : source = [kind |-> "source", fact |-> NoNode, key |-> LastKey(kept),
                            snapshot |-> request.snapshot, posts |-> request.posts]
  OBVIOUS
<1>4. \/ answer = source
            /\ truncated /\ kept \cap Facts # {}
      \/ next /\ answer = [NoCursor EXCEPT !.kind = "after", !.fact = LastOf(shown)]
      \/ answer = NoCursor
  BY DEF NextCursor
<1>5. clock \in Nat
  BY LimitIsNat
<1>6. NoCursor \in Cursors /\ NoCursor.snapshot = 0
  BY PageNumbers DEF NoCursor, Cursors
<1>7. CASE answer = source
              /\ truncated /\ kept \cap Facts # {}
  <2>1. LastOf(kept \cap Facts) \in kept \cap Facts
    BY <1>1, <1>3, <1>7, LastIs
  <2>2. LastOf(kept \cap Facts) \in FactsOf(request.rows)
    BY <1>2, <1>3, <2>1
  <2>3. LastKey(kept) \in Nat
    BY <1>1, <2>2 DEF LastKey
  <2>4. source \in Cursors
    BY <1>1, <2>3 DEF Cursors
  <2>5. source.snapshot <= clock
    BY <1>1
  <2> QED
    BY <1>7, <2>4, <2>5
<1>8. CASE next /\ answer = [NoCursor EXCEPT !.kind = "after", !.fact = LastOf(shown)]
  <2>1. shown # {} /\ truncated
    BY <1>8
  <2>2. LastOf(shown) \in Shown
    BY <1>1, <1>2, <2>1, LastIs
  <2>3. answer \in Cursors /\ answer.snapshot = 0
    BY <1>6, <1>8, <2>2 DEF Cursors, NoCursor
  <2>4. answer.snapshot <= clock
    BY <1>5, <2>3
  <2> QED
    BY <2>1, <2>3, <2>4
<1>9. CASE answer = NoCursor
  BY <1>5, <1>6, <1>9
<1> QED
  BY <1>4, <1>7, <1>8, <1>9

LEMMA AnswerStep ==
    ASSUME PageInv, Answer
    PROVE  PageInv' /\ (page'.failed = "no" => page'.nodes \cup page'.evidence \subseteq chain.visible)
<1> PICK begin : begin = IF request.cursor.kind = "after" THEN request.cursor.fact ELSE NoNode
  OBVIOUS
<1> PICK found : found = Leading(After(begin))
  OBVIOUS
<1> PICK rest : rest = (found # After(begin))
  OBVIOUS
<1> PICK nodes : nodes = {terms.focus} \cup EndsOf(found)
  OBVIOUS
<1> PICK kept : kept = Nearest(nodes)
  OBVIOUS
<1> PICK trimmed : trimmed = (kept # nodes)
  OBVIOUS
<1> PICK shown : shown = {f \in found : Ends(f) \subseteq kept}
  OBVIOUS
<1> PICK truncated : truncated = \/ request.more \/ rest \/ trimmed
                                 \/ Cardinality({terms.focus} \cup EndsOf(Collected)) > terms.nodes
  OBVIOUS
<1> PICK evidence : evidence = UNION {r.evidence : r \in {s \in request.rows : s.fact \in shown}}
  OBVIOUS
<1> PICK cursor : cursor = NextCursor(found, rest, trimmed, truncated)
  OBVIOUS
<1>1. /\ request.pc = "answer"
      /\ \/ Fail("malformed_cursor")
         \/ /\ page' = [failed |-> "no", edges |-> shown, nodes |-> kept, evidence |-> evidence,
                        truncated |-> truncated, cursor |-> cursor]
            /\ chain' = [chain EXCEPT !.delivered = @ \cup shown]
            /\ request' = NoRequest
            /\ UNCHANGED <<graphVars, terms>>
  BY DEF Answer
<1>2. CASE Fail("malformed_cursor")
  <2>1. page'.failed = "malformed_cursor"
    BY <1>2 DEF Fail, NoPage
  <2> QED
    BY <1>2, <2>1, FailStep
<1>3. CASE /\ page' = [failed |-> "no", edges |-> shown, nodes |-> kept, evidence |-> evidence,
                       truncated |-> truncated, cursor |-> cursor]
           /\ chain' = [chain EXCEPT !.delivered = @ \cup shown]
           /\ request' = NoRequest
           /\ UNCHANGED <<graphVars, terms>>
  <2>1. /\ GraphOK /\ request \in Requests /\ RequestOK(request, clock, chain.visible) /\ RowsRead
        /\ terms.focus \in chain.visible /\ chain \in Chains
    BY <1>1, RequestHas DEF PageInv
  <2>2. clock \in Nat /\ terms.nodes \in Nat /\ terms.focus \in Nodes
    BY <2>1, LimitIsNat
  <2>3. /\ Collected \subseteq Shown /\ EndsOf(Collected) \subseteq request.seen \cup {terms.focus}
    BY <2>1, CollectedIs
  <2>4. After(begin) \in SUBSET Collected
    BY DEF After
  <2>5. /\ found \subseteq After(begin) /\ IsFiniteSet(found)
        /\ Cardinality(found) \in Nat /\ Cardinality(found) <= MaxEdges
        /\ After(begin) # {} => found # {}
    BY <2>1, <2>4, LeadingFew
  <2>6. rest \in BOOLEAN /\ (rest => truncated /\ found # {})
    BY <2>5
  <2>7. found \in SUBSET Collected
    BY <2>4, <2>5
  <2>8. cursor \in Cursors /\ cursor.snapshot <= clock /\ (cursor # NoCursor => truncated)
    BY <2>1, <2>6, <2>7, NextCursorIs
  <2>9. kept \subseteq nodes /\ Cardinality(kept) <= terms.nodes
    BY <2>1, <2>2, <2>7, NearestFew
  <2>10. shown \subseteq found /\ EndsOf(shown) \subseteq kept
    BY DEF EndsOf
  <2>11. Cardinality(shown) <= MaxEdges
    <3>1. IsFiniteSet(shown) /\ Cardinality(shown) <= Cardinality(found) /\ Cardinality(shown) \in Nat
      BY <2>5, <2>10, FS_Subset, FS_CardinalityType
    <3> QED
      BY <2>5, <3>1, PageNumbers
  <2>12. PageOK(page', clock, terms.nodes)
    BY <1>3, <2>3, <2>7, <2>8, <2>9, <2>10, <2>11 DEF PageOK
  <2>13. kept \subseteq chain.visible
    <3>1. EndsOf(found) \subseteq EndsOf(Collected)
      BY <2>7 DEF EndsOf
    <3>2. request.seen \subseteq chain.visible
      BY <2>1 DEF RequestOK
    <3> QED
      BY <2>1, <2>3, <2>9, <3>1, <3>2
  <2>14. evidence \subseteq chain.visible
    BY <2>1 DEF RequestOK
  <2>15. GraphOK' /\ clock' = clock /\ terms' = terms
    BY <1>3, <2>1 DEF GraphOK, graphVars
  <2>16. chain' \in Chains /\ chain'.visible = chain.visible
    BY <1>3, <2>1, <2>3, <2>7, <2>10 DEF Chains
  <2>17. RequestOK(request', clock, chain.visible) /\ request'.pc = "idle"
    BY <1>3, <2>2, NoRequestOK
  <2>18. PageInv'
    BY <2>12, <2>15, <2>16, <2>17 DEF PageInv
  <2> QED
    BY <1>3, <2>13, <2>14, <2>18
<1> QED
  BY <1>1, <1>2, <1>3

-----------------------------------------------------------------------------
(* The writers. *)

\* A write leaves the request and the page alone, and what it makes visible is remembered.
LEMMA WriteStep ==
    ASSUME PageInv, NEW moment, Write(moment), GraphOK'
    PROVE  PageInv'
<1>1. /\ UNCHANGED <<clock, terms, request, page>>
      /\ chain' = [chain EXCEPT !.undisturbed = @ /\ moment > chain.snapshot,
                                !.visible = @ \cup Visible']
  BY DEF Write
<1>2. chain \in Chains
  BY DEF PageInv
<1>3. Visible' \subseteq Nodes
  BY DEF Visible
<1>4. chain' \in Chains /\ chain'.visible = chain.visible \cup Visible'
  <2> PICK undisturbed : undisturbed = (chain.undisturbed /\ moment > chain.snapshot)
    OBVIOUS
  <2>1. undisturbed \in BOOLEAN
    OBVIOUS
  <2> PICK visible : visible = chain.visible \cup Visible'
    OBVIOUS
  <2>2. visible \in SUBSET Nodes
    BY <1>2, <1>3 DEF Chains
  <2>3. chain' = [chain EXCEPT !.undisturbed = undisturbed, !.visible = visible]
    BY <1>1
  <2> QED
    BY <1>2, <2>1, <2>2, <2>3 DEF Chains
<1>5. RequestOK(request, clock, chain.visible)'
  <2>1. RequestOK(request, clock, chain.visible) /\ chain.visible \subseteq chain'.visible
    BY <1>4 DEF PageInv
  <2>2. RequestOK(request, clock, chain'.visible)
    BY <2>1 DEF RequestOK
  <2> QED
    BY <1>1, <2>2
<1>6. PageOK(page, clock, terms.nodes)'
  BY <1>1 DEF PageInv
<1>7. request'.pc \notin {"idle", "focus"} => terms'.focus \in chain'.visible
  BY <1>1, <1>4 DEF PageInv
<1>8. Visible' \subseteq chain'.visible
  BY <1>4
<1> QED
  BY <1>4, <1>5, <1>6, <1>7, <1>8 DEF PageInv

LEMMA ImportKeeps ==
    ASSUME PageInv, NEW p \in Posts, Import(p)
    PROVE  PageInv'
<1>1. /\ born' = [born EXCEPT ![p] = clock] /\ readable' = readable \cup {p}
      /\ UNCHANGED <<mentioned, support, since>>
      /\ edits < MaxEdits /\ edits' = edits + 1 /\ Write(clock)
  BY DEF Import, Edit
<1>2. clock' = clock /\ terms' = terms
  BY <1>1 DEF Write
<1>3. GraphOK
  BY DEF PageInv
<1>4. edits' \in 0 .. MaxEdits /\ clock \in 0 .. LastInstant + 1
  BY <1>1, <1>3, PageNumbers DEF GraphOK
<1>5. \A q \in Posts : born'[q] = IF q = p THEN clock ELSE born[q]
  BY <1>1, <1>3 DEF GraphOK
<1>6. born' \in [Posts -> 0 .. LastInstant + 1]
  BY <1>1, <1>3, <1>4 DEF GraphOK
<1>7. \A q \in Posts : born'[q] <= clock \/ born'[q] = LastInstant + 1
  BY <1>3, <1>4, <1>5, PageNumbers DEF GraphOK
<1>8. GraphOK'
  BY <1>1, <1>2, <1>3, <1>4, <1>6, <1>7 DEF GraphOK
<1> QED
  BY <1>1, <1>8, WriteStep

LEMMA RegrantKeeps ==
    ASSUME PageInv, NEW p \in Posts, Regrant(p)
    PROVE  PageInv'
<1>1. /\ readable' = (IF p \in readable THEN readable \ {p} ELSE readable \cup {p})
      /\ UNCHANGED <<born, mentioned, support, since>>
      /\ edits < MaxEdits /\ edits' = edits + 1 /\ Write(born[p])
  BY DEF Regrant, Edit
<1>2. clock' = clock /\ terms' = terms
  BY <1>1 DEF Write
<1>3. GraphOK
  BY DEF PageInv
<1>4. edits' \in 0 .. MaxEdits
  BY <1>1, <1>3, PageNumbers DEF GraphOK
<1>5. GraphOK'
  BY <1>1, <1>2, <1>3, <1>4 DEF GraphOK
<1> QED
  BY <1>1, <1>5, WriteStep

LEMMA ExtractKeeps ==
    ASSUME PageInv, NEW p \in Posts, Extract(p)
    PROVE  PageInv'
<1>1. PICK persons \in SUBSET Persons :
      /\ mentioned' = {f \in mentioned : f.to # p} \cup
                         {[kind |-> "mention", from |-> q, to |-> p] : q \in persons}
      /\ UNCHANGED <<born, readable, support, since>>
      /\ edits < MaxEdits /\ edits' = edits + 1 /\ Write(born[p])
  BY DEF Extract, Edit
<1>2. clock' = clock /\ terms' = terms
  BY <1>1 DEF Write
<1>3. GraphOK
  BY DEF PageInv
<1>4. edits' \in 0 .. MaxEdits
  BY <1>1, <1>3, PageNumbers DEF GraphOK
<1>5. mentioned' \subseteq Mentions
  BY <1>1, <1>3 DEF GraphOK, Mentions
<1>6. GraphOK'
  BY <1>1, <1>2, <1>3, <1>4, <1>5 DEF GraphOK
<1> QED
  BY <1>1, <1>6, WriteStep

LEMMA ProjectPostKeeps ==
    ASSUME PageInv, NEW p \in Posts, ProjectPost(p)
    PROVE  PageInv'
<1>1. /\ support' = {pair \in support : pair[2] # p} \cup {<<f, p>> : f \in {g \in Facts : Supports(g, p)}}
      /\ since' = [f \in Facts |-> IF \E x \in Posts : <<f, x>> \in support THEN since[f] ELSE clock]
      /\ UNCHANGED <<edits, born, readable, mentioned>> /\ Write(born[p])
  BY DEF ProjectPost
<1>2. clock' = clock /\ terms' = terms
  BY <1>1 DEF Write
<1>3. GraphOK
  BY DEF PageInv
<1>4. support' \subseteq Facts \X Posts
  BY <1>1, <1>3 DEF GraphOK
<1>5. since' \in [Facts -> 0 .. LastInstant]
  BY <1>1, <1>3 DEF GraphOK
<1>6. GraphOK'
  BY <1>1, <1>2, <1>3, <1>4, <1>5 DEF GraphOK
<1> QED
  BY <1>1, <1>6, WriteStep

\* Nothing becomes visible by the passing of time.
LEMMA TickKeeps ==
    ASSUME PageInv, Tick
    PROVE  PageInv'
<1>1. /\ clock < LastInstant /\ clock' = clock + 1
      /\ UNCHANGED <<edits, born, readable, mentioned, support, since, terms, request, page, chain>>
  BY DEF Tick
<1>2. GraphOK /\ clock \in Nat /\ clock \in 0 .. LastInstant
  BY LimitIsNat DEF PageInv, GraphOK
<1>3. \A q \in Posts : born[q] \in 0 .. LastInstant + 1 /\ (born[q] <= clock \/ born[q] = LastInstant + 1)
  BY <1>2 DEF GraphOK
<1>4. \A q \in Posts : born[q] <= clock + 1 => born[q] <= clock
  BY <1>1, <1>2, <1>3, PageNumbers
<1>5. \A q \in Posts : born[q] <= clock + 1 \/ born[q] = LastInstant + 1
  BY <1>1, <1>2, <1>3, PageNumbers
<1>6. clock + 1 \in 0 .. LastInstant
  BY <1>1, <1>2, PageNumbers
<1>7. GraphOK'
  BY <1>1, <1>2, <1>5, <1>6 DEF GraphOK
<1>8. Visible' \subseteq Visible
  <2> SUFFICES ASSUME NEW n \in Nodes, Grounds(n, clock)' # {} PROVE n \in Visible
    BY DEF Visible
  <2>1. PICK q : q \in Grounds(n, clock)'
    OBVIOUS
  <2>2. q \in readable /\ q \in Posts /\ born[q] <= clock + 1
    BY <1>1, <1>2, <2>1 DEF Grounds, Existing, GraphOK
  <2>3. born[q] <= clock
    BY <1>4, <2>2
  <2>4. q \in Grounds(n, clock)
    BY <1>1, <2>1, <2>2, <2>3 DEF Grounds, Existing, MentionedIn
  <2> QED
    BY <2>4 DEF Visible
<1>9. RequestOK(request, clock, chain.visible)'
  <2>1. request \in Requests /\ RequestOK(request, clock, chain.visible)
    BY DEF PageInv, RequestOK
  <2>2. request.cursor.snapshot \in Nat /\ request.snapshot \in Nat
    BY <2>1, PageNumbers DEF Requests, Cursors
  <2>3. RequestOK(request, clock + 1, chain.visible)
    BY <1>2, <2>1, <2>2 DEF RequestOK
  <2> QED
    BY <1>1, <2>3
<1>10. PageOK(page, clock, terms.nodes)'
  <2>1. PageOK(page, clock, terms.nodes)
    BY DEF PageInv
  <2>2. page.cursor.snapshot \in Nat
    BY <2>1, PageNumbers DEF PageOK, Cursors
  <2>3. PageOK(page, clock + 1, terms.nodes)
    BY <1>2, <2>1, <2>2 DEF PageOK
  <2> QED
    BY <1>1, <2>3
<1> QED
  BY <1>1, <1>7, <1>8, <1>9, <1>10 DEF PageInv

LEMMA PagesStay ==
    ASSUME PageInv, [PagesNext]_pageVars
    PROVE  PageInv' /\ (Answered => page'.nodes \cup page'.evidence \subseteq chain.visible)
<1>1. CASE UNCHANGED pageVars
  <2>1. Visible' = Visible
    BY <1>1 DEF pageVars, Visible, Grounds, Existing, MentionedIn
  <2>2. ~Answered
    BY <1>1 DEF Answered, pageVars
  <2>3. GraphOK'
    BY <1>1 DEF PageInv, GraphOK, pageVars
  <2>4. PageInv'
    BY <1>1, <2>1, <2>3 DEF PageInv, pageVars
  <2> QED
    BY <2>2, <2>4
<1>2. CASE BeginRequest \/ ReadFocus \/ LoadFirst \/ Widen \/ Reload \/ ReadPage \/ ReadEnds \/ ReadParents
  <2>1. PageInv'
    BY <1>2, BeginRequestStep, ReadFocusStep, LoadFirstStep, WidenStep, ReloadStep, ReadPageStep,
       ReadEndsStep, ReadParentsStep
  <2>2. request.pc # "answer"
    BY <1>2 DEF BeginRequest, ReadFocus, LoadFirst, Widen, Reload, ReadPage, ReadEnds, ReadParents
  <2> QED
    BY <2>1, <2>2 DEF Answered
<1>3. CASE Answer
  BY <1>3, AnswerStep DEF Answered
<1>4. CASE Tick
  <2>1. request' = request
    BY <1>4 DEF Tick
  <2> QED
    BY <1>4, <2>1, TickKeeps DEF Answered
<1>5. ASSUME NEW p \in Posts, Import(p) \/ Regrant(p) \/ Extract(p) \/ ProjectPost(p)
      PROVE  PageInv' /\ ~Answered
  <2>1. PageInv'
    BY <1>5, ImportKeeps, RegrantKeeps, ExtractKeeps, ProjectPostKeeps
  <2>2. request' = request
    BY <1>5 DEF Import, Regrant, Extract, ProjectPost, Edit, Write
  <2> QED
    BY <2>1, <2>2 DEF Answered
<1> QED
  BY <1>1, <1>2, <1>3, <1>4, <1>5 DEF PagesNext, PagesStep, PagesWrite

LEMMA PageInvTypes == PageInv => PagesTypeOK
<1> SUFFICES ASSUME PageInv PROVE PagesTypeOK
  OBVIOUS
<1>1. /\ clock \in 0 .. LastInstant /\ edits \in 0 .. MaxEdits
      /\ born \in [Posts -> 0 .. LastInstant + 1] /\ readable \subseteq Posts
      /\ mentioned \subseteq Mentions /\ support \subseteq Facts \X Posts
      /\ since \in [Facts -> 0 .. LastInstant]
      /\ terms \in [focus : Focuses, sealed : BOOLEAN, allowed : Filters, nodes : NodeLimits]
  BY DEF PageInv, GraphOK
<1>2. /\ request.pc \in Stages /\ request.cursor \in Cursors /\ request.round \in 0 .. MaxDepth
      /\ request.posts \subseteq Posts /\ FactsOf(request.rows) = DOMAIN request.keys
  BY DEF PageInv, RequestOK, Requests
<1>3. /\ page.edges \subseteq Shown /\ EndsOf(page.edges) \subseteq page.nodes
      /\ Cardinality(page.edges) <= MaxEdges /\ Cardinality(page.nodes) <= terms.nodes
      /\ page.cursor \in Cursors /\ (page.cursor # NoCursor => page.truncated)
  BY DEF PageInv, PageOK
<1> QED
  BY <1>1, <1>2, <1>3 DEF PagesTypeOK

\* Whatever is written, imported or hidden while its dozen statements run, a page is bounded,
\* its edges hang on the nodes it shows, a cursor is there only if it is truncated,
\* and every node and every piece of evidence on it was visible at some moment of its request.
THEOREM PagesSound == PagesSpec => []PagesTypeOK /\ ShownWasVisible
<1>1. PageInv /\ [PagesNext]_pageVars => PageInv'
  BY PagesStay
<1>2. PageInv /\ [PagesNext]_pageVars =>
          [Answered => page'.nodes \cup page'.evidence \subseteq chain.visible]_pageVars
  BY PagesStay
<1>3. PagesSpec => []PageInv
  BY <1>1, PagesStart, PTL DEF PagesSpec
<1>4. PagesSpec => ShownWasVisible
  BY <1>2, <1>3, PTL DEF PagesSpec, ShownWasVisible
<1> QED
  BY <1>3, <1>4, PageInvTypes, PTL

-----------------------------------------------------------------------------
(* Lineage for consumers outside. *)

InquiryFields == {"pc", "left", "judged", "inferred", "result"}

\* What was checked before anything was scored.
Checked ==
    /\ Parses(demand.payload) /\ ParentsAreSound
    /\ Cardinality(PairsToJudge) <= Policy.budget

\* An inferred edge leads from a candidate to a record that has been scored.
InferredFor(e, x, y) ==
    /\ x \in Unobserved \ inquiry.left /\ y \in CandidatesFor(x)
    /\ e = [parent |-> y.ref, child |-> x.ref, truth |-> "inferred"]

ExternalInv ==
    /\ demand \in [payload : Payloads, estimate : Estimates, client : BOOLEAN]
    /\ InquiryFields \subseteq DOMAIN inquiry
    /\ inquiry.pc \in {"sent", "inferring", "refused", "answered"}
    /\ inquiry.pc \in {"inferring", "answered"} => Checked
    /\ inquiry.left \subseteq Unobserved
    /\ inquiry.pc = "sent" => inquiry.inferred = {}
    /\ inquiry.judged \subseteq PairsToJudge
    /\ inquiry.judged # {} => Checked /\ Status = "completed"
    /\ \A e \in inquiry.inferred : \E x, y \in Rows : InferredFor(e, x, y)
    /\ \A e, f \in inquiry.inferred : e.child = f.child => e = f
    /\ inquiry.result = IF inquiry.pc = "answered" THEN Result ELSE NoResult

\* Records are few, and so are their pairs.
LEMMA RowsAreFew ==
    ASSUME demand \in [payload : Payloads, estimate : Estimates, client : BOOLEAN]
    PROVE  IsFiniteSet(Rows) /\ Rows \subseteq Records
<1> DEFINE records == demand.payload.records
<1>1. records \in Seq(Records)
  BY ExternalPayloads
<1>2. Len(records) \in Nat /\ DOMAIN records = 1 .. Len(records) /\ IsFiniteSet(DOMAIN records)
  BY <1>1, FS_Interval
<1>3. IsFiniteSet({records[i] : i \in DOMAIN records})
  <2> HIDE DEF records
  <2> DEFINE f == [i \in DOMAIN records |-> records[i]]
             image == {records[i] : i \in DOMAIN records}
  <2>1. f \in Surjection(DOMAIN records, image)
    BY DEF Surjection
  <2> HIDE DEF f
  <2> QED
    BY <1>2, <2>1, FS_Surjection
<1>4. \A i \in DOMAIN records : records[i] \in Records
  BY <1>1, <1>2
<1> QED
  BY <1>3, <1>4 DEF Rows

LEMMA PairsJudged ==
    \A pair : pair \in PairsToJudge <=> \E x \in Unobserved : \E y \in CandidatesFor(x) : pair = <<y, x>>
BY DEF PairsToJudge

LEMMA PairsAreFew ==
    ASSUME demand \in [payload : Payloads, estimate : Estimates, client : BOOLEAN]
    PROVE  PairsToJudge \subseteq Rows \X Rows /\ IsFiniteSet(PairsToJudge)
<1>1. PairsToJudge \subseteq Rows \X Rows
  <2> SUFFICES ASSUME NEW pair \in PairsToJudge PROVE pair \in Rows \X Rows
    OBVIOUS
  <2>1. PICK x \in Unobserved : \E y \in CandidatesFor(x) : pair = <<y, x>>
    BY PairsJudged
  <2> QED
    BY <2>1 DEF Unobserved, Included, CandidatesFor, InWindow
<1>2. IsFiniteSet(Rows \X Rows)
  BY RowsAreFew, FS_Product
<1> QED
  BY <1>1, <1>2, FS_Subset

\* A document does not change under analysis.
Constancies ==
    /\ Rows' = Rows /\ Included' = Included /\ Unobserved' = Unobserved
    /\ \A x : CandidatesFor(x)' = CandidatesFor(x)
    /\ PairsToJudge' = PairsToJudge /\ (Checked' <=> Checked) /\ Status' = Status
    /\ ObservedEdges' = ObservedEdges /\ ProjectGroups' = ProjectGroups /\ Limits' = Limits

LEMMA DocumentStays == ASSUME demand' = demand PROVE Constancies
<1>1. Rows' = Rows /\ Policy' = Policy
  BY DEF Rows, Policy
<1>2. Included' = Included
  BY <1>1 DEF Included, InTime
<1>3. Unobserved' = Unobserved
  BY <1>2 DEF Unobserved, Observed
<1>4. \A x : ObservedUnder(x)' = ObservedUnder(x)
  BY <1>2 DEF ObservedUnder, RefsOf
<1>5. \A x : IndexOf(x)' = IndexOf(x)
  BY <1>2 DEF IndexOf, Precedes
<1>6. \A x : CandidatesFor(x)' = CandidatesFor(x)
  BY <1>1, <1>2, <1>4, <1>5 DEF CandidatesFor, InWindow, Precedes
<1>7. PairsToJudge' = PairsToJudge
  BY <1>3, <1>6 DEF PairsToJudge
<1>8. ParentsAreSound' <=> ParentsAreSound
  BY <1>1 DEF ParentsAreSound, Observed, ParentOf
<1>9. Checked' <=> Checked
  BY <1>1, <1>7, <1>8 DEF Checked
<1>10. Status' = Status
  BY <1>1 DEF Status
<1>11. ObservedEdges' = ObservedEdges /\ ProjectGroups' = ProjectGroups
  BY <1>2 DEF ObservedEdges, ProjectGroups, Observed, RefsOf
<1>12. MightFollow' = MightFollow
  BY <1>3, <1>5 DEF MightFollow
<1>13. Limits' = Limits
  BY <1>1, <1>2, <1>12 DEF Limits, Excluded, Observed, RefsOf
<1> QED
  BY <1>1, <1>2, <1>3, <1>6, <1>7, <1>9, <1>10, <1>11, <1>13 DEF Constancies

LEMMA ExternalInvInit == ExternalInit => ExternalInv
BY DEF ExternalInit, NotStarted, ExternalInv, InquiryFields

\* A refusal keeps what was shown to the model, and nothing else.
LEMMA RefusalKeeps ==
    ASSUME ExternalInv, NEW judged, Continues([NotStarted EXCEPT !.pc = "refused", !.judged = judged]),
           judged \subseteq PairsToJudge, judged # {} => Checked /\ Status = "completed"
    PROVE  ExternalInv'
<1>1. demand' = demand /\ Constancies
  BY DocumentStays DEF Continues
<1>2. /\ InquiryFields \subseteq DOMAIN inquiry' /\ inquiry'.pc = "refused" /\ inquiry'.left = {}
      /\ inquiry'.judged = judged /\ inquiry'.inferred = {} /\ inquiry'.result = NoResult
  BY DEF Continues, NotStarted, InquiryFields
<1> QED
  BY <1>1, <1>2 DEF ExternalInv, Constancies

LEMMA BeginSound == ASSUME ExternalInv, Begin PROVE ExternalInv'
<1>1. CASE Refuse
  BY <1>1, RefusalKeeps DEF Refuse, ExternalInv
<1>2. CASE ~Refuse
  <2>1. /\ Checked
        /\ Continues([inquiry EXCEPT !.pc = "inferring",
               !.left = IF demand.estimate = "none" THEN {} ELSE Unobserved])
    <3>1. Cardinality(PairsToJudge) \in Nat
      BY PairsAreFew, FS_CardinalityType DEF ExternalInv
    <3>2. Parses(demand.payload) => Policy.budget \in Int
      BY ExternalBounds DEF Parses, Policy
    <3> QED
      BY <1>2, <3>1, <3>2 DEF Begin, Checked
  <2>2. PICK left : left = IF demand.estimate = "none" THEN {} ELSE Unobserved
    OBVIOUS
  <2>3. demand' = demand /\ Constancies /\ left \subseteq Unobserved
    BY <2>1, <2>2, DocumentStays DEF Continues
  <2>4. inquiry' = [inquiry EXCEPT !.pc = "inferring", !.left = left]
    BY <2>1, <2>2 DEF Continues
  <2>5. /\ InquiryFields \subseteq DOMAIN inquiry' /\ inquiry'.pc = "inferring" /\ inquiry'.left = left
        /\ inquiry'.judged = inquiry.judged /\ inquiry'.inferred = inquiry.inferred
        /\ inquiry'.result = inquiry.result
    BY <2>4 DEF ExternalInv, InquiryFields
  <2>6. inquiry.inferred = {}
    BY DEF ExternalInv, Begin
  <2> QED
    BY <2>1, <2>3, <2>5, <2>6 DEF ExternalInv, Constancies, Begin
<1> QED
  BY <1>1, <1>2

\* A record is scored and leaves the list; it may follow one of its candidates.
LEMMA InferSound == ASSUME ExternalInv, Infer PROVE ExternalInv'
<1>0. PICK x \in inquiry.left : \E chosen \in {{}} \cup {{y} : y \in CandidatesFor(x)} :
          /\ inquiry.pc = "inferring"
          /\ Continues([inquiry EXCEPT
                 !.left = @ \ {x},
                 !.judged = IF Status = "completed" THEN @ \cup {<<y, x>> : y \in CandidatesFor(x)}
                            ELSE @,
                 !.inferred = @ \cup {[parent |-> y.ref, child |-> x.ref, truth |-> "inferred"] :
                                         y \in chosen}])
  BY DEF Infer
<1>1. PICK chosen \in {{}} \cup {{y} : y \in CandidatesFor(x)} :
          /\ inquiry.pc = "inferring"
          /\ Continues([inquiry EXCEPT
                 !.left = @ \ {x},
                 !.judged = IF Status = "completed" THEN @ \cup {<<y, x>> : y \in CandidatesFor(x)}
                            ELSE @,
                 !.inferred = @ \cup {[parent |-> y.ref, child |-> x.ref, truth |-> "inferred"] :
                                         y \in chosen}])
  BY <1>0
<1> DEFINE pairs == {<<y, x>> : y \in CandidatesFor(x)}
           new == {[parent |-> y.ref, child |-> x.ref, truth |-> "inferred"] : y \in chosen}
<1>2. demand' = demand /\ Constancies
  BY <1>1, DocumentStays DEF Continues
<1>3. PICK judged, inferred :
          /\ judged = IF Status = "completed" THEN inquiry.judged \cup pairs ELSE inquiry.judged
          /\ inferred = inquiry.inferred \cup new
          /\ inquiry' = [inquiry EXCEPT !.left = inquiry.left \ {x}, !.judged = judged, !.inferred = inferred]
  BY <1>1 DEF Continues, ExternalInv, InquiryFields
<1>4. /\ InquiryFields \subseteq DOMAIN inquiry' /\ inquiry'.pc = "inferring"
      /\ inquiry'.left = inquiry.left \ {x} /\ inquiry'.judged = judged
      /\ inquiry'.inferred = inferred /\ inquiry'.result = inquiry.result
  BY <1>1, <1>3 DEF ExternalInv, InquiryFields
<1>5. Checked /\ x \in Unobserved /\ inquiry.left \subseteq Unobserved
  BY <1>1 DEF ExternalInv
<1>6. pairs \subseteq PairsToJudge
  BY <1>5, PairsJudged
<1>7. judged \subseteq PairsToJudge /\ (judged # {} => Checked /\ Status = "completed")
  BY <1>3, <1>5, <1>6 DEF ExternalInv
<1>8. ASSUME NEW e \in new PROVE \E y \in CandidatesFor(x) : /\ InferredFor(e, x, y)'
                                                           /\ new = {e} /\ e.child = x.ref
  BY <1>1, <1>2, <1>4, <1>5 DEF InferredFor, Constancies
<1>9. \A e \in inquiry.inferred, u, y \in Rows : InferredFor(e, u, y) => InferredFor(e, u, y)' /\ u # x /\ e.child = u.ref
  BY <1>1, <1>2, <1>4 DEF InferredFor, Constancies
<1>10. x \in Rows /\ CandidatesFor(x) \subseteq Rows
  BY <1>5 DEF Unobserved, Included, CandidatesFor, InWindow
<1>11. \A e \in inferred : \E u, y \in Rows : InferredFor(e, u, y)'
  <2> HIDE DEF new
  <2> QED
    BY <1>3, <1>8, <1>9, <1>10 DEF ExternalInv
<1>12. \A u \in Rows : u.ref = x.ref => u = x
  BY <1>5, <1>10 DEF Checked, Parses, Unrepeated, Rows
<1>13. \A e, f \in inferred : e.child = f.child => e = f
  <2> HIDE DEF new
  <2>1. \A e \in inquiry.inferred : e.child # x.ref
    BY <1>9, <1>12 DEF ExternalInv
  <2>2. \A e \in new : new = {e} /\ e.child = x.ref
    BY <1>8
  <2> QED
    BY <1>3, <2>1, <2>2 DEF ExternalInv
<1> HIDE DEF new, pairs
<1> QED
  BY <1>1, <1>2, <1>4, <1>5, <1>7, <1>11, <1>13 DEF ExternalInv, Constancies

LEMMA FailureSound == ASSUME ExternalInv, ModelFails PROVE ExternalInv'
<1>1. PICK x \in inquiry.left : \E shown \in SUBSET CandidatesFor(x) :
          /\ inquiry.pc = "inferring" /\ Status = "completed"
          /\ Continues([NotStarted EXCEPT !.pc = "refused",
                            !.judged = inquiry.judged \cup {<<y, x>> : y \in shown}])
  BY DEF ModelFails
<1> PICK shown \in SUBSET CandidatesFor(x) :
        Continues([NotStarted EXCEPT !.pc = "refused",
                      !.judged = inquiry.judged \cup {<<y, x>> : y \in shown}])
  BY <1>1
<1>2. Checked /\ x \in Unobserved
  BY <1>1 DEF ExternalInv
<1>3. inquiry.judged \cup {<<y, x>> : y \in shown} \subseteq PairsToJudge
  BY <1>2, PairsJudged DEF ExternalInv
<1> QED
  BY <1>1, <1>2, <1>3, RefusalKeeps

\* What a document that was checked says of its records.
LEMMA CheckedRecords ==
    ASSUME Checked, demand \in [payload : Payloads, estimate : Estimates, client : BOOLEAN]
    PROVE  /\ \A x, y \in Rows : x.ref = y.ref => x = y
           /\ \A x \in Rows : x.parent # NoRef =>
                 x.parent # x.ref /\ \E y \in Rows : y.ref = x.parent /\ x.group = y.group /\ y.at <= x.at
           /\ \A x, y \in Rows : ~(x.parent = y.ref /\ y.parent = x.ref)
           /\ NoRef \notin RefsOf(Rows)
<1>1. \A x \in Rows : x \in Records /\ x.ref # NoRef
  BY RowsAreFew, ExternalPayloads DEF Records
<1>2. \A x, y \in Rows : x.ref = y.ref => x = y
  BY DEF Checked, Parses, Unrepeated, Rows
<1>3. \A x \in Rows : x.parent # NoRef =>
          x.parent # x.ref /\ \E y \in Rows : y.ref = x.parent /\ x.group = y.group /\ y.at <= x.at
  BY DEF Checked, ParentsAreSound, Observed, ParentOf
<1>4. ASSUME NEW x \in Rows, NEW y \in Rows, x.parent = y.ref, y.parent = x.ref PROVE FALSE
  <2>1. {x, y} \in SUBSET Observed(Rows) /\ {x, y} # {}
    BY <1>1, <1>4 DEF Observed
  <2>2. PICK child \in {x, y} : ParentOf(child) \cap {x, y} = {}
    BY <2>1 DEF Checked, ParentsAreSound
  <2>3. y \in ParentOf(x) /\ x \in ParentOf(y)
    BY <1>4 DEF ParentOf
  <2> QED
    BY <2>2, <2>3
<1> QED
  BY <1>1, <1>2, <1>3, <1>4 DEF RefsOf

\* A candidate of a record comes before it.
LEMMA CandidatePrecedes ==
    ASSUME NEW x \in Rows, NEW y \in CandidatesFor(x),
           demand \in [payload : Payloads, estimate : Estimates, client : BOOLEAN]
    PROVE  y \in Included /\ y.group = x.group /\ y.at <= x.at /\ y # x
<1>1. y \in Included /\ Precedes(y, x) /\ y \in Records /\ x \in Records
  BY RowsAreFew DEF CandidatesFor, InWindow, Included
<1>2. x.at \in Int /\ y.at \in Int /\ x.ref \in Int /\ y.ref \in Int
  BY <1>1, ExternalBounds DEF Records
<1>3. y.group = x.group /\ (y.at < x.at \/ (y.at = x.at /\ y.ref < x.ref))
  BY <1>1 DEF Precedes
<1>4. y.at <= x.at /\ y # x
  BY <1>2, <1>3
<1> QED
  BY <1>1, <1>3, <1>4

\* Every edge of a result is inferred or observed.
LEMMA ResultEdges ==
    ASSUME ExternalInv, Checked, NEW e \in Result.edges
    PROVE  \E x, y \in Included :
              /\ e.parent = y.ref /\ e.child = x.ref /\ x # y /\ x.group = y.group /\ y.at <= x.at
              /\ \/ e \in inquiry.inferred /\ e.truth = "inferred" /\ x.parent = NoRef /\ y.parent # x.ref
                 \/ e = [parent |-> y.ref, child |-> x.ref, truth |-> "observed"] /\ x.parent = y.ref
<1>0. demand \in [payload : Payloads, estimate : Estimates, client : BOOLEAN]
  BY DEF ExternalInv
<1>1. CASE e \in inquiry.inferred
  <2>1. PICK x, y \in Rows : InferredFor(e, x, y)
    BY <1>1 DEF ExternalInv
  <2>2. x \in Included /\ x.parent = NoRef /\ y \in CandidatesFor(x)
        /\ e.parent = y.ref /\ e.child = x.ref /\ e.truth = "inferred"
    BY <2>1 DEF InferredFor, Unobserved, Observed
  <2>3. y \in Included /\ y.group = x.group /\ y.at <= x.at /\ y # x
    BY <1>0, <2>2, CandidatePrecedes
  <2>4. y.parent # x.ref
    BY <2>2, <2>3 DEF CandidatesFor, ObservedUnder
  <2> QED
    BY <1>1, <2>2, <2>3, <2>4
<1>2. CASE e \in ObservedEdges
  <2>1. PICK x \in Included : /\ x.parent # NoRef /\ x.parent \in RefsOf(Included)
                              /\ e = [parent |-> x.parent, child |-> x.ref, truth |-> "observed"]
    BY <1>2 DEF ObservedEdges, Observed
  <2>2. PICK y \in Included : y.ref = x.parent
    BY <2>1 DEF RefsOf
  <2>3. x \in Rows /\ y \in Rows
    BY DEF Included
  <2>4. x # y /\ x.group = y.group /\ y.at <= x.at
    BY <1>0, <2>1, <2>2, <2>3, CheckedRecords
  <2> QED
    BY <2>1, <2>2, <2>4
<1> QED
  BY <1>1, <1>2 DEF Result

LEMMA ResultMeetsContract ==
    ASSUME ExternalInv, Checked
    PROVE  MeetsContract(Result)
<1>0. demand \in [payload : Payloads, estimate : Estimates, client : BOOLEAN]
  BY DEF ExternalInv
<1>1. Included \subseteq Rows
  BY DEF Included
<1>2. RefsOf(Included) \cap RefsOf(Excluded) = {}
  BY <1>0, <1>1, CheckedRecords DEF RefsOf, Excluded
<1>3. \A e \in Result.edges : e.parent # e.child /\ {e.parent, e.child} \subseteq RefsOf(Included)
  BY <1>0, <1>1, ResultEdges, CheckedRecords DEF RefsOf
<1>4. \A p \in ProjectGroups : p.refs \subseteq RefsOf(Included)
  BY DEF ProjectGroups, RefsOf
<1> QED
  BY <1>2, <1>3, <1>4 DEF MeetsContract, Result

LEMMA ConcludeSound == ASSUME ExternalInv, Conclude PROVE ExternalInv'
<1>1. Checked
  BY DEF Conclude, ExternalInv
<1>2. inquiry' = [inquiry EXCEPT !.pc = "answered", !.result = Result] /\ demand' = demand
  BY <1>1, ResultMeetsContract DEF Conclude, Continues
<1>3. Constancies
  BY <1>2, DocumentStays
<1>4. /\ InquiryFields \subseteq DOMAIN inquiry' /\ inquiry'.pc = "answered"
      /\ inquiry'.left = inquiry.left /\ inquiry'.judged = inquiry.judged
      /\ inquiry'.inferred = inquiry.inferred /\ inquiry'.result = Result
  BY <1>2 DEF ExternalInv, InquiryFields
<1>5. Result' = Result
  BY <1>3, <1>4 DEF Constancies, Result, RefsOf, Excluded
<1>6. \A e, x, y : InferredFor(e, x, y) => InferredFor(e, x, y)'
  BY <1>3, <1>4 DEF Constancies, InferredFor
<1> QED
  BY <1>1, <1>2, <1>3, <1>4, <1>5, <1>6 DEF ExternalInv, Constancies

LEMMA ExternalInvStep == ExternalInv /\ [ExternalNext]_externalVars => ExternalInv'
<1> SUFFICES ASSUME ExternalInv, [ExternalNext]_externalVars PROVE ExternalInv'
  OBVIOUS
<1>1. CASE UNCHANGED externalVars
  <2>1. demand' = demand /\ inquiry' = inquiry
    BY <1>1 DEF externalVars
  <2>2. Constancies
    BY <2>1, DocumentStays
  <2>3. Result' = Result /\ \A e, x, y : InferredFor(e, x, y) => InferredFor(e, x, y)'
    BY <2>1, <2>2 DEF Constancies, InferredFor, Result, RefsOf, Excluded
  <2> QED
    BY <2>1, <2>2, <2>3 DEF ExternalInv, Constancies
<1> QED
  BY <1>1, BeginSound, InferSound, FailureSound, ConcludeSound DEF ExternalNext

LEMMA DisclosureFollows == ExternalInv => DisclosureIsBounded
<1> SUFFICES ASSUME ExternalInv PROVE DisclosureIsBounded
  OBVIOUS
<1>0. demand \in [payload : Payloads, estimate : Estimates, client : BOOLEAN]
  BY DEF ExternalInv
<1>1. ASSUME inquiry.judged # {}
      PROVE  Policy.llm /\ demand.client /\ Cardinality(inquiry.judged) <= Policy.budget
  <2>1. Status = "completed" /\ Cardinality(PairsToJudge) <= Policy.budget /\ Policy.budget \in Int
    BY <1>1, ExternalBounds DEF ExternalInv, Checked, Parses, Policy
  <2>2. Policy.llm /\ demand.client
    BY <2>1 DEF Status
  <2>3. IsFiniteSet(PairsToJudge) /\ inquiry.judged \in SUBSET PairsToJudge
    BY <1>0, PairsAreFew DEF ExternalInv
  <2>4. Cardinality(inquiry.judged) <= Cardinality(PairsToJudge) /\ IsFiniteSet(inquiry.judged)
    BY <2>3, FS_Subset
  <2>5. Cardinality(inquiry.judged) \in Nat /\ Cardinality(PairsToJudge) \in Nat
    BY <2>3, <2>4, FS_CardinalityType
  <2> QED
    BY <2>1, <2>2, <2>4, <2>5
<1>2. ASSUME NEW pair \in inquiry.judged
      PROVE  /\ pair[2].parent = NoRef /\ pair[1].group = pair[2].group /\ pair[1] # pair[2]
             /\ InTime(pair[1]) /\ InTime(pair[2])
  <2>1. PICK x \in Unobserved : \E u \in CandidatesFor(x) : pair = <<u, x>>
    BY PairsJudged DEF ExternalInv
  <2> PICK y \in CandidatesFor(x) : pair = <<y, x>>
    BY <2>1
  <2>2. x \in Included /\ x.parent = NoRef /\ x \in Rows
    BY DEF Unobserved, Observed, Included
  <2>3. y \in Included /\ y.group = x.group /\ y # x
    BY <1>0, <2>2, CandidatePrecedes
  <2> QED
    BY <2>1, <2>2, <2>3 DEF Included
<1> QED
  BY <1>1, <1>2 DEF DisclosureIsBounded, InTime

LEMMA AnswerFollows == ExternalInv => AnswerIsSound
<1> SUFFICES ASSUME ExternalInv, inquiry.pc = "answered" PROVE AnswerIsSound
  BY DEF ExternalInv, AnswerIsSound
<1>0. /\ demand \in [payload : Payloads, estimate : Estimates, client : BOOLEAN]
      /\ Checked /\ inquiry.result = Result /\ Included \subseteq Rows
  BY DEF ExternalInv, Included
<1>6. \A x, y \in Included \cup Rows : x.ref = y.ref => x = y
  BY <1>0, CheckedRecords
<1>1. ASSUME NEW e \in Result.edges, NEW f \in Result.edges, e.child = f.child PROVE e = f
  <2>1. PICK x, y \in Included :
            /\ e.parent = y.ref /\ e.child = x.ref
            /\ \/ e \in inquiry.inferred /\ x.parent = NoRef
               \/ e = [parent |-> y.ref, child |-> x.ref, truth |-> "observed"] /\ x.parent = y.ref
    BY <1>0, ResultEdges
  <2>2. PICK u, v \in Included :
            /\ f.parent = v.ref /\ f.child = u.ref
            /\ \/ f \in inquiry.inferred /\ u.parent = NoRef
               \/ f = [parent |-> v.ref, child |-> u.ref, truth |-> "observed"] /\ u.parent = v.ref
    BY <1>0, ResultEdges
  <2>3. u = x
    BY <1>6, <1>1, <2>1, <2>2
  <2>4. y.ref # NoRef /\ v.ref # NoRef
    BY <1>0, CheckedRecords DEF RefsOf
  <2> QED
    BY <1>1, <2>1, <2>2, <2>3, <2>4 DEF ExternalInv
<1>2. ASSUME NEW x \in Rows, NEW y \in Rows, NEW e \in Result.edges, e.parent = x.ref, e.child = y.ref
      PROVE  /\ x \in Included /\ y \in Included /\ x.group = y.group /\ x.at <= y.at
             /\ y.parent # NoRef => e.truth = "observed" /\ y.parent = x.ref
             /\ [parent |-> y.ref, child |-> x.ref, truth |-> "observed"] \notin Result.edges
  <2>1. PICK u, v \in Included :
            /\ e.parent = v.ref /\ e.child = u.ref /\ u.group = v.group /\ v.at <= u.at
            /\ \/ e \in inquiry.inferred /\ u.parent = NoRef /\ v.parent # u.ref
               \/ e = [parent |-> v.ref, child |-> u.ref, truth |-> "observed"] /\ u.parent = v.ref
    BY <1>0, ResultEdges
  <2>2. u = y /\ v = x
    BY <1>6, <1>2, <2>1
  <2>3. ASSUME [parent |-> y.ref, child |-> x.ref, truth |-> "observed"] \in Result.edges PROVE FALSE
    <3> DEFINE back == [parent |-> y.ref, child |-> x.ref, truth |-> "observed"]
    <3>1. back.parent = y.ref /\ back.child = x.ref /\ back.truth = "observed"
      OBVIOUS
    <3> HIDE DEF back
    <3>2. PICK p, q \in Included :
              /\ back.parent = q.ref /\ back.child = p.ref
              /\ back.truth = "inferred" \/ p.parent = q.ref
      BY <1>0, <2>3, ResultEdges DEF back
    <3>3. p = x /\ q = y
      BY <1>6, <3>1, <3>2
    <3>4. x.parent = y.ref
      BY <3>1, <3>2, <3>3
    <3> QED
      BY <1>0, <2>1, <2>2, <3>4, CheckedRecords
  <2> QED
    BY <2>1, <2>2, <2>3
<1>3. ASSUME NEW x \in Rows, x.parent # NoRef, x.ref \in RefsOf(Included)
      PROVE  \/ \E e \in Result.edges : e.child = x.ref
             \/ <<"explicit_parent_after_cutoff", x.ref>> \in Limits
  <2>1. x \in Observed(Included)
    BY <1>0, <1>3, CheckedRecords DEF RefsOf, Observed
  <2>2. CASE x.parent \in RefsOf(Included)
    <3>1. [parent |-> x.parent, child |-> x.ref, truth |-> "observed"] \in Result.edges
      BY <2>1, <2>2 DEF ObservedEdges, Result
    <3> QED
      BY <3>1
  <2>3. CASE x.parent \notin RefsOf(Included)
    BY <2>1, <2>3 DEF Limits
  <2> QED
    BY <2>2, <2>3
<1>4. Result.included = RefsOf(Included) /\ Result.limits = Limits
  BY DEF Result
<1>5. \A x \in Included : InTime(x)
  BY DEF Included
<1> HIDE DEF Result
<1> QED
  BY <1>0, <1>1, <1>2, <1>3, <1>4, <1>5 DEF AnswerIsSound, InTime

\* Labels are disclosed to a model only as the caller allows, and an answer meets the contract and
\* neither reverses nor leaves out what the caller has observed: for every document and every
\* answer or failure of the model (analyze_external_lineage, parse_lineage_analysis_request).
THEOREM ExternalSound == ExternalSpec => [](ExternalTypeOK /\ DisclosureIsBounded /\ AnswerIsSound)
<1>1. ExternalInv => ExternalTypeOK
  <2> SUFFICES ASSUME ExternalInv PROVE ExternalTypeOK
    OBVIOUS
  <2>1. Unobserved \subseteq Rows /\ PairsToJudge \subseteq Rows \X Rows
    BY PairsAreFew DEF ExternalInv, Unobserved, Included
  <2> QED
    BY <2>1 DEF ExternalInv, ExternalTypeOK
<1> QED
  BY <1>1, DisclosureFollows, AnswerFollows, ExternalInvInit, ExternalInvStep, PTL DEF ExternalSpec

-----------------------------------------------------------------------------
(* The composition. *)

\* A behaviour of the composition is one of each component.
THEOREM ProjectionsImplementParts == ProjectionsSpec => LineageSpec /\ PagesSpec /\ ExternalSpec
<1>1. ProjectionsInit => LineageInit /\ PagesInit
  BY DEF ProjectionsInit
<1>2. ProjectionsInit => ExternalInit
  <2> SUFFICES ASSUME ProjectionsInit, part # "external" PROVE ExternalInit
    BY DEF ProjectionsInit
  <2>1. /\ inquiry = NotStarted
        /\ demand = [client |-> TRUE, estimate |-> "none", payload |-> CHOOSE p \in Payloads : TRUE]
    BY DEF ProjectionsInit
  <2>2. (CHOOSE p \in Payloads : TRUE) \in Payloads
    BY SomeDocument
  <2> QED
    BY <2>1, <2>2 DEF ExternalInit, Estimates
<1>3. ASSUME [ProjectionsNext]_<<part, lineageVars, pageVars, externalVars>>
      PROVE  [LineageNext]_lineageVars /\ [PagesNext]_pageVars /\ [ExternalNext]_externalVars
  <2>1. CASE RebuildsTurn
    BY <2>1 DEF RebuildsTurn, LineageNext
  <2>2. CASE ReadsTurn
    BY <2>2 DEF ReadsTurn, LineageNext
  <2>3. CASE PagesTurn
    BY <2>3 DEF PagesTurn
  <2>4. CASE ExternalTurn
    BY <2>4 DEF ExternalTurn
  <2>5. CASE UNCHANGED <<part, lineageVars, pageVars, externalVars>>
    BY <2>5
  <2> QED
    BY <1>3, <2>1, <2>2, <2>3, <2>4, <2>5 DEF ProjectionsNext
<1> QED
  BY <1>1, <1>2, <1>3, PTL DEF ProjectionsSpec, LineageSpec, PagesSpec, ExternalSpec

\* Every variable of the composition holds what its columns and its requests may hold.
THEOREM ProjectionsTyped == ProjectionsSpec => []ProjectionsTypeOK
<1>1. LineageTypeOK /\ PagesTypeOK /\ ExternalTypeOK => ProjectionsTypeOK
  BY DEF ProjectionsTypeOK
<1> QED
  BY <1>1, ProjectionsImplementParts, LineageSound, PagesSound, ExternalSound, PTL

\* Timelines are forests within the budget and the replies on them hang together.
THEOREM TimelinesSound == ProjectionsSpec => []TimelinesHangTogether
<1>1. ComputedIsForest /\ ShownHangsTogether => TimelinesHangTogether
  BY DEF TimelinesHangTogether
<1> QED
  BY <1>1, ProjectionsImplementParts, LineageSound, PTL

\* An analysis for another system discloses no more than its budget lets it and answers what
\* its document asks.
THEOREM ExternalAnswers == ProjectionsSpec => []ExternalIsSound
<1>1. DisclosureIsBounded /\ AnswerIsSound => ExternalIsSound
  BY DEF ExternalIsSound
<1> QED
  BY <1>1, ProjectionsImplementParts, ExternalSound, PTL
=============================================================================
