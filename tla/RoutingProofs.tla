--------------------------- MODULE RoutingProofs ---------------------------
(***************************************************************************)
(* Proofs about Routing.tla: what the balancing algorithms answer, that    *)
(* the host rules are obeyed and that round robin is fair, for any number  *)
(* of backends and connections, any rules, any ring and any costs.         *)
(***************************************************************************)
EXTENDS Routing, FiniteSetTheorems, NaturalsInduction, WellFoundedInduction, TLAPS

(***************************************************************************)
(* The list of available backends                                          *)
(***************************************************************************)
LEMMA SmallestNat ==
    ASSUME NEW T, T \subseteq Nat, T # {}
    PROVE  \E x \in T : \A y \in T : x <= y
<1>1. PICK x \in T : \A y \in T : ~(<<y, x>> \in OpToRel(<, Nat))
  BY NatLessThanWellFounded, WFMin
<1>2. \A y \in T : ~(y < x)
  BY <1>1 DEF OpToRel
<1> QED
  BY <1>2

LEMMA FiniteBackends ==
    ASSUME NEW n \in Nat, NEW T \in SUBSET (1..n)
    PROVE  IsFiniteSet(T) /\ Cardinality(T) \in Nat /\ Cardinality(T) <= n
<1>1. IsFiniteSet(1..n) /\ Cardinality(1..n) = n
  BY FS_Interval
<1>2. IsFiniteSet(T) /\ Cardinality(T) <= Cardinality(1..n)
  BY <1>1, FS_Subset
<1> QED
  BY <1>1, <1>2, FS_CardinalityType

\* A list of T without its largest member n becomes one of T with n at its end.
LEMMA ListGrows ==
    ASSUME NEW n \in Nat, n > 0, NEW T \in SUBSET (1..n), n \in T,
           NEW s, Lists(s, T \ {n})
    PROVE  \E t : Lists(t, T)
<1> DEFINE U == T \ {n}
           m == Cardinality(U)
           t == [i \in 1..m + 1 |-> IF i <= m THEN s[i] ELSE n]
<1>1. U \in SUBSET (1..n - 1)
  OBVIOUS
<1>2. m \in Nat /\ IsFiniteSet(U)
  BY <1>1, FiniteBackends, n - 1 \in Nat
<1>3. T = U \cup {n} /\ n \notin U
  OBVIOUS
<1>4. Cardinality(T) = m + 1
  BY <1>2, <1>3, FS_AddElement
<1>5. s \in [1..m -> U] /\ \A i, j \in 1..m : i < j => s[i] < s[j]
  BY DEF Lists
<1>9. \A b \in U : b < n
  OBVIOUS
<1> HIDE DEF m, U
<1>6. t \in [1..m + 1 -> T]
  BY <1>2, <1>3, <1>5
<1>7. ASSUME NEW i \in 1..m + 1, NEW j \in 1..m + 1, i < j
      PROVE  t[i] < t[j]
  <2>1. i \in 1..m /\ t[i] = s[i] /\ s[i] \in U
    BY <1>2, <1>5, <1>7
  <2>2. s[i] < n
    BY <2>1, <1>9
  <2>3. CASE j = m + 1
    BY <2>1, <2>2, <2>3, <1>2
  <2>4. CASE j # m + 1
    <3>1. j \in 1..m /\ t[j] = s[j]
      BY <2>4, <1>2
    <3> QED
      BY <2>1, <3>1, <1>5, <1>7
  <2> QED
    BY <2>3, <2>4
<1> HIDE DEF t
<1>8. Lists(t, T)
  BY <1>4, <1>6, <1>7 DEF Lists
<1> QED
  BY <1>8

LEMMA ListExists ==
    ASSUME NEW n \in Nat, NEW T \in SUBSET (1..n)
    PROVE  \E s : Lists(s, T)
<1> DEFINE Bad == {k \in Nat : \E S \in SUBSET (1..k) : ~\E s : Lists(s, S)}
<1>1. SUFFICES ASSUME Bad # {} PROVE FALSE
  OBVIOUS
<1>2. PICK k \in Bad : \A j \in Bad : k <= j
  BY <1>1, SmallestNat
<1>3. PICK S \in SUBSET (1..k) : ~\E s : Lists(s, S)
  OBVIOUS
<1>4. k \in Nat /\ (k > 0 => k - 1 \in Nat \ Bad)
  BY <1>2
<1>5. CASE k = 0
  <2>1. S = {}
    BY <1>5
  <2> HIDE DEF Bad
  <2>3. Cardinality(S) = 0
    BY <2>1, FS_EmptySet
  <2>2. Lists([i \in 1..0 |-> 0], S)
    BY <2>1, <2>3 DEF Lists
  <2> QED
    BY <2>2, <1>3
<1>6. CASE k > 0 /\ k \notin S
  <2>1. S \in SUBSET (1..k - 1)
    BY <1>4, <1>6
  <2> QED
    BY <2>1, <1>3, <1>4, <1>6
<1>7. CASE k > 0 /\ k \in S
  <2>1. S \ {k} \in SUBSET (1..k - 1)
    BY <1>4, <1>7
  <2>2. PICK s : Lists(s, S \ {k})
    BY <2>1, <1>4, <1>7
  <2> QED
    BY <2>2, <1>3, <1>4, <1>7, ListGrows
<1> QED
  BY <1>4, <1>5, <1>6, <1>7

\* A list of some backends holds each of them, once.
LEMMA ListFacts ==
    ASSUME NEW T \in SUBSET Backends, NEW s, Lists(s, T)
    PROVE  /\ s \in Seq(Backends) /\ Len(s) = Cardinality(T)
           /\ Len(s) \in 0..N /\ s \in [1..Len(s) -> Backends]
           /\ \A i \in 1..Len(s) : s[i] \in T
           /\ \A i, j \in 1..Len(s) : i < j => s[i] < s[j]
           /\ \A i, j \in 1..Len(s) : s[i] = s[j] => i = j
           /\ \A b \in T : \E i \in 1..Len(s) : s[i] = b
           /\ Len(s) = 0 <=> T = {}
           /\ Range(s) = T
<1> DEFINE m == Cardinality(T)
<1>1. m \in 0..N /\ IsFiniteSet(T) /\ (m = 0 <=> T = {})
  BY FiniteBackends, RoutingAssumption, FS_EmptySet DEF Backends
<1>2. s \in [1..m -> T] /\ \A i, j \in 1..m : i < j => s[i] < s[j]
  BY DEF Lists
<1>3. IsFiniteSet(1..m) /\ Cardinality(1..m) = m
  BY <1>1, FS_Interval
<1> HIDE DEF m
<1>11. \A b \in T : b \in Nat
  BY RoutingAssumption DEF Backends
<1>4. \A i \in 1..m : s[i] \in Nat
  BY <1>2, <1>11
<1>5. \A i, j \in 1..m : s[i] = s[j] => i = j
  BY <1>1, <1>2, <1>4
<1>6. s \in Injection(1..m, T)
  BY <1>2, <1>5 DEF Injection, IsInjective
<1>7. s \in Surjection(1..m, T)
  BY <1>1, <1>3, <1>6, FS_Injection DEF m
<1>8. \A b \in T : \E i \in 1..m : s[i] = b
  BY <1>7 DEF Surjection
<1>9. s \in Seq(Backends) /\ Len(s) = m
  BY <1>1, <1>2
<1>10. Range(s) = T
  BY <1>2, <1>8 DEF Range
<1> QED
  BY <1>1, <1>2, <1>5, <1>8, <1>9, <1>10 DEF m

\* There is only one such list.
LEMMA ListUnique ==
    ASSUME NEW T \in SUBSET Backends, NEW s, Lists(s, T), NEW t, Lists(t, T)
    PROVE  s = t
<1> DEFINE m == Cardinality(T)
           Differ == {i \in 1..m : s[i] # t[i]}
<1>1. /\ s \in [1..m -> T] /\ t \in [1..m -> T]
      /\ \A i, j \in 1..m : i < j => s[i] < s[j]
      /\ \A i, j \in 1..m : i < j => t[i] < t[j]
  BY DEF Lists
<1>4. m \in Nat /\ Len(s) = m /\ Len(t) = m
  BY ListFacts, RoutingAssumption
<1>5. /\ \A b \in T : \E i \in 1..m : s[i] = b
      /\ \A b \in T : \E i \in 1..m : t[i] = b
  BY <1>4, ListFacts
<1>2. \A b \in T : b \in Nat
  BY RoutingAssumption DEF Backends
<1> HIDE DEF m
<1>3. ASSUME Differ # {} PROVE FALSE
  <2>0. Differ \subseteq Nat
    BY <1>4
  <2>1. PICK i \in Differ : \A j \in Differ : i <= j
    BY <1>3, <2>0, SmallestNat
  <2>2. /\ i \in 1..m /\ s[i] # t[i]
        /\ \A j \in 1..m : j < i => s[j] = t[j]
        /\ s[i] \in T /\ t[i] \in T
    BY <2>1, <1>1, <1>4
  <2>3. PICK j \in 1..m : t[j] = s[i]
    BY <2>2, <1>5
  <2>4. PICK k \in 1..m : s[k] = t[i]
    BY <2>2, <1>5
  <2>5. ~(j < i) /\ j # i
    BY <2>2, <2>3, <1>1, <1>2, <1>4
  <2>6. ~(k < i) /\ k # i
    BY <2>2, <2>4, <1>1, <1>2, <1>4
  <2>7. t[i] < t[j] /\ s[i] < s[k]
    BY <2>2, <2>5, <2>6, <1>1, <1>4
  <2> QED
    BY <2>2, <2>3, <2>4, <2>7, <1>2
<1>6. \A i \in 1..m : s[i] = t[i]
  BY <1>3
<1>7. s = [i \in 1..m |-> s[i]] /\ t = [i \in 1..m |-> t[i]]
  BY <1>1
<1>8. [i \in 1..m |-> s[i]] = [i \in 1..m |-> t[i]]
  BY <1>6
<1> QED
  BY <1>7, <1>8

\* Config::available_backends
LEMMA AvailableListed ==
    ASSUME up \in SUBSET Backends
    PROVE  Lists(AvailableBackends, up)
<1>1. PICK s : Lists(s, up)
  BY ListExists, RoutingAssumption DEF Backends
<1>2. s \in [1..Cardinality(up) -> up]
  BY <1>1 DEF Lists
<1> QED
  BY <1>1, <1>2 DEF AvailableBackends

LEMMA AvailableFacts ==
    ASSUME up \in SUBSET Backends
    PROVE  LET list == AvailableBackends IN
           /\ list \in Seq(Backends) /\ Len(list) = Cardinality(up)
           /\ Len(list) \in 0..N /\ list \in [1..Len(list) -> Backends]
           /\ \A i \in 1..Len(list) : list[i] \in up
           /\ \A i, j \in 1..Len(list) : i < j => list[i] < list[j]
           /\ \A i, j \in 1..Len(list) : list[i] = list[j] => i = j
           /\ \A b \in up : \E i \in 1..Len(list) : list[i] = b
           /\ Len(list) = 0 <=> up = {}
           /\ Range(list) = up
<1>1. Lists(AvailableBackends, up)
  BY AvailableListed
<1> QED
  BY <1>1, ListFacts

\* While all backends are Normal, each is at its own place.
LEMMA AllAvailable ==
    ASSUME up = Backends
    PROVE  Len(AvailableBackends) = N /\ \A i \in Backends : AvailableBackends[i] = i
<1> DEFINE t == [i \in Backends |-> i]
<1>1. Cardinality(Backends) = N
  BY RoutingAssumption, FS_Interval DEF Backends
<1>2. Lists(t, Backends)
  BY <1>1, RoutingAssumption DEF Lists, Backends
<1>3. up \in SUBSET Backends
  OBVIOUS
<1>4. AvailableBackends = t
  BY <1>2, <1>3, AvailableListed, ListUnique
<1> QED
  BY <1>1, <1>3, <1>4, AvailableFacts

(***************************************************************************)
(* The algorithms                                                          *)
(***************************************************************************)

\* The place i of the first of the cheapest among the first k of a list.
FirstCheapest(list, cost, k, i) ==
    /\ i \in 1..k
    /\ \A j \in 1..k :
         /\ cost[list[i]] <= cost[list[j]]
         /\ j < i => cost[list[i]] < cost[list[j]]

LEMMA FirstCheapestExists ==
    ASSUME NEW list \in Seq(Backends), NEW cost \in [Backends -> Nat],
           NEW k \in 1..Len(list)
    PROVE  \E i : FirstCheapest(list, cost, k, i)
<1>1. k \in Nat /\ k >= 1 /\ \A j \in 1..k : cost[list[j]] \in Nat
  OBVIOUS
<1> DEFINE C == {cost[list[j]] : j \in 1..k}
<1>2. C \subseteq Nat /\ C # {}
  BY <1>1
<1>3. PICK x \in C : \A y \in C : x <= y
  BY <1>2, SmallestNat
<1> DEFINE I == {j \in 1..k : cost[list[j]] = x}
<1>4. I \subseteq Nat /\ I # {}
  BY <1>1
<1>5. PICK i \in I : \A j \in I : i <= j
  BY <1>4, SmallestNat
<1>6. i \in 1..k /\ cost[list[i]] = x
  BY <1>5
<1>7. ASSUME NEW j \in 1..k
      PROVE  /\ cost[list[i]] <= cost[list[j]]
             /\ j < i => cost[list[i]] < cost[list[j]]
  <2>1. x <= cost[list[j]] /\ x \in Nat /\ cost[list[j]] \in Nat
    BY <1>1, <1>2, <1>3
  <2>2. cost[list[j]] = x => i <= j
    BY <1>5
  <2> QED
    BY <2>1, <2>2, <1>6
<1> QED
  BY <1>6, <1>7 DEF FirstCheapest

LEMMA FirstCheapestUnique ==
    ASSUME NEW list \in Seq(Backends), NEW cost \in [Backends -> Nat],
           NEW k \in 1..Len(list),
           NEW i, FirstCheapest(list, cost, k, i),
           NEW j, FirstCheapest(list, cost, k, j)
    PROVE  i = j
<1>1. \A n \in 1..k : cost[list[n]] \in Nat
  OBVIOUS
<1>2. i \in 1..k /\ j \in 1..k
  BY DEF FirstCheapest
<1>3. i < j => cost[list[j]] < cost[list[i]] /\ cost[list[i]] <= cost[list[j]]
  BY <1>2 DEF FirstCheapest
<1>4. j < i => cost[list[i]] < cost[list[j]] /\ cost[list[j]] <= cost[list[i]]
  BY <1>2 DEF FirstCheapest
<1>5. cost[list[i]] \in Nat /\ cost[list[j]] \in Nat
  BY <1>1, <1>2
<1>6. ~(i < j) /\ ~(j < i)
  BY <1>3, <1>4, <1>5
<1> QED
  BY <1>2, <1>6

\* The loop keeps the first of the cheapest of the backends it has been through.
LEMMA LeastLoadedFirst ==
    ASSUME NEW list \in Seq(Backends), Len(list) > 0,
           NEW cost \in [Backends -> Nat]
    PROVE  \E i : FirstCheapest(list, cost, Len(list), i) /\ LeastLoaded(list, cost) = list[i]
<1> DEFINE n == Len(list)
           best[k \in 0..n] ==
             IF k = 0 THEN 0
             ELSE IF best[k - 1] # 0 /\ cost[best[k - 1]] <= cost[list[k]]
                    THEN best[k - 1]
                    ELSE list[k]
           IsBest(g) ==
             g = [k \in 0..n |->
                    IF k = 0 THEN 0
                    ELSE IF g[k - 1] # 0 /\ cost[g[k - 1]] <= cost[list[k]]
                           THEN g[k - 1]
                           ELSE list[k]]
           first(k) == CHOOSE i : FirstCheapest(list, cost, k, i)
           w == [k \in 0..n |-> IF k = 0 THEN 0 ELSE list[first(k)]]
<1>1. LeastLoaded(list, cost) = best[n]
  BY DEF LeastLoaded
<1>2. best = CHOOSE g : IsBest(g)
  BY DEF IsBest
<1>3. n \in Nat /\ n > 0 /\ \A k \in 1..n : list[k] \in Backends
  OBVIOUS
<1>4. \A k \in 1..n : FirstCheapest(list, cost, k, first(k))
  BY FirstCheapestExists
<1>5. \A b \in Backends : b # 0
  BY RoutingAssumption DEF Backends
<1> HIDE DEF n, first
<1>6. ASSUME NEW k \in 1..n
      PROVE  w[k] = IF w[k - 1] # 0 /\ cost[w[k - 1]] <= cost[list[k]]
                      THEN w[k - 1]
                      ELSE list[k]
  <2>1. k \in Nat /\ k \in 0..n /\ k # 0 /\ k - 1 \in 0..n /\ list[k] \in Backends
    BY <1>3
  <2>2. w[k] = list[first(k)]
    BY <2>1
  <2>3. cost[list[k]] \in Nat
    BY <2>1
  <2>4. \A j \in 1..k : list[j] \in Backends /\ cost[list[j]] \in Nat
    BY <1>3, <2>1
  <2>5. CASE k = 1
    <3>1. w[k - 1] = 0
      BY <2>1, <2>5
    <3>2. first(k) = 1
      BY <1>4, <2>5 DEF FirstCheapest
    <3> QED
      BY <2>2, <2>5, <3>1, <3>2
  <2>6. CASE k > 1
    <3> DEFINE i == first(k - 1)
    <3>1. k - 1 \in 1..n /\ k - 1 # 0
      BY <2>1, <2>6
    <3>2. FirstCheapest(list, cost, k - 1, i)
      BY <3>1, <1>4
    <3>3. w[k - 1] = list[i]
      BY <2>1, <3>1
    <3> HIDE DEF i, w
    <3>4. i \in 1..k - 1 /\ i \in 1..k /\ list[i] \in Backends /\ cost[list[i]] \in Nat
      BY <3>2, <2>1, <2>4 DEF FirstCheapest
    <3>5. CASE cost[list[i]] <= cost[list[k]]
      <4>1. FirstCheapest(list, cost, k, i)
        BY <3>2, <3>4, <3>5, <2>1 DEF FirstCheapest
      <4>2. first(k) = i
        BY <4>1, <1>4, <2>1, FirstCheapestUnique DEF n
      <4> QED
        BY <4>2, <2>2, <3>3, <3>4, <3>5, <1>5
    <3>6. CASE ~(cost[list[i]] <= cost[list[k]])
      <4>1. \A j \in 1..k - 1 : cost[list[k]] < cost[list[j]]
        <5> TAKE j \in 1..k - 1
        <5>1. j \in 1..k
          BY <2>1
        <5>2. cost[list[i]] <= cost[list[j]]
          BY <3>2, Zenon DEF FirstCheapest
        <5> QED
          BY <5>1, <5>2, <2>4, <2>3, <3>4, <3>6
      <4>4. ASSUME NEW j \in 1..k
            PROVE  cost[list[k]] <= cost[list[j]] /\ (j < k => cost[list[k]] < cost[list[j]])
        <5>1. CASE j = k
          BY <5>1, <2>1, <2>3
        <5>2. CASE j # k
          <6>1. j \in 1..k - 1
            BY <5>2, <2>1
          <6>2. cost[list[k]] < cost[list[j]] /\ cost[list[j]] \in Nat
            BY <6>1, <4>1, <2>4
          <6> QED
            BY <6>2, <2>3
        <5> QED
          BY <5>1, <5>2
      <4>5. k \in 1..k
        BY <2>1
      <4>2. FirstCheapest(list, cost, k, k)
        BY <4>4, <4>5 DEF FirstCheapest
      <4>3. first(k) = k
        BY <4>2, <1>4, <2>1, FirstCheapestUnique DEF n
      <4> QED
        BY <4>3, <2>2, <3>3, <3>6
    <3> QED
      BY <3>5, <3>6
  <2> QED
    BY <2>1, <2>5, <2>6
<1>7. w[0] = 0 /\ w = [k \in 0..n |-> w[k]]
  BY <1>3
<1> HIDE DEF w
<1>8. IsBest(w)
  <2> DEFINE body(k) == IF k = 0 THEN 0
                        ELSE IF w[k - 1] # 0 /\ cost[w[k - 1]] <= cost[list[k]]
                               THEN w[k - 1]
                               ELSE list[k]
  <2>1. \A k \in 0..n : w[k] = body(k)
    <3> TAKE k \in 0..n
    <3>1. CASE k = 0
      BY <3>1, <1>7
    <3>2. CASE k # 0
      <4>1. k \in 1..n
        BY <3>2, <1>3
      <4> QED
        BY <4>1, <3>2, <1>6
    <3> QED
      BY <3>1, <3>2
  <2> HIDE DEF body
  <2>2. w = [k \in 0..n |-> body(k)]
    BY <2>1, <1>7
  <2> QED
    BY <2>2 DEF body, IsBest
<1>9. IsBest(best)
  BY <1>2, <1>8
<1> HIDE DEF best
<1>10. \A k \in 0..n : best[k] = w[k]
  <2> DEFINE Differ == {k \in 0..n : best[k] # w[k]}
  <2>1. SUFFICES ASSUME Differ # {} PROVE FALSE
    OBVIOUS
  <2>0. Differ \subseteq Nat
    BY <1>3
  <2>2. PICK k \in Differ : \A j \in Differ : k <= j
    BY <2>0, <2>1, SmallestNat
  <2>3. k \in 0..n /\ best[k] # w[k]
    BY <2>2
  <2>4. k # 0
    BY <2>3, <1>7, <1>9
  <2>5. k - 1 \in 0..n /\ k \in 1..n /\ best[k - 1] = w[k - 1]
    BY <2>2, <2>3, <2>4, <1>3
  <2>6. best[k] = IF best[k - 1] # 0 /\ cost[best[k - 1]] <= cost[list[k]]
                    THEN best[k - 1]
                    ELSE list[k]
    BY <1>9, <2>3, <2>4
  <2> QED
    BY <2>3, <2>5, <2>6, <1>6
<1>11. best[n] = list[first(n)] /\ FirstCheapest(list, cost, n, first(n))
  BY <1>3, <1>4, <1>10 DEF w
<1> QED
  BY <1>1, <1>11 DEF n

\* From its second round on the probing of uri_hash has found a place in the list.
LEMMA UriHashFinds ==
    ASSUME NEW list \in Seq(Backends), Len(list) > 0, NEW id \in Nat
    PROVE  /\ \E i \in 1..Len(list) : UriHash(list, id) = list[i]
           /\ id < Len(list) => UriHash(list, id) = list[id + 1]
<1> DEFINE n == Len(list)
           bid[k \in 0..n] ==
             IF k = 0 THEN id
             ELSE IF bid[k - 1] < n THEN bid[k - 1]
             ELSE (bid[k - 1] + 1) % n
           found == Get(list, bid[n])
           IsBid(g) ==
             g = [k \in 0..n |->
                    IF k = 0 THEN id
                    ELSE IF g[k - 1] < n THEN g[k - 1]
                    ELSE (g[k - 1] + 1) % n]
           place == IF id < n THEN id ELSE (id + 1) % n
           w == [k \in 0..n |-> IF k = 0 THEN id ELSE place]
<1>1. UriHash(list, id) = IF found # 0 THEN found ELSE Get(list, 0)
  BY DEF UriHash
<1>2. bid = CHOOSE g : IsBid(g)
  BY DEF IsBid
<1>3. n \in Nat /\ n > 0 /\ \A i \in 1..n : list[i] \in Backends
  OBVIOUS
<1> HIDE DEF n
<1>4. place \in 0..n - 1 /\ (id < n => place = id)
  BY <1>3
<1>5. IsBid(w)
  BY <1>3, <1>4
<1>6. IsBid(bid)
  BY <1>2, <1>5
<1> HIDE DEF bid
<1>7. /\ bid[0] = id
      /\ \A k \in 1..n : bid[k] = IF bid[k - 1] < n THEN bid[k - 1] ELSE (bid[k - 1] + 1) % n
  BY <1>6, <1>3
<1>8. bid[1] = place
  <2>1. 1 \in 1..n /\ 1 - 1 = 0
    BY <1>3
  <2>2. bid[1] = IF bid[0] < n THEN bid[0] ELSE (bid[0] + 1) % n
    BY <2>1, <1>7
  <2> QED
    BY <2>2, <1>7
<1> HIDE DEF place, IsBid, w
<1>9. \A k \in 1..n : bid[k] = place
  <2> DEFINE Differ == {k \in 1..n : bid[k] # place}
  <2>1. SUFFICES ASSUME Differ # {} PROVE FALSE
    OBVIOUS
  <2>2. Differ \subseteq Nat
    BY <1>3
  <2>3. PICK k \in Differ : \A j \in Differ : k <= j
    BY <2>1, <2>2, SmallestNat
  <2>4. k \in 1..n /\ bid[k] # place /\ k # 1
    BY <2>3, <1>8
  <2>5. k - 1 \in 1..n /\ bid[k - 1] = place
    BY <2>3, <2>4, <1>3
  <2>6. bid[k] = IF bid[k - 1] < n THEN bid[k - 1] ELSE (bid[k - 1] + 1) % n
    BY <2>4, <1>7
  <2>7. place < n
    BY <1>3, <1>4
  <2> QED
    BY <2>4, <2>5, <2>6, <2>7
<1>10. bid[n] = place
  BY <1>3, <1>9
<1>11. found = list[place + 1] /\ place + 1 \in 1..n
  BY <1>10, <1>4, <1>3 DEF Get, n
<1>12. list[place + 1] # 0
  BY <1>3, <1>11, RoutingAssumption DEF Backends
<1>13. UriHash(list, id) = list[place + 1]
  BY <1>1, <1>11, <1>12
<1> QED
  BY <1>4, <1>11, <1>13 DEF n

\* Whatever the list, every algorithm but round robin answers one of its members.
LEMMA OthersAnswer ==
    ASSUME balance \in Algorithms, balance # "RoundRobin",
           NEW list \in Seq(Backends), Len(list) > 0, NEW h \in Hosts,
           NEW b \in Answers(list, h)
    PROVE  b \in Backends
<1>1. \A i \in 1..Len(list) : list[i] \in Backends
  OBVIOUS
<1>2. CASE balance = "Random"
  <2>1. b \in Range(list)
    BY <1>2 DEF Answers
  <2> QED
    BY <2>1, <1>1 DEF Range
<1>3. CASE balance = "LeastLoadedTime"
  <2>1. PICK cost \in [Backends -> Costs] : b = LeastLoaded(list, cost)
    BY <1>3 DEF Answers
  <2>2. cost \in [Backends -> Nat]
    BY RoutingAssumption
  <2>3. PICK i : FirstCheapest(list, cost, Len(list), i) /\ b = list[i]
    BY <2>1, <2>2, LeastLoadedFirst
  <2> QED
    BY <2>3, <1>1 DEF FirstCheapest
<1>4. CASE balance = "UriHash"
  <2>1. b = UriHash(list, Ring[h])
    BY <1>4 DEF Answers
  <2>2. Ring[h] \in Nat
    BY RoutingAssumption
  <2> QED
    BY <2>1, <2>2, <1>1, UriHashFinds
<1>5. CASE balance = "Frist"
  <2>1. b = Get(list, 0)
    BY <1>5 DEF Answers
  <2> QED
    BY <2>1, <1>1 DEF Get
<1> QED
  BY <1>2, <1>3, <1>4, <1>5 DEF Algorithms

\* Round robin answers the member at the place it has come to, or none.
LEMMA RoundRobinAnswers ==
    ASSUME balance = "RoundRobin", next \in Nat,
           NEW list \in Seq(Backends), NEW h, NEW b \in Answers(list, h)
    PROVE  /\ b = IF next < Len(list) THEN list[next + 1] ELSE 0
           /\ b = 0 <=> next >= Len(list)
           /\ b \in Backends \cup {0}
<1>1. b = Get(list, next)
  BY DEF Answers
<1>2. \A i \in 1..Len(list) : list[i] \in Backends /\ list[i] # 0
  BY RoutingAssumption DEF Backends
<1>3. next < Len(list) => next + 1 \in 1..Len(list)
  OBVIOUS
<1> QED
  BY <1>1, <1>2, <1>3 DEF Get

\* The answers of least_loaded_time and uri_hash for the list of the moment.
LEMMA LeastLoadedRight ==
    ASSUME up \in SUBSET Backends
    PROVE  LeastLoadedIsFirstMinimum
<1> SUFFICES ASSUME NEW cost \in [Backends -> Costs], up # {}
             PROVE  LET best == LeastLoaded(AvailableBackends, cost)
                        cheapest == {b \in up : \A x \in up : cost[b] <= cost[x]}
                    IN  best \in cheapest /\ \A b \in cheapest : best <= b
  BY DEF LeastLoadedIsFirstMinimum
<1> DEFINE list == AvailableBackends
<1>1. /\ list \in Seq(Backends) /\ Len(list) > 0 /\ Len(list) \in Nat
      /\ \A i \in 1..Len(list) : list[i] \in up
      /\ \A i, j \in 1..Len(list) : i < j => list[i] < list[j]
      /\ \A b \in up : \E i \in 1..Len(list) : list[i] = b
  BY AvailableFacts
<1>2. cost \in [Backends -> Nat] /\ \A b \in up : b \in Nat
  <2>1. cost \in [Backends -> Nat]
    BY RoutingAssumption
  <2>2. \A b \in up : b \in Nat
    BY RoutingAssumption DEF Backends
  <2> QED
    BY <2>1, <2>2
<1> HIDE DEF list
<1>3. PICK i : FirstCheapest(list, cost, Len(list), i) /\ LeastLoaded(list, cost) = list[i]
  BY <1>1, <1>2, LeastLoadedFirst
<1>4. i \in 1..Len(list) /\ list[i] \in up
  BY <1>1, <1>3 DEF FirstCheapest
<1>5. ASSUME NEW b \in up
      PROVE  /\ cost[list[i]] <= cost[b]
             /\ (\A x \in up : cost[b] <= cost[x]) => list[i] <= b
  <2>1. PICK j \in 1..Len(list) : list[j] = b
    BY <1>1
  <2>2. cost[list[i]] <= cost[b] /\ (j < i => cost[list[i]] < cost[b])
    BY <1>3, <2>1 DEF FirstCheapest
  <2>3. cost[list[i]] \in Nat /\ cost[b] \in Nat /\ list[i] \in Nat /\ b \in Nat
    BY <1>2, <1>4
  <2>4. (\A x \in up : cost[b] <= cost[x]) => cost[b] <= cost[list[i]]
    BY <1>4
  <2>5. (\A x \in up : cost[b] <= cost[x]) => ~(j < i)
    BY <2>2, <2>3, <2>4
  <2>6. ~(j < i) => list[i] <= b
    BY <1>1, <1>4, <2>1, <2>3
  <2> QED
    BY <2>2, <2>5, <2>6
<1> QED
  BY <1>3, <1>4, <1>5 DEF list

LEMMA UriHashRight ==
    ASSUME up \in SUBSET Backends
    PROVE  UriHashHome
<1> SUFFICES ASSUME NEW h \in Hosts
             PROVE  /\ up # {} => UriHash(AvailableBackends, Ring[h]) \in up
                    /\ up = Backends => UriHash(AvailableBackends, Ring[h]) = Ring[h] + 1
  BY DEF UriHashHome
<1> DEFINE list == AvailableBackends
           id == Ring[h]
<1>1. id \in Nat /\ id < N /\ id + 1 \in Backends
  BY RoutingAssumption DEF Backends
<1>2. /\ list \in Seq(Backends) /\ Len(list) \in Nat
      /\ up # {} => Len(list) > 0
      /\ \A i \in 1..Len(list) : list[i] \in up
  BY AvailableFacts
<1>3. up = Backends => Len(list) = N /\ list[id + 1] = id + 1
  BY <1>1, AllAvailable
<1>4. Backends # {}
  BY <1>1
<1> HIDE DEF list, id
<1>5. up # {} => /\ \E i \in 1..Len(list) : UriHash(list, id) = list[i]
                 /\ id < Len(list) => UriHash(list, id) = list[id + 1]
  BY <1>1, <1>2, UriHashFinds
<1>6. up # {} => UriHash(list, id) \in up
  BY <1>2, <1>5
<1>7. up = Backends => UriHash(list, id) = id + 1
  BY <1>1, <1>3, <1>4, <1>5
<1> QED
  BY <1>6, <1>7 DEF list, id

(***************************************************************************)
(* The inductive invariant                                                 *)
(***************************************************************************)

\* An algorithm is asked only if there is a choice: never about a list it
\* would divide by the length of in vain.
Choosing == \A c \in Conns : pc[c] = "choose" => Len(items[c]) > 1

\* Where a connection is, and what the rule of its host says.
Ruled ==
    \A c \in Conns :
        LET rule == PeerBackendRule(host[c]) IN
        /\ pc[c] \in {"choose", "none"} => rule = "NoRule"
        /\ pc[c] = "direct" => rule = "Direct"
        /\ pc[c] = "block" => rule = "GotBackend"
        /\ pc[c] = "got" =>
             \/ rule = "NoRule"
             \/ rule = "GotBackend" /\ pick[c] = Sections[host[c]].backend

\* With the index at n, the place p (from 0) is one of those from a up to it,
\* going round at the end of the list.
Passed(n, a, p) == IF a <= n THEN a <= p /\ p < n ELSE a <= p \/ p < n

\* The members S of a list are those at the places from some place a up to n.
PassedFrom(list, n, S) ==
    \E a \in 0..Len(list) - 1 :
        \A p \in 0..Len(list) - 1 : list[p + 1] \in S <=> Passed(n, a, p)

\* The backends seen are those at the places round robin has passed since it
\* began anew; if its index is beyond the list it has just done so.
Turns ==
    /\ seen \subseteq up
    /\ next < Len(AvailableBackends) => PassedFrom(AvailableBackends, next, seen)
    /\ next >= Len(AvailableBackends) => seen = {}

\* After a miss the index is within the list that was missed on.
Missed == missLen # 0 => balance = "RoundRobin" /\ next < missLen

Inv == TypeOK /\ Choosing /\ Ruled /\ Turns /\ Missed /\ OthersNeverMiss

LEMMA ListBounds ==
    ASSUME NEW s
    PROVE  s \in BoundedSeq(Backends, N) <=> s \in Seq(Backends) /\ Len(s) \in 0..N
<1>1. s \in BoundedSeq(Backends, N) <=> \E m \in 0..N : s \in [1..m -> Backends]
  BY DEF BoundedSeq, SeqOf
<1>2. ASSUME NEW m \in 0..N, s \in [1..m -> Backends]
      PROVE  s \in Seq(Backends) /\ Len(s) \in 0..N
  BY <1>2, RoutingAssumption
<1>3. s \in Seq(Backends) => s \in [1..Len(s) -> Backends]
  OBVIOUS
<1> QED
  BY <1>1, <1>2, <1>3

LEMMA EmptyListBound == <<>> \in BoundedSeq(Backends, N)
<1>1. <<>> \in Seq(Backends) /\ Len(<<>>) = 0
  OBVIOUS
<1>2. 0 \in 0..N
  BY RoutingAssumption
<1> QED
  BY <1>1, <1>2, ListBounds

\* What the invariant says of one connection's list.
LEMMA ItemsTyped ==
    ASSUME TypeOK, NEW c \in Conns
    PROVE  items[c] \in Seq(Backends) /\ Len(items[c]) \in 0..N
BY ListBounds DEF TypeOK

LEMMA NoneSeen ==
    ASSUME NEW list, Len(list) \in Nat, NEW n \in Nat, n < Len(list)
    PROVE  PassedFrom(list, n, {})
<1>1. \A p \in 0..Len(list) - 1 : list[p + 1] \in {} <=> Passed(n, n, p)
  BY DEF Passed
<1>2. n \in 0..Len(list) - 1
  OBVIOUS
<1> QED
  BY <1>1, <1>2 DEF PassedFrom

\* Round robin at a place of the list: the backend there has not been seen, and
\* once it has, all have, or the places passed are those up to the next one.
LEMMA NextTurn ==
    ASSUME NEW list \in Seq(Backends), NEW n \in Nat, n < Len(list), NEW S,
           \A i, j \in 1..Len(list) : list[i] = list[j] => i = j,
           S \subseteq Range(list), PassedFrom(list, n, S)
    PROVE  LET b == list[n + 1]
               m == (n + 1) % Len(list) IN
           /\ b \notin S
           /\ S \cup {b} # Range(list) => PassedFrom(list, m, S \cup {b})
           /\ m \in Nat /\ m < Len(list)
<1> DEFINE l == Len(list)
           b == list[n + 1]
           m == (n + 1) % l
<1>1. l \in Nat /\ l > 0 /\ n < l
  OBVIOUS
<1>2. PICK a \in 0..l - 1 : \A p \in 0..l - 1 : list[p + 1] \in S <=> Passed(n, a, p)
  BY DEF PassedFrom
<1>3. \A i, j \in 1..l : list[i] = list[j] => i = j
  OBVIOUS
<1>4. Range(list) = {list[i] : i \in 1..l}
  BY DEF Range
<1> HIDE DEF l
<1>5. m = IF n + 1 = l THEN 0 ELSE n + 1
  BY <1>1
<1>6. n \in 0..l - 1 /\ ~Passed(n, a, n)
  BY <1>1 DEF Passed
<1>7. b \notin S
  BY <1>2, <1>6
<1> DEFINE U == S \cup {b}
<1>8. \A p \in 0..l - 1 : list[p + 1] \in U <=> Passed(n, a, p) \/ p = n
  <2> TAKE p \in 0..l - 1
  <2>1. p + 1 \in 1..l /\ n + 1 \in 1..l
    BY <1>1, <1>6
  <2>2. list[p + 1] = b <=> p = n
    BY <2>1, <1>1, <1>3
  <2> QED
    BY <2>2, <1>2
<1> HIDE DEF U, m, b
<1>9. CASE m = a
  <2>1. \A p \in 0..l - 1 : Passed(n, a, p) \/ p = n
    BY <1>1, <1>5, <1>9 DEF Passed
  <2>2. \A i \in 1..l : list[i] \in U
    <3> TAKE i \in 1..l
    <3>1. i - 1 \in 0..l - 1 /\ (i - 1) + 1 = i
      BY <1>1
    <3> QED
      BY <3>1, <2>1, <1>8
  <2>3. b \in Range(list)
    BY <1>1, <1>4 DEF b
  <2> QED
    BY <2>2, <2>3, <1>1, <1>4, <1>5, <1>7 DEF U, m, b, l
<1>10. CASE m # a
  <2>1. \A p \in 0..l - 1 : Passed(n, a, p) \/ p = n <=> Passed(m, a, p)
    BY <1>1, <1>5, <1>10 DEF Passed
  <2>2. PassedFrom(list, m, U)
    BY <2>1, <1>8 DEF PassedFrom, l
  <2> QED
    BY <2>2, <1>1, <1>5, <1>7 DEF U, m, b, l
<1> QED
  BY <1>9, <1>10

LEMMA InitInv ==
    ASSUME Init
    PROVE  Inv
<1>1. <<>> \in BoundedSeq(Backends, N)
  BY EmptyListBound
<1>2. TypeOK
  BY <1>1, RoutingAssumption DEF Init, TypeOK
<1>3. Choosing /\ Ruled /\ Missed /\ OthersNeverMiss
  BY DEF Init, Choosing, Ruled, Missed, OthersNeverMiss
<1>4. Turns
  <2>1. next = 0 /\ seen = {} /\ up \in SUBSET Backends
    BY DEF Init
  <2>2. Len(AvailableBackends) \in Nat
    BY <2>1, AvailableFacts
  <2> QED
    BY <2>1, <2>2, NoneSeen DEF Turns
<1> QED
  BY <1>2, <1>3, <1>4 DEF Inv

(***************************************************************************)
(* The invariant is preserved                                              *)
(***************************************************************************)

\* What Choose does with its answer b, once the algorithms' answers are known.
Chosen(c, b) ==
    /\ b \in Backends \cup {0}
    /\ \/ b # 0 /\ Got(c, b)
       \/ b = 0 /\ Goto(c, "none") /\ UNCHANGED pick
    /\ UNCHANGED <<balance, up, host, items>>
    /\ balance = "RoundRobin" =>
         /\ b = IF next < Len(items[c]) THEN items[c][next + 1] ELSE 0
         /\ b = 0 <=> next >= Len(items[c])
         /\ next' = (next + 1) % Len(items[c])
         /\ next' \in 0..Len(items[c]) - 1
         /\ Remember(items[c], b)
    /\ balance # "RoundRobin" => b # 0 /\ UNCHANGED <<next, history>>

LEMMA RemainderBound ==
    ASSUME NEW n \in Nat, NEW l \in Nat, l > 1
    PROVE  (n + 1) % l \in 0..l - 1
OBVIOUS

LEMMA ChooseStep ==
    ASSUME Inv, NEW c \in Conns, Choose(c)
    PROVE  pc[c] = "choose" /\ \E b : Chosen(c, b)
<1>1. pc[c] = "choose" /\ UNCHANGED <<balance, up, host, items>>
  BY DEF Choose
<1>2. /\ balance \in Algorithms /\ next \in Nat /\ host[c] \in Hosts
      /\ items[c] \in Seq(Backends) /\ Len(items[c]) \in 0..N /\ Len(items[c]) > 1
  BY <1>1, ItemsTyped, RoutingAssumption DEF Inv, TypeOK, Choosing
<1>3. PICK b \in Answers(items[c], host[c]) :
         /\ \/ b # 0 /\ Got(c, b)
            \/ b = 0 /\ Goto(c, "none") /\ UNCHANGED pick
         /\ IF balance = "RoundRobin"
              THEN Advance(items[c]) /\ Remember(items[c], b)
              ELSE UNCHANGED <<next, history>>
  BY DEF Choose
<1>4. CASE balance = "RoundRobin"
  <2>1. /\ b = IF next < Len(items[c]) THEN items[c][next + 1] ELSE 0
        /\ b = 0 <=> next >= Len(items[c])
        /\ b \in Backends \cup {0}
    BY <1>2, <1>4, RoundRobinAnswers
  <2>2. next' = (next + 1) % Len(items[c])
    BY <1>3, <1>4 DEF Advance
  <2>4. Len(items[c]) \in Nat
    BY <1>2
  <2> DEFINE l == Len(items[c])
  <2> HIDE DEF l
  <2>5. (next + 1) % l \in 0..l - 1
    BY <1>2, <2>4, RemainderBound DEF l
  <2>3. next' \in 0..Len(items[c]) - 1
    BY <2>2, <2>5 DEF l
  <2> QED
    BY <1>1, <1>3, <1>4, <2>1, <2>2, <2>3 DEF Chosen
<1>5. CASE balance # "RoundRobin"
  <2>1. b \in Backends
    BY <1>2, <1>5, OthersAnswer
  <2>2. b # 0
    BY <2>1, RoutingAssumption DEF Backends
  <2> QED
    BY <1>1, <1>3, <1>5, <2>1, <2>2 DEF Chosen
<1> QED
  BY <1>1, <1>4, <1>5

LEMMA AvailableListedNext ==
    ASSUME up' \in SUBSET Backends
    PROVE  Lists(AvailableBackends', up')
<1>1. PICK s : Lists(s, up')
  BY ListExists, RoutingAssumption DEF Backends
<1>2. s \in [1..Cardinality(up') -> up']
  BY <1>1 DEF Lists
<1> QED
  BY <1>1, <1>2 DEF AvailableBackends

LEMMA TypeStep ==
    ASSUME Inv, [Next]_vars
    PROVE  TypeOK'
<1> USE DEF TypeOK
<1>0. TypeOK
  BY DEF Inv
<1>1. ASSUME NEW c \in Conns, Arrive(c)
      PROVE  TypeOK'
  BY <1>0, <1>1 DEF Arrive, Goto, history
<1>2. ASSUME NEW c \in Conns, ByRule(c)
      PROVE  TypeOK'
  BY <1>0, <1>2 DEF ByRule, Goto, Got, history
<1>3. ASSUME NEW c \in Conns, Look(c)
      PROVE  TypeOK'
  <2>1. /\ AvailableBackends \in BoundedSeq(Backends, N)
        /\ Len(AvailableBackends) = 1 => AvailableBackends[1] \in Backends
    BY <1>0, AvailableFacts, ListBounds
  <2> QED
    BY <1>0, <1>3, <2>1 DEF Look, Goto, Got, history
<1>4. ASSUME NEW c \in Conns, Choose(c)
      PROVE  TypeOK'
  <2>1. PICK b : Chosen(c, b)
    BY <1>4, ChooseStep
  <2>2. Len(items[c]) \in 0..N
    BY <1>0, ItemsTyped
  <2>3. b \in Backends \cup {0}
    BY <2>1 DEF Chosen
  <2>4. next' \in 0..N - 1
    BY <1>0, <2>1, <2>2, RoutingAssumption DEF Chosen
  <2>5. missLen' \in 0..N /\ seen' \subseteq Backends
    BY <1>0, <2>1, <2>2, <2>3, RoutingAssumption DEF Chosen, Remember, history
  <2>6. pc' \in [Conns -> {"idle", "ask", "choose", "got", "block", "direct", "none"}]
    BY <1>0, <2>1 DEF Chosen, Got, Goto
  <2>7. pick' \in [Conns -> Backends \cup {0}]
    BY <1>0, <2>1, <2>3 DEF Chosen, Got, Goto
  <2> QED
    BY <1>0, <2>1, <2>4, <2>5, <2>6, <2>7 DEF Chosen
<1>5. ASSUME NEW c \in Conns, Finish(c)
      PROVE  TypeOK'
  BY <1>0, <1>5, EmptyListBound DEF Finish, Leave, Goto, history
<1>6. ASSUME NEW c \in Conns, Failed(c)
      PROVE  TypeOK'
  BY <1>0, <1>6, EmptyListBound DEF Failed, Goto, history
<1>7. ASSUME NEW b \in Backends, StatusChanges(b)
      PROVE  TypeOK'
  BY <1>0, <1>7 DEF StatusChanges
<1>8. CASE UNCHANGED vars
  BY <1>0, <1>8 DEF vars, history
<1> QED
  BY <1>1, <1>2, <1>3, <1>4, <1>5, <1>6, <1>7, <1>8 DEF Next

LEMMA ChoosingStep ==
    ASSUME Inv, [Next]_vars
    PROVE  Choosing'
<1> USE DEF Choosing
<1>0. TypeOK /\ Choosing
  BY DEF Inv
<1>1. ASSUME NEW c \in Conns, Arrive(c) \/ ByRule(c) \/ Finish(c) \/ Failed(c)
      PROVE  Choosing'
  BY <1>0, <1>1 DEF TypeOK, Arrive, ByRule, Finish, Failed, Leave, Got, Goto
<1>2. ASSUME NEW c \in Conns, Look(c)
      PROVE  Choosing'
  BY <1>0, <1>2 DEF TypeOK, Look, Got, Goto
<1>3. ASSUME NEW c \in Conns, Choose(c)
      PROVE  Choosing'
  <2>1. PICK b : Chosen(c, b)
    BY <1>3, ChooseStep
  <2> QED
    BY <1>0, <2>1 DEF TypeOK, Chosen, Got, Goto
<1>4. ASSUME NEW b \in Backends, StatusChanges(b)
      PROVE  Choosing'
  BY <1>0, <1>4 DEF StatusChanges
<1>5. CASE UNCHANGED vars
  BY <1>0, <1>5 DEF vars
<1> QED
  BY <1>1, <1>2, <1>3, <1>4, <1>5 DEF Next

LEMMA RuledStep ==
    ASSUME Inv, [Next]_vars
    PROVE  Ruled'
<1> USE DEF Ruled
<1>0. TypeOK /\ Ruled
  BY DEF Inv
<1>1. ASSUME NEW c \in Conns, Arrive(c) \/ Finish(c) \/ Failed(c)
      PROVE  Ruled'
  BY <1>0, <1>1 DEF TypeOK, Arrive, Finish, Failed, Leave, Goto
<1>2. ASSUME NEW c \in Conns, ByRule(c)
      PROVE  Ruled'
  BY <1>0, <1>2 DEF TypeOK, ByRule, Got, Goto
<1>3. ASSUME NEW c \in Conns, Look(c)
      PROVE  Ruled'
  BY <1>0, <1>3 DEF TypeOK, Look, Got, Goto
<1>4. ASSUME NEW c \in Conns, Choose(c)
      PROVE  Ruled'
  <2>1. pc[c] = "choose" /\ PeerBackendRule(host[c]) = "NoRule"
    BY <1>0, <1>4 DEF Choose
  <2>2. PICK b : Chosen(c, b)
    BY <1>4, ChooseStep
  <2> QED
    BY <1>0, <2>1, <2>2 DEF TypeOK, Chosen, Got, Goto
<1>5. ASSUME NEW b \in Backends, StatusChanges(b)
      PROVE  Ruled'
  BY <1>0, <1>5 DEF StatusChanges
<1>6. CASE UNCHANGED vars
  BY <1>0, <1>6 DEF vars
<1> QED
  BY <1>1, <1>2, <1>3, <1>4, <1>5, <1>6 DEF Next

LEMMA MissedStep ==
    ASSUME Inv, [Next]_vars
    PROVE  Missed'
<1> USE DEF Missed
<1>0. TypeOK /\ Missed
  BY DEF Inv
<1>1. ASSUME NEW c \in Conns, Choose(c)
      PROVE  Missed'
  <2>1. PICK b : Chosen(c, b)
    BY <1>1, ChooseStep
  <2>2. Len(items[c]) \in Nat
    BY <1>0, ItemsTyped
  <2>3. CASE balance = "RoundRobin"
    <3>1. balance' = "RoundRobin" /\ next' \in 0..Len(items[c]) - 1
      BY <2>1, <2>3 DEF Chosen
    <3>2. missLen' = IF b = 0 THEN Len(items[c]) ELSE 0
      BY <2>1, <2>3 DEF Chosen, Remember
    <3> QED
      BY <2>2, <3>1, <3>2
  <2>4. CASE balance # "RoundRobin"
    BY <1>0, <2>1, <2>4 DEF Chosen, history
  <2> QED
    BY <2>3, <2>4
<1>2. UNCHANGED <<balance, next, missLen>> => Missed'
  BY <1>0
<1> QED
  BY <1>1, <1>2 DEF Next, vars, history, Arrive, ByRule, Look, Finish, Failed, StatusChanges

LEMMA OthersStep ==
    ASSUME Inv, [Next]_vars
    PROVE  OthersNeverMiss'
<1> USE DEF OthersNeverMiss
<1>0. TypeOK /\ OthersNeverMiss
  BY DEF Inv
<1>1. ASSUME NEW c \in Conns, Arrive(c) \/ ByRule(c) \/ Finish(c) \/ Failed(c)
      PROVE  OthersNeverMiss'
  BY <1>0, <1>1 DEF TypeOK, Arrive, ByRule, Finish, Failed, Leave, Got, Goto
<1>2. ASSUME NEW c \in Conns, Look(c)
      PROVE  OthersNeverMiss'
  <2>1. Len(AvailableBackends) = 0 => AvailableBackends = <<>>
    BY <1>0, AvailableFacts DEF TypeOK
  <2> QED
    BY <1>0, <1>2, <2>1 DEF TypeOK, Look, Got, Goto
<1>3. ASSUME NEW c \in Conns, Choose(c)
      PROVE  OthersNeverMiss'
  <2>1. PICK b : Chosen(c, b)
    BY <1>3, ChooseStep
  <2> QED
    BY <1>0, <2>1 DEF TypeOK, Chosen, Got, Goto
<1>4. ASSUME NEW b \in Backends, StatusChanges(b)
      PROVE  OthersNeverMiss'
  BY <1>0, <1>4 DEF StatusChanges
<1>5. CASE UNCHANGED vars
  BY <1>0, <1>5 DEF vars
<1> QED
  BY <1>1, <1>2, <1>3, <1>4, <1>5 DEF Next

\* Nothing seen: what is left to show is trivial whatever the new list is.
LEMMA BegunAnew ==
    ASSUME TypeOK', seen' = {}
    PROVE  Turns'
<1>1. up' \in SUBSET Backends /\ next' \in Nat
  BY RoutingAssumption DEF TypeOK
<1>2. Len(AvailableBackends') \in Nat
  BY <1>1, AvailableListedNext, ListFacts
<1>3. next' < Len(AvailableBackends') => PassedFrom(AvailableBackends', next', {})
  BY <1>1, <1>2, NoneSeen
<1> QED
  BY <1>3 DEF Turns

LEMMA TurnsStep ==
    ASSUME Inv, [Next]_vars
    PROVE  Turns'
<1>0. TypeOK /\ Turns /\ TypeOK'
  BY TypeStep DEF Inv
<1>1. ASSUME NEW c \in Conns, Choose(c), balance = "RoundRobin"
      PROVE  Turns'
  <2> DEFINE list == items[c]
  <2>1. PICK b : Chosen(c, b)
    BY <1>1, ChooseStep
  <2>2. CASE seen' = {}
    BY <1>0, <2>2, BegunAnew
  <2>3. CASE seen' # {}
    <3>1. /\ seen' = (seen \cup {b}) \ {0} /\ list = AvailableBackends
          /\ seen \cup {b} # Range(list)
      BY <1>1, <2>1, <2>3 DEF Chosen, Remember
    <3>2. b = 0 <=> next >= Len(list)
      BY <1>1, <2>1 DEF Chosen
    <3>3. next \in Nat /\ up \in SUBSET Backends
      BY <1>0, RoutingAssumption DEF TypeOK
    <3>4. /\ list \in Seq(Backends) /\ Len(list) \in Nat /\ Range(list) = up
          /\ \A i, j \in 1..Len(list) : list[i] = list[j] => i = j
      BY <3>1, <3>3, AvailableFacts
    <3>5. next < Len(list)
      BY <1>0, <2>3, <3>1, <3>2, <3>3, <3>4 DEF Turns
    <3>6. b = list[next + 1] /\ next' = (next + 1) % Len(list)
      BY <1>1, <2>1, <3>5 DEF Chosen
    <3>7. seen \subseteq up /\ PassedFrom(list, next, seen)
      BY <1>0, <3>1, <3>5 DEF Turns
    <3> HIDE DEF list
    <3>8. /\ PassedFrom(list, next', seen \cup {b})
          /\ next' \in Nat /\ next' < Len(list)
      BY <3>1, <3>3, <3>4, <3>5, <3>6, <3>7, NextTurn
    <3>9. next + 1 \in 1..Len(list)
      BY <3>3, <3>4, <3>5
    <3>10. b \in up
      BY <3>4, <3>6, <3>9 DEF Range
    <3>11. \A x \in up : x # 0
      BY <3>3, RoutingAssumption DEF Backends
    <3>12. seen' = seen \cup {b} /\ seen' \subseteq up
      BY <3>1, <3>7, <3>10, <3>11
    <3>13. up' = up /\ AvailableBackends' = list
      BY <2>1, <3>1 DEF Chosen, AvailableBackends
    <3>14. ~(next' >= Len(list))
      BY <3>4, <3>8
    <3> QED
      BY <3>8, <3>12, <3>13, <3>14 DEF Turns
  <2> QED
    BY <2>2, <2>3
<1>2. UNCHANGED <<up, next, seen>> => Turns'
  BY <1>0 DEF Turns, AvailableBackends
<1>3. ASSUME NEW c \in Conns, Choose(c), balance # "RoundRobin"
      PROVE  Turns'
  <2>1. PICK b : Chosen(c, b)
    BY <1>3, ChooseStep
  <2> QED
    BY <1>2, <1>3, <2>1 DEF Chosen, history
<1>4. ASSUME NEW c \in Conns, Failed(c)
      PROVE  Turns'
  BY <1>0, <1>2, <1>4, BegunAnew DEF Failed
<1>5. ASSUME NEW b \in Backends, StatusChanges(b)
      PROVE  Turns'
  BY <1>0, <1>5, BegunAnew DEF StatusChanges
<1> QED
  BY <1>1, <1>2, <1>3, <1>4, <1>5
  DEF Next, vars, history, Arrive, ByRule, Look, Finish

LEMMA Safety == Spec => []Inv
<1>1. Inv /\ [Next]_vars => Inv'
  BY TypeStep, ChoosingStep, RuledStep, TurnsStep, MissedStep, OthersStep DEF Inv
<1> QED
  BY <1>1, InitInv, PTL DEF Spec

(***************************************************************************)
(* Theorems                                                                *)
(***************************************************************************)

\* Every variable keeps its type: above all, RoundRobin::next_item_index stays
\* below the number of backends, and the lists connections hold are lists of
\* backends, whatever the statuses and the other connections do.
THEOREM TypeCorrect == Spec => []TypeOK
<1>1. Inv => TypeOK
  BY DEF Inv
<1> QED
  BY <1>1, Safety, PTL

LEMMA RuledObeys ==
    ASSUME Ruled
    PROVE  RulesObeyed
<1> SUFFICES ASSUME NEW c \in Conns
             PROVE  LET ruled == host[c] \in DOMAIN Sections
                        named == Sections[host[c]].backend IN
                    /\ pc[c] = "got" /\ ruled => ~Sections[host[c]].direct /\ named \in {NoKey, pick[c]}
                    /\ pc[c] = "direct" => ruled /\ Sections[host[c]].direct
                    /\ pc[c] = "block" => ruled /\ named # NoKey
                    /\ pc[c] \in {"none", "choose"} /\ ruled => named = NoKey
  BY DEF RulesObeyed
<1> DEFINE h == host[c]
<1>1. /\ PeerBackendRule(h) = "Direct" => h \in DOMAIN Sections /\ Sections[h].direct
      /\ PeerBackendRule(h) = "GotBackend" =>
           h \in DOMAIN Sections /\ ~Sections[h].direct /\ Sections[h].backend # NoKey
      /\ PeerBackendRule(h) = "NoRule" /\ h \in DOMAIN Sections =>
           ~Sections[h].direct /\ Sections[h].backend = NoKey
  BY RoutingAssumption DEF PeerBackendRule, Ruler
<1> QED
  BY <1>1 DEF Ruled

\* The host rules are obeyed: whatever the loop of handle_connection has been
\* through, a host goes to the backend its rule names, or directly, or nowhere,
\* and a host without a rule is never blocked or sent out directly.
THEOREM RulesAreObeyed == Spec => []RulesObeyed
<1>1. Inv => RulesObeyed
  BY RuledObeys DEF Inv
<1> QED
  BY <1>1, Safety, PTL

\* Every algorithm but round robin finds a backend whenever the connection saw
\* one; least_loaded_time answers the first of the cheapest, and uri_hash an
\* available backend, which is the ring's own while all are Normal.
THEOREM AlgorithmsRight == Spec => []AlgorithmsAnswer
<1>1. Inv => AlgorithmsAnswer
  BY LeastLoadedRight, UriHashRight DEF Inv, TypeOK, AlgorithmsAnswer
<1> QED
  BY <1>1, Safety, PTL

\* What RoundRobinFair says of one step and one connection.
FairStep(c) ==
    /\ /\ balance = "RoundRobin"
       /\ pc[c] = "choose" /\ pc'[c] = "got"
       /\ items[c] = AvailableBackends
       => pick'[c] \notin seen
    /\ pc[c] = "choose" /\ pc'[c] = "none" /\ missLen # 0
       => Len(items[c]) < missLen

\* Only an algorithm's answer takes a connection on from there.
LEMMA OnlyChoose ==
    ASSUME Inv, [Next]_vars, NEW c \in Conns, pc[c] = "choose", pc'[c] # "choose"
    PROVE  Choose(c)
<1>0. pc \in [Conns -> {"idle", "ask", "choose", "got", "block", "direct", "none"}]
  BY DEF Inv, TypeOK
<1>1. \A d \in Conns : Arrive(d) \/ ByRule(d) \/ Look(d) \/ Finish(d) \/ Failed(d) => pc'[c] = "choose"
  BY <1>0 DEF Arrive, ByRule, Look, Finish, Failed, Leave, Got, Goto
<1>2. \A d \in Conns : Choose(d) => d = c
  BY <1>0 DEF Choose, Got, Goto
<1>3. ~UNCHANGED vars /\ \A b \in Backends : ~StatusChanges(b)
  BY DEF vars, StatusChanges
<1> QED
  BY <1>1, <1>2, <1>3 DEF Next

LEMMA ChoiceIsFair ==
    ASSUME Inv, [Next]_vars, NEW c \in Conns
    PROVE  FairStep(c)
<1>1. CASE pc[c] = "choose" /\ pc'[c] # "choose"
  <2>1. PICK b : Chosen(c, b)
    BY <1>1, OnlyChoose, ChooseStep
  <2>2. /\ TypeOK /\ next \in Nat /\ missLen \in Nat /\ up \in SUBSET Backends
        /\ items[c] \in Seq(Backends) /\ Len(items[c]) \in Nat
    BY ItemsTyped, RoutingAssumption DEF Inv, TypeOK
  <2>3. b # 0 => pc'[c] = "got" /\ pick'[c] = b
    BY <2>1, <2>2 DEF Chosen, Got, Goto, TypeOK
  <2>4. b = 0 => pc'[c] = "none"
    BY <2>1, <2>2 DEF Chosen, Got, Goto, TypeOK
  <2>5. ASSUME balance = "RoundRobin", b # 0, items[c] = AvailableBackends
        PROVE  b \notin seen
    <3> DEFINE list == AvailableBackends
    <3>1. next < Len(list) /\ b = list[next + 1]
      BY <2>1, <2>2, <2>5 DEF Chosen
    <3>2. seen \subseteq up /\ PassedFrom(list, next, seen)
      BY <3>1 DEF Inv, Turns
    <3>3. /\ list \in Seq(Backends) /\ Range(list) = up
          /\ \A i, j \in 1..Len(list) : list[i] = list[j] => i = j
      BY <2>2, AvailableFacts
    <3> HIDE DEF list
    <3> QED
      BY <2>2, <3>1, <3>2, <3>3, NextTurn
  <2>6. ASSUME b = 0, missLen # 0
        PROVE  Len(items[c]) < missLen
    <3>1. balance = "RoundRobin" /\ next < missLen
      BY <2>6 DEF Inv, Missed
    <3>2. next >= Len(items[c])
      BY <2>1, <2>6, <3>1 DEF Chosen
    <3> QED
      BY <2>2, <3>1, <3>2
  <2> QED
    BY <2>3, <2>4, <2>5, <2>6 DEF FairStep
<1> QED
  BY <1>1 DEF FairStep

\* While the set of Normal backends stays the same, round robin gives no backend
\* a second turn before every other had one, however the connections that ask it
\* interleave; and it misses twice in a row only on a shorter list.
THEOREM RoundRobinIsFair == Spec => RoundRobinFair
<1>1. Inv /\ [Next]_vars => \A c \in Conns : FairStep(c)
  BY ChoiceIsFair
<1>2. Inv /\ [Next]_vars =>
        [\A c \in Conns :
           /\ /\ balance = "RoundRobin"
              /\ pc[c] = "choose" /\ pc'[c] = "got"
              /\ items[c] = AvailableBackends
              => pick'[c] \notin seen
           /\ pc[c] = "choose" /\ pc'[c] = "none" /\ missLen # 0
              => Len(items[c]) < missLen]_vars
  BY <1>1 DEF FairStep
<1> QED
  BY <1>2, Safety, PTL DEF Spec, RoundRobinFair

=============================================================================
