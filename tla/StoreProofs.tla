----------------------------- MODULE StoreProofs -----------------------------
(***************************************************************************)
(* Proofs about the two stores that keep bytes within a budget,            *)
(* TensorStore and ActivationStore, for any values of their constants.     *)
(***************************************************************************)
EXTENDS TensorStore, ActivationStore, FiniteSetTheorems, SequenceTheorems,
        WellFoundedInduction, TLAPS

-----------------------------------------------------------------------------
(* Sums of costs. *)

\* Induction over numbers, with a set in the place of a predicate.
LEMMA InductiveSet ==
  ASSUME NEW S, 0 \in S, \A n \in Nat : n \in S => n + 1 \in S
  PROVE  Nat \subseteq S
  <1> SUFFICES ASSUME Nat \ S # {} PROVE FALSE
    OBVIOUS
  <1> DEFINE R == OpToRel(<, Nat)
             T == Nat \ S
  <1> HIDE DEF T
  <1>0. T \subseteq Nat /\ T # {}
    BY DEF T
  <1>1. \E n \in T : \A m \in T : ~(<<m, n>> \in R)
    BY <1>0, NatLessThanWellFounded, WFMin, Zenon
  <1> HIDE DEF R
  <1>2. PICK n \in T : \A m \in T : ~(<<m, n>> \in R)
    BY <1>1
  <1>3. \A m \in T : ~(m < n)
    BY <1>0, <1>2 DEF OpToRel, R
  <1>4. n # 0 /\ n - 1 \in Nat /\ n - 1 \notin T
    BY <1>0, <1>3 DEF T
  <1> QED
    BY <1>0, <1>4 DEF T

\* Entries with a cost, of a cache or of the account of captures.
Costed(E) == \A x \in E : x.cost \in Nat

\* The sums of the costs of a sequence are what their recursive definition says.
LEMMA CostsDefined ==
  ASSUME NEW E, Costed(E), NEW e \in Seq(E)
  PROVE  /\ Costs(e) \in [0..Len(e) -> Nat]
         /\ Costs(e)[0] = 0
         /\ \A n \in 1..Len(e) : Costs(e)[n] = Costs(e)[n - 1] + e[n].cost
  <1> DEFINE Sums(f, m) == /\ f \in [0..m -> Nat] /\ f[0] = 0
                           /\ \A n \in 1..m : f[n] = f[n - 1] + e[n].cost
             S == {m \in Nat : m <= Len(e) => \E f : Sums(f, m)}
  <1>0. Len(e) \in Nat /\ \A n \in 1..Len(e) : e[n].cost \in Nat
    <2>1. \A n \in 1..Len(e) : e[n] \in E
      OBVIOUS
    <2> QED
      BY <2>1 DEF Costed
  <1>1. 0 \in S
    <2> DEFINE z == [i \in 0..0 |-> 0]
    <2>1. z \in [0..0 -> Nat] /\ z[0] = 0 /\ 1..0 = {}
      OBVIOUS
    <2> HIDE DEF z
    <2>2. Sums(z, 0)
      BY <2>1
    <2> QED
      BY <2>2
  <1>2. ASSUME NEW m \in Nat, m \in S PROVE m + 1 \in S
    <2> HIDE DEF Sums
    <2> SUFFICES ASSUME m + 1 <= Len(e) PROVE \E f : Sums(f, m + 1)
      OBVIOUS
    <2>1. PICK f : Sums(f, m)
      BY <1>0, <1>2
    <2> USE DEF Sums
    <2> DEFINE g == [i \in 0..(m + 1) |-> IF i <= m THEN f[i] ELSE f[m] + e[m + 1].cost]
    <2>0. m \in 0..m /\ 0..m \subseteq 0..(m + 1) /\ m + 1 \in 0..(m + 1) /\ m + 1 \in 1..Len(e)
      BY <1>0
    <2>2. \A i \in 0..m : g[i] = f[i]
      BY <2>0
    <2>3. g[m + 1] = f[m] + e[m + 1].cost
      BY <2>0
    <2>4. g \in [0..(m + 1) -> Nat]
      BY <1>0, <2>0, <2>1
    <2> HIDE DEF g
    <2>5. ASSUME NEW n \in 1..(m + 1) PROVE g[n] = g[n - 1] + e[n].cost
      <3>1. CASE n = m + 1
        BY <2>2, <2>3, <3>1
      <3>2. CASE n # m + 1
        <4>1. n \in 1..m /\ n - 1 \in 0..m /\ n \in 0..m
          BY <3>2
        <4> QED
          BY <2>1, <2>2, <4>1
      <3> QED
        BY <3>1, <3>2
    <2>6. g[0] = 0
      BY <2>1, <2>2
    <2>7. Sums(g, m + 1)
      BY <2>4, <2>5, <2>6
    <2> QED
      BY <2>7
  <1>3. Nat \subseteq S
    <2> HIDE DEF S
    <2> QED
      BY <1>1, <1>2, InductiveSet
  <1>7. Len(e) \in S
    BY <1>0, <1>3
  <1>4. PICK f : Sums(f, Len(e))
    BY <1>0, <1>7
  <1>5. f = [n \in 0..Len(e) |-> IF n = 0 THEN 0 ELSE f[n - 1] + e[n].cost]
    BY <1>0, <1>4
  <1>6. Costs(e) = [n \in 0..Len(e) |-> IF n = 0 THEN 0 ELSE Costs(e)[n - 1] + e[n].cost]
    BY <1>5 DEF Costs
  <1>8. DOMAIN Costs(e) = 0..Len(e) /\ Costs(e)[0] = 0
    BY <1>0, <1>6
  <1>9. \A n \in 1..Len(e) : Costs(e)[n] = Costs(e)[n - 1] + e[n].cost
    BY <1>0, <1>6
  <1>10. \A n \in 0..Len(e) : Costs(e)[n] = f[n]
    <2> DEFINE U == {n \in Nat : n <= Len(e) => Costs(e)[n] = f[n]}
    <2>1. 0 \in U
      BY <1>4, <1>8
    <2>2. \A n \in Nat : n \in U => n + 1 \in U
      BY <1>0, <1>4, <1>9
    <2>3. Nat \subseteq U
      <3> HIDE DEF U
      <3> QED
        BY <2>1, <2>2, InductiveSet
    <2> QED
      BY <1>0, <2>3
  <1> HIDE DEF S
  <1>11. Costs(e) \in [0..Len(e) -> Nat]
    BY <1>0, <1>4, <1>6, <1>8, <1>10
  <1> QED
    BY <1>8, <1>9, <1>11

LEMMA Offsets ==
  \A a, m, k, n \in Nat : a + k <= n /\ m + 1 <= k =>
    /\ a + (m + 1) \in 1..n /\ (a + (m + 1)) - 1 = a + m
    /\ a \in 0..n /\ a + m \in 0..n /\ m + 1 \in 1..k
  OBVIOUS

\* The k entries of d after a cost what those of e after b cost.
CostAlike(d, a, e, b, k) ==
  /\ a + k <= Len(d) /\ b + k <= Len(e)
  /\ \A j \in 1..k : d[a + j].cost = e[b + j].cost

\* Equal costs have equal sums, wherever they are in two sequences.
LEMMA CostsShift ==
  ASSUME NEW E, Costed(E), NEW d \in Seq(E), NEW e \in Seq(E), NEW a \in Nat, NEW b \in Nat,
         NEW k \in Nat, CostAlike(d, a, e, b, k)
  PROVE  Costs(d)[a + k] - Costs(d)[a] = Costs(e)[b + k] - Costs(e)[b]
  <1>a. /\ a + k <= Len(d) /\ b + k <= Len(e)
        /\ \A j \in 1..k : d[a + j].cost = e[b + j].cost
    BY DEF CostAlike
  <1> DEFINE S == {m \in Nat : m <= k => Costs(d)[a + m] - Costs(d)[a] = Costs(e)[b + m] - Costs(e)[b]}
  <1>0. /\ Len(d) \in Nat /\ Len(e) \in Nat
        /\ a \in 0..Len(d) /\ b \in 0..Len(e)
    BY <1>a
  <1>1. /\ \A n \in 0..Len(d) : Costs(d)[n] \in Nat
        /\ \A n \in 1..Len(d) : Costs(d)[n] = Costs(d)[n - 1] + d[n].cost
        /\ \A n \in 0..Len(e) : Costs(e)[n] \in Nat
        /\ \A n \in 1..Len(e) : Costs(e)[n] = Costs(e)[n - 1] + e[n].cost
    BY CostsDefined
  <1>2. 0 \in S
    <2>1. a + 0 = a /\ b + 0 = b
      OBVIOUS
    <2>2. Costs(d)[a] \in Nat /\ Costs(e)[b] \in Nat
      BY <1>0, <1>1
    <2> HIDE DEF S
    <2>3. Costs(d)[a + 0] - Costs(d)[a] = Costs(e)[b + 0] - Costs(e)[b]
      BY <2>1, <2>2
    <2> QED
      BY <2>3 DEF S
  <1>3. ASSUME NEW m \in Nat, m \in S PROVE m + 1 \in S
    <2> SUFFICES ASSUME m + 1 <= k
                 PROVE  Costs(d)[a + (m + 1)] - Costs(d)[a] = Costs(e)[b + (m + 1)] - Costs(e)[b]
      OBVIOUS
    <2>1. Costs(d)[a + m] - Costs(d)[a] = Costs(e)[b + m] - Costs(e)[b]
      BY <1>3
    <2> HIDE DEF S
    <2>6. /\ a + (m + 1) \in 1..Len(d) /\ (a + (m + 1)) - 1 = a + m
          /\ b + (m + 1) \in 1..Len(e) /\ (b + (m + 1)) - 1 = b + m
          /\ a \in 0..Len(d) /\ a + m \in 0..Len(d) /\ b \in 0..Len(e) /\ b + m \in 0..Len(e)
          /\ m + 1 \in 1..k
      BY <1>0, <1>a, Offsets, Zenon
    <2>2. Costs(d)[a + (m + 1)] = Costs(d)[a + m] + d[a + (m + 1)].cost
      BY <1>1, <2>6
    <2>3. Costs(e)[b + (m + 1)] = Costs(e)[b + m] + e[b + (m + 1)].cost
      BY <1>1, <2>6
    <2>4. d[a + (m + 1)].cost = e[b + (m + 1)].cost
      BY <1>a, <2>6, Zenon
    <2>7. d[a + (m + 1)] \in E
      BY <2>6
    <2>8. d[a + (m + 1)].cost \in Nat
      BY <2>7 DEF Costed
    <2>5. /\ Costs(d)[a] \in Nat /\ Costs(d)[a + m] \in Nat
          /\ Costs(e)[b] \in Nat /\ Costs(e)[b + m] \in Nat
      BY <1>1, <2>6
    <2> DEFINE x0 == Costs(d)[a]
               x1 == Costs(d)[a + m]
               x2 == Costs(d)[a + (m + 1)]
               y0 == Costs(e)[b]
               y1 == Costs(e)[b + m]
               y2 == Costs(e)[b + (m + 1)]
               c  == d[a + (m + 1)].cost
    <2>9. /\ x0 \in Nat /\ x1 \in Nat /\ y0 \in Nat /\ y1 \in Nat /\ c \in Nat
          /\ x1 - x0 = y1 - y0 /\ x2 = x1 + c
      BY <2>1, <2>2, <2>5, <2>8
    <2>10. y2 = y1 + c
      BY <2>3, <2>4
    <2> HIDE DEF x0, x1, x2, y0, y1, y2, c
    <2>11. x2 - x0 = y2 - y0
      BY <2>9, <2>10
    <2> QED
      BY <2>11 DEF x0, x2, y0, y2
  <1>4. Nat \subseteq S
    <2> HIDE DEF S
    <2> QED
      BY <1>2, <1>3, InductiveSet
  <1> QED
    BY <1>4

\* In particular those of a common beginning.
LEMMA CostsOfPrefix ==
  ASSUME NEW E, Costed(E), NEW d \in Seq(E), NEW e \in Seq(E),
         NEW k \in Nat, k <= Len(d), k <= Len(e),
         \A j \in 1..k : d[j].cost = e[j].cost
  PROVE  Costs(d)[k] = Costs(e)[k]
  <1> DEFINE S == {n \in Nat : n <= k => Costs(d)[n] = Costs(e)[n]}
  <1>1. /\ Costs(d)[0] = 0 /\ Costs(e)[0] = 0
        /\ \A n \in 1..Len(d) : Costs(d)[n] = Costs(d)[n - 1] + d[n].cost
        /\ \A n \in 1..Len(e) : Costs(e)[n] = Costs(e)[n - 1] + e[n].cost
    BY CostsDefined
  <1>2. 0 \in S
    BY <1>1
  <1>3. ASSUME NEW n \in Nat, n \in S PROVE n + 1 \in S
    <2> SUFFICES ASSUME n + 1 <= k PROVE Costs(d)[n + 1] = Costs(e)[n + 1]
      OBVIOUS
    <2>1. Costs(d)[n] = Costs(e)[n]
      BY <1>3
    <2> HIDE DEF S
    <2>2. n + 1 \in 1..Len(d) /\ n + 1 \in 1..Len(e) /\ (n + 1) - 1 = n /\ n + 1 \in 1..k
      OBVIOUS
    <2>3. d[n + 1].cost = e[n + 1].cost
      BY <2>2
    <2>4. /\ Costs(d)[n + 1] = Costs(d)[n] + d[n + 1].cost
          /\ Costs(e)[n + 1] = Costs(e)[n] + e[n + 1].cost
      BY <1>1, <2>2
    <2> QED
      BY <2>1, <2>3, <2>4
  <1>4. Nat \subseteq S
    <2> HIDE DEF S
    <2> QED
      BY <1>2, <1>3, InductiveSet
  <1> QED
    BY <1>4

-----------------------------------------------------------------------------
(* What the operations of a cache keep. *)

Unique(entries) ==
  \A i, j \in 1..Len(entries) : entries[i].key = entries[j].key => i = j

\* Every entry of one sequence is in the other.
Within(d, e) == \A i \in 1..Len(d) : \E j \in 1..Len(e) : d[i] = e[j]

\* The entry of a key is found.
LEMMA PlaceFound ==
  ASSUME NEW E, NEW e \in Seq(E), NEW i \in 1..Len(e)
  PROVE  Place(e, e[i].key) \in 1..Len(e) /\ e[Place(e, e[i].key)].key = e[i].key
  BY DEF Place

\* pop() takes the entry of the key out, and its cost.
LEMMA WithoutKeeps ==
  ASSUME NEW E, Costed(E), NEW e \in Seq(E), Unique(e), NEW k
  PROVE  LET w == Without(e, k)
             p == Place(e, k)
         IN  /\ w \in Seq(E) /\ Unique(w) /\ Within(w, e)
             /\ \A i \in 1..Len(w) : w[i].key # k
             /\ \A i \in 1..Len(e) : e[i].key = k \/ \E j \in 1..Len(w) : w[j] = e[i]
             /\ IF \E i \in 1..Len(e) : e[i].key = k
                THEN /\ p \in 1..Len(e) /\ e[p].key = k /\ Len(w) = Len(e) - 1
                     /\ CostOf(w) = CostOf(e) - e[p].cost
                ELSE w = e
  <1> DEFINE w == Without(e, k)
             p == Place(e, k)
  <1>0. /\ Len(e) \in Nat /\ DOMAIN e = 1..Len(e)
        /\ \A i \in 1..Len(e) : e[i] \in E /\ e[i].cost \in Nat
    <2>1. \A i \in 1..Len(e) : e[i] \in E
      OBVIOUS
    <2> QED
      BY <2>1 DEF Costed
  <1>1. CASE ~\E i \in 1..Len(e) : e[i].key = k
    <2>1. w = e
      BY <1>0, <1>1 DEF Without
    <2> QED
      BY <1>1, <2>1 DEF Within
  <1>2. CASE \E i \in 1..Len(e) : e[i].key = k
    <2>1. p \in 1..Len(e) /\ e[p].key = k
      BY <1>2, PlaceFound
    <2>2. \A i \in 1..Len(e) : e[i].key = k <=> i = p
      BY <2>1 DEF Unique
    <2>3. w = [n \in 1..(Len(e) - 1) |-> IF n < p THEN e[n] ELSE e[n + 1]]
      BY <1>0, <1>2 DEF Without
    <2> HIDE DEF w, p
    <2>4. ASSUME NEW n \in 1..(Len(e) - 1)
          PROVE  /\ n \in 1..Len(e) /\ n + 1 \in 1..Len(e)
                 /\ w[n] = IF n < p THEN e[n] ELSE e[n + 1]
      BY <1>0, <2>3
    <2>5. w \in Seq(E) /\ Len(w) = Len(e) - 1
      <3>1. \A n \in 1..(Len(e) - 1) : w[n] \in E
        BY <1>0, <2>4
      <3>2. w \in [1..(Len(e) - 1) -> E] /\ Len(e) - 1 \in Nat
        BY <1>0, <2>1, <2>3, <3>1
      <3> QED
        BY <3>2
    <2>6. Unique(w)
      BY <1>0, <2>1, <2>4, <2>5 DEF Unique
    <2>7. Within(w, e)
      BY <2>4, <2>5 DEF Within
    <2>8. ASSUME NEW i \in 1..Len(w) PROVE w[i].key # k
      <3>1. i \in 1..(Len(e) - 1) /\ p \in Nat
        BY <1>0, <2>1, <2>5
      <3>2. i < p => i # p
        BY <3>1
      <3>3. ~(i < p) => i + 1 # p
        BY <3>1
      <3> QED
        BY <2>2, <2>4, <3>1, <3>2, <3>3
    <2>9. ASSUME NEW i \in 1..Len(e), e[i].key # k PROVE \E j \in 1..Len(w) : w[j] = e[i]
      <3>1. i # p /\ i \in Nat /\ p \in Nat
        BY <1>0, <2>1, <2>9
      <3>2. CASE i < p
        <4>1. i \in 1..(Len(e) - 1)
          BY <1>0, <2>1, <3>2
        <4> QED
          BY <2>4, <2>5, <3>2, <4>1
      <3>3. CASE i > p
        <4>1. i - 1 \in 1..(Len(e) - 1) /\ ~(i - 1 < p) /\ (i - 1) + 1 = i
          BY <1>0, <2>1, <3>3
        <4> QED
          BY <2>4, <2>5, <4>1
      <3> QED
        BY <3>1, <3>2, <3>3
    <2>10. CostOf(w) = CostOf(e) - e[p].cost
      <3> DEFINE q == p - 1
                 r == Len(w) - q
      <3>1. /\ q \in Nat /\ r \in Nat /\ p \in Nat /\ p = q + 1 /\ q <= Len(w) /\ q <= Len(e)
            /\ q + r = Len(w) /\ p + r = Len(e) /\ Len(w) \in Nat
            /\ \A j \in 1..q : j \in 1..(Len(e) - 1) /\ j < p
            /\ \A j \in 1..r : q + j \in 1..(Len(e) - 1) /\ ~(q + j < p) /\ (q + j) + 1 = p + j
        BY <1>0, <2>1, <2>5
      <3> HIDE DEF q, r
      <3>2. Costs(w)[q] = Costs(e)[q]
        <4>1. \A j \in 1..q : w[j].cost = e[j].cost
          BY <2>4, <3>1
        <4> QED
          BY <2>5, <3>1, <4>1, CostsOfPrefix
      <3>3. Costs(w)[q + r] - Costs(w)[q] = Costs(e)[p + r] - Costs(e)[p]
        <4>1. \A j \in 1..r : w[q + j].cost = e[p + j].cost
          BY <2>4, <3>1
        <4>2. CostAlike(w, q, e, p, r)
          BY <1>0, <3>1, <4>1 DEF CostAlike
        <4>3. w \in Seq(E) /\ q \in Nat /\ p \in Nat /\ r \in Nat
          BY <2>5, <3>1
        <4> QED
          BY <4>2, <4>3, CostsShift
      <3>4. /\ Costs(e)[p] = Costs(e)[q] + e[p].cost /\ e[p].cost \in Nat
            /\ Costs(e)[q] \in Nat /\ Costs(w)[Len(w)] \in Nat /\ Costs(e)[Len(e)] \in Nat
        <4>1. /\ Costs(w) \in [0..Len(w) -> Nat] /\ Costs(e) \in [0..Len(e) -> Nat]
              /\ \A n \in 1..Len(e) : Costs(e)[n] = Costs(e)[n - 1] + e[n].cost
          BY <2>5, CostsDefined
        <4>2. Len(w) \in 0..Len(w) /\ q \in 0..Len(e) /\ Len(e) \in 0..Len(e) /\ p - 1 = q
          BY <1>0, <3>1
        <4> QED
          BY <1>0, <2>1, <4>1, <4>2
      <3> DEFINE x == Costs(w)[Len(w)]
                 y == Costs(e)[Len(e)]
                 z == Costs(e)[q]
                 c == e[p].cost
      <3>5. x - z = y - (z + c) /\ x \in Nat /\ y \in Nat /\ z \in Nat /\ c \in Nat
        BY <3>1, <3>2, <3>3, <3>4
      <3> HIDE DEF x, y, z, c
      <3>6. x = y - c
        BY <3>5
      <3> QED
        BY <3>6 DEF CostOf, x, y, c
    <2> QED
      BY <1>2, <2>1, <2>5, <2>6, <2>7, <2>8, <2>9, <2>10 DEF w, p
  <1> QED
    BY <1>1, <1>2

\* A new last entry adds its cost.
LEMMA AppendCost ==
  ASSUME NEW E, Costed(E), NEW e \in Seq(E), NEW x \in E
  PROVE  /\ Append(e, x) \in Seq(E) /\ Len(Append(e, x)) = Len(e) + 1
         /\ Append(e, x)[Len(e) + 1] = x /\ \A i \in 1..Len(e) : Append(e, x)[i] = e[i]
         /\ CostOf(Append(e, x)) = CostOf(e) + x.cost
  <1> DEFINE a == Append(e, x)
  <1>1. /\ a \in Seq(E) /\ Len(a) = Len(e) + 1 /\ Len(e) \in Nat
        /\ a[Len(e) + 1] = x /\ \A i \in 1..Len(e) : a[i] = e[i]
    BY AppendProperties
  <1> HIDE DEF a
  <1>2. Costs(a)[Len(e)] = Costs(e)[Len(e)]
    <2>1. Len(e) <= Len(a) /\ Len(e) <= Len(e) /\ \A j \in 1..Len(e) : a[j].cost = e[j].cost
      BY <1>1
    <2> QED
      BY <1>1, <2>1, CostsOfPrefix
  <1>3. Costs(a)[Len(e) + 1] = Costs(a)[Len(e)] + x.cost
    <2>1. \A n \in 1..Len(a) : Costs(a)[n] = Costs(a)[n - 1] + a[n].cost
      BY <1>1, CostsDefined
    <2>2. Len(e) + 1 \in 1..Len(a) /\ (Len(e) + 1) - 1 = Len(e)
      BY <1>1
    <2> QED
      BY <1>1, <2>1, <2>2
  <1> QED
    BY <1>1, <1>2, <1>3 DEF CostOf, a

-----------------------------------------------------------------------------
(* The caches of a tensor store. *)

\* A cache as it should be: no key twice, and the account is the sum of the costs.
Sound(cache) ==
  /\ cache \in CacheType /\ Unique(cache.entries)
  /\ cache.current = CostOf(cache.entries)

LEMMA CacheCosted == Costed(CacheEntry)
  BY DEF Costed, CacheEntry

\* An empty cache is one.
LEMMA EmptyIsSound == Sound(EmptyCache) /\ EmptyCache.current = 0 /\ EmptyCache.entries = << >>
  <1>1. << >> \in Seq(CacheEntry) /\ Len(<< >>) = 0
    OBVIOUS
  <1>2. Costs(<< >>)[0] = 0
    BY <1>1, CostsDefined, CacheCosted
  <1> QED
    BY <1>1, <1>2 DEF EmptyCache, Sound, CacheType, Unique, CostOf

\* get() and peek() change nothing but the order.
LEMMA TouchKeeps ==
  ASSUME NEW c, Sound(c), NEW k \in Keys(c)
  PROVE  LET t == Touch(c, k)
         IN  /\ Sound(t) /\ Keys(t) = Keys(c) /\ t.current = c.current
             /\ Len(t.entries) = Len(c.entries) /\ Within(t.entries, c.entries)
  <1> DEFINE e == c.entries
             w == Without(e, k)
             p == Place(e, k)
             a == Append(w, e[p])
             t == Touch(c, k)
  <1>1. /\ c \in CacheType /\ e \in Seq(CacheEntry) /\ c.current \in Nat /\ Unique(e)
        /\ c.current = CostOf(e) /\ DOMAIN e = 1..Len(e) /\ Len(e) \in Nat
        /\ c = [entries |-> e, current |-> c.current]
    BY DEF Sound, CacheType
  <1>2. \E i \in 1..Len(e) : e[i].key = k
    BY <1>1 DEF Keys
  <1>3. t = [entries |-> a, current |-> c.current]
    <2>1. t = [c EXCEPT !.entries = a]
      BY DEF Touch, EntryFor
    <2> HIDE DEF a, t, e
    <2> QED
      BY <1>1, <2>1
  <1> HIDE DEF e
  <1>4. /\ w \in Seq(CacheEntry) /\ Unique(w) /\ Within(w, e)
        /\ \A i \in 1..Len(w) : w[i].key # k
        /\ \A i \in 1..Len(e) : e[i].key = k \/ \E j \in 1..Len(w) : w[j] = e[i]
        /\ p \in 1..Len(e) /\ e[p].key = k /\ Len(w) = Len(e) - 1
        /\ CostOf(w) = CostOf(e) - e[p].cost
    <2>1. e \in Seq(CacheEntry) /\ Unique(e)
      BY <1>1
    <2> QED
      BY <1>2, <2>1, WithoutKeeps, CacheCosted
  <1>5. e[p] \in CacheEntry /\ e[p].cost \in Nat
    <2>1. e[p] \in CacheEntry
      BY <1>1, <1>4
    <2> QED
      BY <2>1 DEF CacheEntry
  <1> HIDE DEF e, w, p, t
  <1>6. /\ a \in Seq(CacheEntry) /\ Len(a) = Len(w) + 1
        /\ a[Len(w) + 1] = e[p] /\ \A i \in 1..Len(w) : a[i] = w[i]
        /\ CostOf(a) = CostOf(w) + e[p].cost
    BY <1>4, <1>5, AppendCost, CacheCosted
  <1> HIDE DEF a
  <1>7. Len(a) = Len(e) /\ CostOf(a) = CostOf(e) /\ CostOf(e) \in Nat
    BY <1>1, <1>4, <1>5, <1>6
  <1>8. Unique(a)
    BY <1>1, <1>4, <1>6, <1>7 DEF Unique
  <1>9. Within(a, e)
    BY <1>1, <1>4, <1>6, <1>7 DEF Within
  <1>10. \A i \in 1..Len(e) : \E j \in 1..Len(a) : a[j].key = e[i].key
    <2> SUFFICES ASSUME NEW i \in 1..Len(e) PROVE \E j \in 1..Len(a) : a[j].key = e[i].key
      OBVIOUS
    <2>1. CASE e[i].key = k
      <3>1. Len(w) + 1 \in 1..Len(a)
        BY <1>1, <1>4, <1>7
      <3> QED
        BY <1>4, <1>6, <2>1, <3>1
    <2>2. CASE e[i].key # k
      <3>1. PICK j \in 1..Len(w) : w[j] = e[i]
        BY <1>4, <2>2
      <3>2. j \in 1..Len(a)
        BY <1>1, <1>4, <1>7
      <3> QED
        BY <1>6, <3>1, <3>2
    <2> QED
      BY <2>1, <2>2
  <1>11. Keys(t) = Keys(c)
    <2>1. DOMAIN a = 1..Len(a) /\ t.entries = a
      BY <1>3, <1>6
    <2>2. Keys(t) = {a[i].key : i \in 1..Len(a)} /\ Keys(c) = {e[i].key : i \in 1..Len(e)}
      BY <1>1, <2>1 DEF Keys, e
    <2>3. \A i \in 1..Len(a) : \E j \in 1..Len(e) : a[i].key = e[j].key
      BY <1>9 DEF Within
    <2>4. Keys(t) \subseteq Keys(c)
      BY <2>2, <2>3
    <2>5. Keys(c) \subseteq Keys(t)
      BY <1>10, <2>2
    <2> QED
      BY <2>4, <2>5
  <1>12. Sound(t)
    BY <1>1, <1>3, <1>6, <1>7, <1>8 DEF Sound, CacheType
  <1> QED
    BY <1>3, <1>7, <1>9, <1>11, <1>12 DEF e, t

\* Eviction keeps the newest entry, and stops when the limit is kept.
LEMMA EvictKeeps ==
  ASSUME NEW e \in Seq(CacheEntry), Len(e) > 0, Unique(e), NEW limit \in Nat
  PROVE  LET v == Evict(e, CostOf(e), limit)
         IN  /\ Sound(v) /\ Within(v.entries, e)
             /\ Len(v.entries) > 0 /\ v.entries[Len(v.entries)] = e[Len(e)]
             /\ v.current <= limit \/ Len(v.entries) = 1
  <1> DEFINE left(n) == CostOf(e) - Costs(e)[n]
             fits(n) == left(n) <= limit \/ n = Len(e) - 1
             F == {n \in 0..(Len(e) - 1) : fits(n)}
             R == OpToRel(<, Nat)
             first(n) == fits(n) /\ \A m \in 0..(n - 1) : ~fits(m)
             d == CHOOSE n \in 0..(Len(e) - 1) : first(n)
             s == SubSeq(e, d + 1, Len(e))
             v == Evict(e, CostOf(e), limit)
  <1>0. /\ Len(e) \in Nat /\ Len(e) - 1 \in 0..(Len(e) - 1)
        /\ Costs(e) \in [0..Len(e) -> Nat]
    BY CostsDefined, CacheCosted
  <1>1. F \subseteq Nat /\ F # {}
    <2>1. Len(e) - 1 \in F
      BY <1>0
    <2> QED
      BY <1>0, <2>1
  <1>2. \E n \in 0..(Len(e) - 1) : first(n)
    <2> HIDE DEF F
    <2>1. \E n \in F : \A m \in F : ~(<<m, n>> \in R)
      BY <1>1, NatLessThanWellFounded, WFMin, Zenon
    <2> HIDE DEF R
    <2>2. PICK n \in F : \A m \in F : ~(<<m, n>> \in R)
      BY <2>1
    <2>3. \A m \in F : ~(m < n)
      BY <1>1, <2>2 DEF OpToRel, R
    <2>4. n \in 0..(Len(e) - 1) /\ fits(n)
      BY <2>2 DEF F
    <2> HIDE DEF fits
    <2>5. ASSUME NEW m \in 0..(n - 1) PROVE ~fits(m)
      <3>1. m < n /\ m \in 0..(Len(e) - 1)
        BY <1>0, <2>4
      <3> QED
        BY <2>3, <3>1 DEF F
    <2> QED
      BY <2>4, <2>5
  <1>3. d \in 0..(Len(e) - 1) /\ fits(d)
    <2> HIDE DEF fits
    <2> QED
      BY <1>2
  <1>4. v = [entries |-> s, current |-> left(d)]
    BY DEF Evict
  <1> HIDE DEF F, R, d, v
  <1>5. /\ s \in Seq(CacheEntry) /\ Len(s) = Len(e) - d
        /\ \A i \in 1..Len(s) : s[i] = e[d + i] /\ d + i \in 1..Len(e)
    <2> DEFINE m == d + 1
               n == Len(e)
    <2>1. /\ m \in Int /\ n \in Int /\ m <= n /\ n - m + 1 = Len(e) - d /\ n = Len(e)
          /\ d \in Nat /\ m = d + 1
      BY <1>0, <1>3
    <2>2. \A i \in m..n : e[i] \in CacheEntry
      <3>1. \A i \in m..n : i \in 1..Len(e)
        BY <1>0, <2>1
      <3> QED
        BY <3>1
    <2>3. s = SubSeq(e, m, n)
      OBVIOUS
    <2> HIDE DEF m, n, s
    <2>4. /\ s \in Seq(CacheEntry) /\ Len(s) = IF m <= n THEN n - m + 1 ELSE 0
          /\ \A i \in 1..(n - m + 1) : s[i] = e[m + i - 1]
      BY <2>1, <2>2, <2>3, SubSeqProperties
    <2>5. Len(s) = n - m + 1
      BY <2>1, <2>4
    <2>6. ASSUME NEW i \in 1..Len(s) PROVE s[i] = e[d + i] /\ d + i \in 1..Len(e)
      <3>1. i \in 1..(n - m + 1) /\ m + i - 1 = d + i /\ d + i \in 1..Len(e)
        BY <1>0, <2>1, <2>5
      <3> QED
        BY <2>4, <3>1
    <2> QED
      BY <2>1, <2>4, <2>5, <2>6
  <1> HIDE DEF s
  <1>6. CostOf(s) = left(d) /\ left(d) \in Nat
    <2>1. CostAlike(s, 0, e, d, Len(e) - d)
      BY <1>0, <1>3, <1>5 DEF CostAlike
    <2>2. Len(e) - d \in Nat /\ d \in Nat /\ 0 \in Nat /\ 0 + (Len(e) - d) = Len(s) /\ d + (Len(e) - d) = Len(e)
      BY <1>0, <1>3, <1>5
    <2>3. Costs(s)[0 + (Len(e) - d)] - Costs(s)[0] = Costs(e)[d + (Len(e) - d)] - Costs(e)[d]
      BY <1>5, <2>1, <2>2, CostsShift, CacheCosted
    <2>4. /\ Costs(s) \in [0..Len(s) -> Nat] /\ Costs(s)[0] = 0 /\ Len(s) \in 0..Len(s)
          /\ d \in 0..Len(e) /\ Len(e) \in 0..Len(e)
      <3>1. Costs(s) \in [0..Len(s) -> Nat] /\ Costs(s)[0] = 0
        BY <1>5, CostsDefined, CacheCosted
      <3>2. Len(s) \in Nat /\ d \in Nat /\ d <= Len(e)
        BY <1>0, <1>3, <2>2
      <3> QED
        BY <1>0, <3>1, <3>2
    <2>5. Costs(s)[Len(s)] \in Nat /\ Costs(e)[Len(e)] \in Nat /\ Costs(e)[d] \in Nat
      BY <1>0, <2>4
    <2>6. Costs(s)[Len(s)] - 0 = Costs(e)[Len(e)] - Costs(e)[d]
      BY <2>2, <2>3, <2>4
    <2> QED
      BY <2>5, <2>6 DEF CostOf
  <1>7. Unique(s)
    <2> SUFFICES ASSUME NEW i \in 1..Len(s), NEW j \in 1..Len(s), s[i].key = s[j].key PROVE i = j
      BY DEF Unique
    <2>1. e[d + i].key = e[d + j].key /\ d + i \in 1..Len(e) /\ d + j \in 1..Len(e)
      BY <1>5
    <2>2. d + i = d + j
      BY <2>1 DEF Unique
    <2> QED
      BY <1>3, <2>2
  <1>8. Within(s, e)
    BY <1>5 DEF Within
  <1>9. Len(s) > 0 /\ s[Len(s)] = e[Len(e)]
    <2>1. Len(s) \in 1..Len(s) /\ d + Len(s) = Len(e) /\ Len(s) > 0
      BY <1>0, <1>3, <1>5
    <2> QED
      BY <1>5, <2>1
  <1>10. left(d) <= limit \/ Len(s) = 1
    BY <1>0, <1>3, <1>5
  <1>11. Sound(v)
    BY <1>4, <1>5, <1>6, <1>7 DEF Sound, CacheType
  <1> QED
    BY <1>4, <1>8, <1>9, <1>10, <1>11 DEF v

\* put() keeps the account true and the limit, and a cache that admits oversized
\* entries has the new one.
LEMMA PutKeeps ==
  ASSUME NEW c, Sound(c), NEW x \in CacheEntry, NEW limit \in Nat, NEW oversized \in BOOLEAN
  PROVE  LET v == Put(c, x, limit, oversized)
         IN  /\ Sound(v)
             /\ \A i \in 1..Len(v.entries) :
                  v.entries[i] = x \/ \E j \in 1..Len(c.entries) : v.entries[i] = c.entries[j]
             /\ Keys(v) \subseteq Keys(c) \cup {x.key}
             /\ oversized => x.key \in Keys(v) /\ (v.current <= limit \/ Len(v.entries) = 1)
             /\ ~oversized /\ c.current <= limit => v.current <= limit
  <1> DEFINE e == c.entries
             k == x.key
             w == Without(e, k)
             p == Place(e, k)
             a == Append(w, x)
             kept == IF Holds(c, k) THEN c.current - EntryFor(c, k).cost ELSE c.current
             v == Put(c, x, limit, oversized)
  <1>1. /\ c \in CacheType /\ e \in Seq(CacheEntry) /\ c.current \in Nat /\ Unique(e)
        /\ c.current = CostOf(e) /\ DOMAIN e = 1..Len(e) /\ Len(e) \in Nat
    BY DEF Sound, CacheType
  <1>2. Keys(c) = {e[i].key : i \in 1..Len(e)} /\ (Holds(c, k) <=> \E i \in 1..Len(e) : e[i].key = k)
    BY <1>1 DEF Keys, Holds
  <1>3. /\ w \in Seq(CacheEntry) /\ Unique(w) /\ Within(w, e)
        /\ \A i \in 1..Len(w) : w[i].key # k
        /\ IF \E i \in 1..Len(e) : e[i].key = k
           THEN p \in 1..Len(e) /\ CostOf(w) = CostOf(e) - e[p].cost
           ELSE w = e
    <2> HIDE DEF e, k
    <2>1. e \in Seq(CacheEntry) /\ Unique(e)
      BY <1>1
    <2> QED
      BY <2>1, WithoutKeeps, CacheCosted
  <1>4. kept = CostOf(w) /\ kept \in Nat /\ kept <= c.current
    <2>1. CASE Holds(c, k)
      <3>1. p \in 1..Len(e) /\ CostOf(w) = CostOf(e) - e[p].cost
        BY <1>2, <1>3, <2>1
      <3>2. kept = c.current - e[p].cost
        BY <2>1 DEF EntryFor
      <3>3. e[p] \in CacheEntry
        BY <1>1, <3>1
      <3>4. e[p].cost \in Nat
        BY <3>3 DEF CacheEntry
      <3>5. CostOf(w) \in Nat
        <4> HIDE DEF w
        <4>1. Costs(w) \in [0..Len(w) -> Nat] /\ Len(w) \in 0..Len(w)
          BY <1>3, CostsDefined, CacheCosted
        <4> QED
          BY <4>1 DEF CostOf
      <3> HIDE DEF kept, w, p
      <3> QED
        BY <1>1, <3>1, <3>2, <3>4, <3>5
    <2>2. CASE ~Holds(c, k)
      BY <1>1, <1>2, <1>3, <2>2
    <2> QED
      BY <2>1, <2>2
  <1>5. x.cost \in Nat
    BY DEF CacheEntry
  <1>6. v = IF x.cost > limit /\ ~oversized THEN [entries |-> w, current |-> kept]
            ELSE Evict(a, kept + x.cost, limit)
    BY DEF Put
  <1>7. /\ a \in Seq(CacheEntry) /\ Len(a) = Len(w) + 1 /\ Len(w) \in Nat
        /\ a[Len(w) + 1] = x /\ \A i \in 1..Len(w) : a[i] = w[i]
        /\ CostOf(a) = CostOf(w) + x.cost
    <2> HIDE DEF w
    <2> QED
      BY <1>3, AppendCost, CacheCosted
  <1> HIDE DEF e, k, w, p, a, kept, v
  <1>8. CASE x.cost > limit /\ ~oversized
    <2>1. v.entries = w /\ v.current = kept /\ v \in CacheType
      BY <1>3, <1>4, <1>6, <1>8 DEF CacheType
    <2>2. Sound(v)
      BY <1>3, <1>4, <2>1 DEF Sound
    <2>3. DOMAIN w = 1..Len(w)
      BY <1>3
    <2>5. \A i \in 1..Len(w) : \E j \in 1..Len(e) : w[i] = e[j]
      BY <1>3 DEF Within
    <2>6. Keys(v) = {w[i].key : i \in 1..Len(w)}
      BY <2>1, <2>3 DEF Keys
    <2>7. \A i \in 1..Len(w) : \E j \in 1..Len(e) : w[i].key = e[j].key
      BY <2>5
    <2>4. Keys(v) \subseteq Keys(c)
      BY <1>2, <2>6, <2>7
    <2> QED
      BY <1>1, <1>4, <1>8, <2>1, <2>2, <2>4, <2>5 DEF v, e
  <1>9. CASE ~(x.cost > limit /\ ~oversized)
    <2>0. v = Evict(a, CostOf(a), limit)
      BY <1>4, <1>6, <1>7, <1>9
    <2>1. Unique(a)
      <3> SUFFICES ASSUME NEW i \in 1..Len(a), NEW j \in 1..Len(a), a[i].key = a[j].key PROVE i = j
        BY DEF Unique
      <3>1. /\ i \in 1..Len(w) \/ i = Len(w) + 1
            /\ j \in 1..Len(w) \/ j = Len(w) + 1
        BY <1>7
      <3>2. \A n \in 1..Len(w) : a[n].key # k
        BY <1>3, <1>7
      <3>3. a[Len(w) + 1].key = k
        BY <1>7 DEF k
      <3>4. i \in 1..Len(w) /\ j \in 1..Len(w) => i = j
        BY <1>3, <1>7 DEF Unique
      <3> QED
        BY <3>1, <3>2, <3>3, <3>4
    <2>2. Len(a) > 0
      BY <1>7
    <2>3. /\ Sound(v) /\ Within(v.entries, a)
          /\ Len(v.entries) > 0 /\ v.entries[Len(v.entries)] = a[Len(a)]
          /\ v.current <= limit \/ Len(v.entries) = 1
      BY <1>7, <2>0, <2>1, <2>2, EvictKeeps
    <2> DEFINE u == v.entries
    <2>4. u \in Seq(CacheEntry) /\ DOMAIN u = 1..Len(u) /\ Len(u) \in Nat /\ Len(u) \in 1..Len(u)
      BY <2>3 DEF Sound, CacheType
    <2>5. u[Len(u)] = x
      BY <1>7, <2>3
    <2>6. ASSUME NEW i \in 1..Len(u) PROVE u[i] = x \/ \E j \in 1..Len(e) : u[i] = e[j]
      <3>1. PICK n \in 1..Len(a) : u[i] = a[n]
        BY <2>3 DEF Within
      <3>2. n = Len(w) + 1 \/ n \in 1..Len(w)
        BY <1>7
      <3>3. CASE n \in 1..Len(w)
        BY <1>3, <1>7, <3>1, <3>3 DEF Within
      <3> QED
        BY <1>7, <3>1, <3>2, <3>3
    <2>7. Keys(v) = {u[i].key : i \in 1..Len(u)}
      BY <2>4 DEF Keys
    <2>8. Keys(v) \subseteq Keys(c) \cup {k}
      BY <1>2, <2>6, <2>7 DEF k
    <2>9. k \in Keys(v)
      BY <2>4, <2>5, <2>7 DEF k
    <2>10. Len(u) = 1 => v.current = x.cost
      <3>1. ASSUME Len(u) = 1 PROVE CostOf(u) = x.cost
        <4>1. /\ Costs(u)[0] = 0 /\ \A n \in 1..Len(u) : Costs(u)[n] = Costs(u)[n - 1] + u[n].cost
          BY <2>4, CostsDefined, CacheCosted
        <4>2. Costs(u)[1] = 0 + x.cost
          BY <2>5, <3>1, <4>1
        <4> QED
          BY <1>5, <3>1, <4>2 DEF CostOf
      <3> QED
        BY <2>3, <3>1 DEF Sound
    <2>11. ~oversized => v.current <= limit
      BY <1>5, <1>9, <2>3, <2>10
    <2> QED
      BY <2>3, <2>6, <2>8, <2>9, <2>11 DEF v, e, k
  <1> QED
    BY <1>8, <1>9

\* The two ways in which the store puts: a typed tensor, however large, and a slice.
LEMMA ParsedKeeps ==
  ASSUME NEW c, Sound(c), NEW x \in CacheEntry, NEW limit \in Nat
  PROVE  LET v == Put(c, x, limit, TRUE)
         IN  /\ Sound(v) /\ (v.current <= limit \/ Len(v.entries) = 1)
             /\ Keys(v) \subseteq Keys(c) \cup {x.key}
  <1> DEFINE oversized == TRUE
             v == Put(c, x, limit, oversized)
  <1>1. oversized \in BOOLEAN /\ oversized
    OBVIOUS
  <1> HIDE DEF oversized
  <1>2. /\ Sound(v) /\ (v.current <= limit \/ Len(v.entries) = 1)
        /\ Keys(v) \subseteq Keys(c) \cup {x.key}
    BY <1>1, PutKeeps
  <1> QED
    BY <1>2 DEF oversized

LEMMA ParsedFrom ==
  ASSUME NEW c, Sound(c), NEW x \in CacheEntry, NEW limit \in Nat,
         NEW i \in 1..Len(Put(c, x, limit, TRUE).entries)
  PROVE  \/ Put(c, x, limit, TRUE).entries[i] = x
         \/ \E j \in 1..Len(c.entries) : Put(c, x, limit, TRUE).entries[i] = c.entries[j]
  <1> DEFINE oversized == TRUE
             v == Put(c, x, limit, oversized)
  <1>1. oversized \in BOOLEAN
    OBVIOUS
  <1>2. i \in 1..Len(v.entries)
    OBVIOUS
  <1> HIDE DEF oversized
  <1>3. \A n \in 1..Len(v.entries) :
          v.entries[n] = x \/ \E j \in 1..Len(c.entries) : v.entries[n] = c.entries[j]
    BY <1>1, PutKeeps
  <1>4. v.entries[i] = x \/ \E j \in 1..Len(c.entries) : v.entries[i] = c.entries[j]
    BY <1>2, <1>3
  <1> QED
    BY <1>4 DEF oversized

LEMMA SlicePutKeeps ==
  ASSUME NEW c, Sound(c), NEW x \in CacheEntry, NEW limit \in Nat, c.current <= limit
  PROVE  LET v == Put(c, x, limit, FALSE)
         IN  /\ Sound(v) /\ v.current <= limit
             /\ \A i \in 1..Len(v.entries) :
                  v.entries[i] = x \/ \E j \in 1..Len(c.entries) : v.entries[i] = c.entries[j]
  <1> DEFINE oversized == FALSE
             v == Put(c, x, limit, oversized)
  <1>1. oversized \in BOOLEAN /\ ~oversized /\ c.current <= limit
    OBVIOUS
  <1> HIDE DEF oversized
  <1>2. ~oversized /\ c.current <= limit => v.current <= limit
    BY <1>1, PutKeeps
  <1>3. /\ Sound(v)
        /\ \A i \in 1..Len(v.entries) :
             v.entries[i] = x \/ \E j \in 1..Len(c.entries) : v.entries[i] = c.entries[j]
    BY <1>1, PutKeeps
  <1> QED
    BY <1>1, <1>2, <1>3 DEF oversized

-----------------------------------------------------------------------------
(* The invariant. *)

\* The threads in the critical section of their file, and those about to have a reader.
Working(r)    == thread[r].pc \in {"locked", "hashing", "verified", "reading"}
Opening(r, f) == thread[r].pc \in {"hashing", "verified"} /\ thread[r].file = f

\* The lock of a file is held by the thread that works on it.
LocksHeld ==
  \A f \in Files, r \in Threads : holder[f] = r <=> Working(r) /\ thread[r].file = f

\* A thread wants slices of its file, and at least one when it opens it.
WantedThere ==
  \A r \in Threads :
    /\ \A k \in thread[r].todo \cup thread[r].missing : FileOf[k] = thread[r].file
    /\ thread[r].pc \in {"hashing", "verified"} => thread[r].missing # {}

\* An open descriptor is the store's, or one that close() still has, or a thread's that
\* verifies it.
OpenOwned ==
  \A f \in Files, r \in Threads :
    descriptor[f][r] # "closed" => readers[f] = r \/ <<f, r>> \in doomed \/ Opening(r, f)

\* The store's readers are open, and there are none once close() has begun.
ReadersOpen ==
  \A f \in Files : \A r \in Threads :
    readers[f] = r => closing = "open" /\ descriptor[f][r] # "closed"

\* What close() still has to close is open, one reader of a file at most.
DoomedOpen ==
  \A f \in Files, r \in Threads : <<f, r>> \in doomed =>
    /\ closing = "closing" /\ descriptor[f][r] # "closed"
    /\ \A q \in Threads : <<f, q>> \in doomed => q = r

\* A thread opens a file that has no reader.
OpeningAlone ==
  \A f \in Files, r \in Threads : Opening(r, f) =>
    /\ descriptor[f][r] # "closed"
    /\ \A q \in Threads : readers[f] # q /\ <<f, q>> \notin doomed

\* A thread reads from the store's reader, or from the one close() waits to close.
ReadFrom ==
  \A r \in Threads : thread[r].pc = "reading" =>
    /\ thread[r].by \in Threads
    /\ readers[thread[r].file] = thread[r].by \/ <<thread[r].file, thread[r].by>> \in doomed

\* A descriptor that leads to changed bytes of a hashed file is not verified yet, or the
\* file was overwritten.
ChangedFound ==
  \A f \in Hashed, r \in Threads : descriptor[f][r] = "changed" =>
    f \in overwritten \/ (thread[r].pc = "hashing" /\ thread[r].file = f)

\* Changed bytes that are held, cached or returned are of a file that was overwritten.
Stained(f) == f \in Hashed => f \in overwritten

CacheTrue(cache) ==
  \A i \in 1..Len(cache.entries) : cache.entries[i].bad => Stained(FileOf[cache.entries[i].key])

ThreadsTrue == \A r \in Threads : thread[r].bad => Stained(thread[r].file)
StainedTrue == \A f \in stained : Stained(f)
BytesTrue   == ThreadsTrue /\ StainedTrue /\ CacheTrue(slices) /\ CacheTrue(typed)

\* A typed tensor that was parsed is in the cache, and one that a thread will parse is not.
TypedKept ==
  /\ produced \cap Typed \subseteq Keys(typed)
  /\ \A r \in Threads : thread[r].pc \in {"locked", "hashing", "verified"} =>
       thread[r].missing \cap Typed \cap Keys(typed) = {}
  /\ repeated \cap Typed = {}

Caches == Sound(slices) /\ Sound(typed)

Descriptors ==
  LocksHeld /\ OpenOwned /\ ReadersOpen /\ DoomedOpen /\ OpeningAlone /\ ReadFrom

IInv ==
  TypeOK /\ Caches /\ WantedThere /\ Descriptors /\ ChangedFound /\ BytesTrue /\ TypedKept

ThreadType ==
  [pc : {"idle", "looking", "locked", "hashing", "verified", "reading", "putting"},
   file : Files, group : BOOLEAN, todo : SUBSET Slices, missing : SUBSET Slices,
   by : Threads \cup {NoOne}, left : Nat, bad : BOOLEAN]

\* A lookup moves a slice out of what is to be looked up, and touches its cache if it is
\* there.
LEMMA LookUpEffect ==
  ASSUME IInv, NEW r \in Threads, NEW k \in Slices, LookUp(r, k)
  PROVE  /\ thread' \in [Threads -> ThreadType]
         /\ \A q \in Threads :
              /\ thread'[q].pc = thread[q].pc /\ thread'[q].file = thread[q].file
              /\ thread'[q].by = thread[q].by
              /\ thread'[q].bad = thread[q].bad
              /\ q # r => thread'[q] = thread[q]
         /\ thread'[r].todo \cup thread'[r].missing \subseteq thread[r].todo \cup thread[r].missing
         /\ \A j \in thread'[r].missing : j \in thread[r].missing \/ (j = k /\ ~Holds(CacheOf(k), k))
         /\ thread[r].missing \subseteq thread'[r].missing
         /\ \/ UNCHANGED <<slices, typed, stained>>
            \/ /\ k \in Typed /\ k \in Keys(typed) /\ typed' = Touch(typed, k) /\ UNCHANGED slices
               /\ stained' = stained \/ (EntryFor(typed, k).bad /\ stained' = stained \cup {FileOf[k]})
            \/ /\ k \notin Typed /\ k \in Keys(slices) /\ slices' = Touch(slices, k) /\ UNCHANGED typed
               /\ stained' = stained \/ (EntryFor(slices, k).bad /\ stained' = stained \cup {FileOf[k]})
         /\ thread[r].pc \in {"looking", "locked"} /\ k \in thread[r].todo
         /\ UNCHANGED <<disk, overwritten, closing, doomed, descriptor, readers, holder, produced, repeated>>
  <1> DEFINE t == thread[r]
             found == [t EXCEPT !.todo = @ \ {k}]
             gone  == [t EXCEPT !.todo = @ \ {k}, !.missing = @ \cup {k}]
  <1>1. thread \in [Threads -> ThreadType] /\ t \in ThreadType
    BY DEF IInv, TypeOK, ThreadType
  <1>2. /\ found \in ThreadType /\ gone \in ThreadType
        /\ found.pc = t.pc /\ found.file = t.file /\ found.by = t.by /\ found.bad = t.bad
        /\ gone.pc = t.pc /\ gone.file = t.file /\ gone.by = t.by /\ gone.bad = t.bad
        /\ found.todo = t.todo \ {k} /\ gone.todo = t.todo \ {k}
        /\ found.missing = t.missing /\ gone.missing = t.missing \cup {k}
    BY <1>1 DEF ThreadType
  <1>3. /\ t.pc \in {"looking", "locked"} /\ k \in t.todo
        /\ UNCHANGED <<disk, overwritten, closing, doomed, descriptor, readers, holder, produced, repeated>>
    BY DEF LookUp, At, outside, files
  <1>4. \/ /\ Holds(CacheOf(k), k) /\ thread' = [thread EXCEPT ![r] = found]
           /\ IF k \in Typed THEN typed' = Touch(typed, k) /\ UNCHANGED slices
                             ELSE slices' = Touch(slices, k) /\ UNCHANGED typed
           /\ stained' = IF EntryFor(CacheOf(k), k).bad THEN stained \cup {FileOf[k]} ELSE stained
        \/ /\ ~Holds(CacheOf(k), k) /\ thread' = [thread EXCEPT ![r] = gone]
           /\ UNCHANGED <<slices, typed, stained>>
    BY DEF LookUp, Going, Returned
  <1> HIDE DEF found, gone
  <1>5. CASE /\ Holds(CacheOf(k), k) /\ thread' = [thread EXCEPT ![r] = found]
             /\ IF k \in Typed THEN typed' = Touch(typed, k) /\ UNCHANGED slices
                               ELSE slices' = Touch(slices, k) /\ UNCHANGED typed
             /\ stained' = IF EntryFor(CacheOf(k), k).bad THEN stained \cup {FileOf[k]} ELSE stained
    <2>1. /\ thread' \in [Threads -> ThreadType] /\ thread'[r] = found
          /\ \A q \in Threads : q # r => thread'[q] = thread[q]
      BY <1>1, <1>2, <1>5
    <2>2. /\ thread'[r].todo \cup thread'[r].missing \subseteq t.todo \cup t.missing
          /\ thread'[r].missing = t.missing
      BY <1>2, <2>1
    <2>3. \A q \in Threads :
              /\ thread'[q].pc = thread[q].pc /\ thread'[q].file = thread[q].file
              /\ thread'[q].by = thread[q].by /\ thread'[q].bad = thread[q].bad
      BY <1>2, <2>1, Zenon
    <2>4. CASE k \in Typed
      BY <1>3, <1>5, <2>1, <2>2, <2>3, <2>4 DEF CacheOf, Holds
    <2>5. CASE k \notin Typed
      BY <1>3, <1>5, <2>1, <2>2, <2>3, <2>5 DEF CacheOf, Holds
    <2> QED
      BY <2>4, <2>5
  <1>6. CASE /\ ~Holds(CacheOf(k), k) /\ thread' = [thread EXCEPT ![r] = gone]
             /\ UNCHANGED <<slices, typed, stained>>
    <2>1. /\ thread' \in [Threads -> ThreadType] /\ thread'[r] = gone
          /\ \A q \in Threads : q # r => thread'[q] = thread[q]
      BY <1>1, <1>2, <1>6
    <2>2. /\ thread'[r].todo \cup thread'[r].missing \subseteq t.todo \cup t.missing
          /\ thread'[r].missing = t.missing \cup {k}
      BY <1>2, <1>3, <2>1
    <2>3. \A q \in Threads :
              /\ thread'[q].pc = thread[q].pc /\ thread'[q].file = thread[q].file
              /\ thread'[q].by = thread[q].by /\ thread'[q].bad = thread[q].bad
      BY <1>2, <2>1, Zenon
    <2> QED
      BY <1>3, <1>6, <2>1, <2>2, <2>3
  <1> QED
    BY <1>4, <1>5, <1>6

\* close() takes the readers over.
LEMMA BeginCloseEffect ==
  ASSUME IInv, BeginClose
  PROVE  /\ \A f \in Files, r \in Threads : <<f, r>> \in doomed' <=> readers[f] = r
         /\ \A f \in Files, r \in Threads : readers'[f] # r
         /\ \A f \in Files, r \in Threads : <<f, r>> \notin doomed
         /\ closing = "open" /\ closing' = "closing"
         /\ UNCHANGED <<descriptor, holder, thread>>
  <1>1. doomed' = {<<f, readers[f]>> : f \in {g \in Files : readers[g] # NoOne}}
    BY DEF BeginClose
  <1>2. ASSUME NEW f \in Files, NEW r \in Threads PROVE <<f, r>> \in doomed' <=> readers[f] = r
    <2>1. ASSUME <<f, r>> \in doomed' PROVE readers[f] = r
      <3>1. PICK g \in Files : readers[g] # NoOne /\ <<f, r>> = <<g, readers[g]>>
        BY <1>1, <2>1
      <3> QED
        BY <3>1
    <2>2. ASSUME readers[f] = r PROVE <<f, r>> \in doomed'
      <3>1. readers[f] # NoOne
        BY <2>2, StoreAssumption
      <3> QED
        BY <1>1, <2>2, <3>1
    <2> QED
      BY <2>1, <2>2
  <1> QED
    BY <1>2, StoreAssumption DEF BeginClose, IInv, Descriptors, DoomedOpen

\* The locks.
LEMMA LocksStep ==
  ASSUME IInv, [Next]_vars PROVE LocksHeld'
  <1> USE StoreAssumption DEF IInv, Descriptors
  <1>1. ASSUME NEW r \in Threads, NEW k \in Slices, LookUp(r, k) PROVE LocksHeld'
    BY <1>1, LookUpEffect DEF LocksHeld, Working, TypeOK, Idle
  <1>2. ASSUME NEW r \in Threads, NEW k \in Slices, ParseTyped(r, k) PROVE LocksHeld'
    BY <1>2 DEF ParseTyped, At, Going, Returned, Released, LocksHeld, Working, TypeOK, Idle, outside, files, history
  <1>3. ASSUME NEW r \in Threads, NEW k \in Slices, PutSlice(r, k) PROVE LocksHeld'
    BY <1>3 DEF PutSlice, At, Going, Returned, LocksHeld, Working, TypeOK, Idle, outside, files, history
  <1>4. ASSUME NEW r \in Threads, Served(r) PROVE LocksHeld'
    BY <1>4 DEF Served, At, Going, Released, LocksHeld, Working, TypeOK, Idle, outside, files, history
  <1>5. ASSUME NEW r \in Threads, Acquire(r) PROVE LocksHeld'
    BY <1>5 DEF Acquire, At, Going, LocksHeld, Working, TypeOK, Idle, outside, files, history
  <1>6. ASSUME NEW r \in Threads, EnterOpen(r) PROVE LocksHeld'
    BY <1>6 DEF EnterOpen, Entering, Reading, At, Going, LocksHeld, Working, TypeOK, Idle, outside, files, history
  <1>7. ASSUME NEW r \in Threads, OpenFile(r) PROVE LocksHeld'
    BY <1>7 DEF OpenFile, Entering, At, Going, LocksHeld, Working, TypeOK, Idle, outside, files, history
  <1>8. ASSUME NEW r \in Threads, Verify(r) PROVE LocksHeld'
    BY <1>8 DEF Verify, At, Going, LocksHeld, Working, TypeOK, Idle, outside, files, history
  <1>9. ASSUME NEW r \in Threads, Register(r) PROVE LocksHeld'
    BY <1>9 DEF Register, At, Reading, Going, LocksHeld, Working, TypeOK, Idle, outside, files, history
  <1>10. ASSUME NEW r \in Threads, Raise(r) PROVE LocksHeld'
    BY <1>10 DEF Raise, Entering, At, Going, Released, LocksHeld, Working, TypeOK, Idle, outside, files, history
  <1>11. ASSUME NEW r \in Threads, ReadChunk(r) PROVE LocksHeld'
    BY <1>11 DEF ReadChunk, At, Going, LocksHeld, Working, TypeOK, Idle, outside, files, history
  <1>12. ASSUME NEW r \in Threads, LeaveFile(r) PROVE LocksHeld'
    BY <1>12 DEF LeaveFile, At, Going, Released, LocksHeld, Working, TypeOK, Idle, outside, files, history
  <1>13. ASSUME NEW r \in Threads, NEW S \in Requests, Request(r, S) PROVE LocksHeld'
    BY <1>13 DEF Request, At, Going, LocksHeld, Working, TypeOK, Idle, outside, files, history
  <1>14. ASSUME BeginClose PROVE LocksHeld'
    BY <1>14 DEF BeginClose, LocksHeld, Working, TypeOK, Idle, outside, files, history
  <1>15. ASSUME NEW f \in Files, NEW r \in Threads, CloseReader(f, r) PROVE LocksHeld'
    BY <1>15 DEF CloseReader, LocksHeld, Working, TypeOK, Idle, outside, files, history
  <1>16. ASSUME CloseReturns PROVE LocksHeld'
    BY <1>16 DEF CloseReturns, LocksHeld, Working, TypeOK, Idle, outside, files, history
  <1>17. ASSUME NEW f \in Files, SwapFile(f) PROVE LocksHeld'
    BY <1>17 DEF SwapFile, LocksHeld, Working, TypeOK, Idle, outside, files, history
  <1>18. ASSUME NEW f \in Files, OverwriteFile(f) PROVE LocksHeld'
    BY <1>18 DEF OverwriteFile, LocksHeld, Working, TypeOK, Idle, outside, files, history
  <1>19. CASE UNCHANGED vars
    BY <1>19 DEF vars, LocksHeld, Working, TypeOK, Idle
  <1> QED
    BY <1>1, <1>2, <1>3, <1>4, <1>5, <1>6, <1>7, <1>8, <1>9, <1>10, <1>11, <1>12, <1>13, <1>14, <1>15, <1>16, <1>17, <1>18, <1>19 DEF Next, Proceed, CloseProceeds

\* What threads want.
LEMMA WantedStep ==
  ASSUME IInv, [Next]_vars PROVE WantedThere'
  <1> USE StoreAssumption DEF IInv, Descriptors
  <1>1. ASSUME NEW r \in Threads, NEW k \in Slices, LookUp(r, k) PROVE WantedThere'
    <2> SUFFICES ASSUME NEW q \in Threads
                 PROVE  /\ \A j \in thread'[q].todo \cup thread'[q].missing : FileOf[j] = thread'[q].file
                        /\ thread'[q].pc \in {"hashing", "verified"} => thread'[q].missing # {}
      BY DEF WantedThere
    <2>1. /\ thread'[q].todo \cup thread'[q].missing \subseteq thread[q].todo \cup thread[q].missing
          /\ thread'[q].pc = thread[q].pc /\ thread'[q].file = thread[q].file
          /\ thread[q].missing \subseteq thread'[q].missing
      BY <1>1, LookUpEffect
    <2> QED
      BY <2>1 DEF WantedThere
  <1>2. ASSUME NEW r \in Threads, NEW k \in Slices, ParseTyped(r, k) PROVE WantedThere'
    BY <1>2 DEF ParseTyped, At, Going, Returned, Released, WantedThere, TypeOK, Idle, outside, files, history
  <1>3. ASSUME NEW r \in Threads, NEW k \in Slices, PutSlice(r, k) PROVE WantedThere'
    BY <1>3 DEF PutSlice, At, Going, Returned, WantedThere, TypeOK, Idle, outside, files, history
  <1>4. ASSUME NEW r \in Threads, Served(r) PROVE WantedThere'
    BY <1>4 DEF Served, At, Going, Released, WantedThere, TypeOK, Idle, outside, files, history
  <1>5. ASSUME NEW r \in Threads, Acquire(r) PROVE WantedThere'
    BY <1>5 DEF Acquire, At, Going, WantedThere, TypeOK, Idle, outside, files, history
  <1>6. ASSUME NEW r \in Threads, EnterOpen(r) PROVE WantedThere'
    BY <1>6 DEF EnterOpen, Entering, Reading, At, Going, WantedThere, TypeOK, Idle, outside, files, history
  <1>7. ASSUME NEW r \in Threads, OpenFile(r) PROVE WantedThere'
    BY <1>7 DEF OpenFile, Entering, At, Going, WantedThere, TypeOK, Idle, outside, files, history
  <1>8. ASSUME NEW r \in Threads, Verify(r) PROVE WantedThere'
    BY <1>8 DEF Verify, At, Going, WantedThere, TypeOK, Idle, outside, files, history
  <1>9. ASSUME NEW r \in Threads, Register(r) PROVE WantedThere'
    BY <1>9 DEF Register, At, Reading, Going, WantedThere, TypeOK, Idle, outside, files, history
  <1>10. ASSUME NEW r \in Threads, Raise(r) PROVE WantedThere'
    BY <1>10 DEF Raise, Entering, At, Going, Released, WantedThere, TypeOK, Idle, outside, files, history
  <1>11. ASSUME NEW r \in Threads, ReadChunk(r) PROVE WantedThere'
    BY <1>11 DEF ReadChunk, At, Going, WantedThere, TypeOK, Idle, outside, files, history
  <1>12. ASSUME NEW r \in Threads, LeaveFile(r) PROVE WantedThere'
    BY <1>12 DEF LeaveFile, At, Going, Released, WantedThere, TypeOK, Idle, outside, files, history
  <1>13. ASSUME NEW r \in Threads, NEW S \in Requests, Request(r, S) PROVE WantedThere'
    BY <1>13 DEF Request, At, Going, WantedThere, TypeOK, Idle, outside, files, history
  <1>14. ASSUME BeginClose PROVE WantedThere'
    BY <1>14 DEF BeginClose, WantedThere, TypeOK, Idle, outside, files, history
  <1>15. ASSUME NEW f \in Files, NEW r \in Threads, CloseReader(f, r) PROVE WantedThere'
    BY <1>15 DEF CloseReader, WantedThere, TypeOK, Idle, outside, files, history
  <1>16. ASSUME CloseReturns PROVE WantedThere'
    BY <1>16 DEF CloseReturns, WantedThere, TypeOK, Idle, outside, files, history
  <1>17. ASSUME NEW f \in Files, SwapFile(f) PROVE WantedThere'
    BY <1>17 DEF SwapFile, WantedThere, TypeOK, Idle, outside, files, history
  <1>18. ASSUME NEW f \in Files, OverwriteFile(f) PROVE WantedThere'
    BY <1>18 DEF OverwriteFile, WantedThere, TypeOK, Idle, outside, files, history
  <1>19. CASE UNCHANGED vars
    BY <1>19 DEF vars, WantedThere, TypeOK, Idle
  <1> QED
    BY <1>1, <1>2, <1>3, <1>4, <1>5, <1>6, <1>7, <1>8, <1>9, <1>10, <1>11, <1>12, <1>13, <1>14, <1>15, <1>16, <1>17, <1>18, <1>19 DEF Next, Proceed, CloseProceeds

\* Open descriptors have an owner.
LEMMA OwnedStep ==
  ASSUME IInv, [Next]_vars PROVE OpenOwned'
  <1> USE StoreAssumption DEF IInv, Descriptors
  <1>1. ASSUME NEW r \in Threads, NEW k \in Slices, LookUp(r, k) PROVE OpenOwned'
    BY <1>1, LookUpEffect DEF OpenOwned, ReadersOpen, OpeningAlone, Opening, Working, TypeOK, Idle, LocksHeld
  <1>2. ASSUME NEW r \in Threads, NEW k \in Slices, ParseTyped(r, k) PROVE OpenOwned'
    BY <1>2 DEF ParseTyped, At, Going, Returned, Released, OpenOwned, ReadersOpen, OpeningAlone, Opening, Working, TypeOK, Idle, LocksHeld, outside, files, history
  <1>3. ASSUME NEW r \in Threads, NEW k \in Slices, PutSlice(r, k) PROVE OpenOwned'
    BY <1>3 DEF PutSlice, At, Going, Returned, OpenOwned, ReadersOpen, OpeningAlone, Opening, Working, TypeOK, Idle, LocksHeld, outside, files, history
  <1>4. ASSUME NEW r \in Threads, Served(r) PROVE OpenOwned'
    BY <1>4 DEF Served, At, Going, Released, OpenOwned, ReadersOpen, OpeningAlone, Opening, Working, TypeOK, Idle, LocksHeld, outside, files, history
  <1>5. ASSUME NEW r \in Threads, Acquire(r) PROVE OpenOwned'
    BY <1>5 DEF Acquire, At, Going, OpenOwned, ReadersOpen, OpeningAlone, Opening, Working, TypeOK, Idle, LocksHeld, outside, files, history
  <1>6. ASSUME NEW r \in Threads, EnterOpen(r) PROVE OpenOwned'
    BY <1>6 DEF EnterOpen, Entering, Reading, At, Going, OpenOwned, ReadersOpen, OpeningAlone, Opening, Working, TypeOK, Idle, LocksHeld, outside, files, history
  <1>7. ASSUME NEW r \in Threads, OpenFile(r) PROVE OpenOwned'
    BY <1>7 DEF OpenFile, Entering, At, Going, OpenOwned, ReadersOpen, OpeningAlone, Opening, Working, TypeOK, Idle, LocksHeld, outside, files, history
  <1>8. ASSUME NEW r \in Threads, Verify(r) PROVE OpenOwned'
    BY <1>8 DEF Verify, At, Going, OpenOwned, ReadersOpen, OpeningAlone, Opening, Working, TypeOK, Idle, LocksHeld, outside, files, history
  <1>9. ASSUME NEW r \in Threads, Register(r) PROVE OpenOwned'
    BY <1>9 DEF Register, At, Reading, Going, OpenOwned, ReadersOpen, OpeningAlone, Opening, Working, TypeOK, Idle, LocksHeld, outside, files, history
  <1>10. ASSUME NEW r \in Threads, Raise(r) PROVE OpenOwned'
    BY <1>10 DEF Raise, Entering, At, Going, Released, OpenOwned, ReadersOpen, OpeningAlone, Opening, Working, TypeOK, Idle, LocksHeld, outside, files, history
  <1>11. ASSUME NEW r \in Threads, ReadChunk(r) PROVE OpenOwned'
    BY <1>11 DEF ReadChunk, At, Going, OpenOwned, ReadersOpen, OpeningAlone, Opening, Working, TypeOK, Idle, LocksHeld, outside, files, history
  <1>12. ASSUME NEW r \in Threads, LeaveFile(r) PROVE OpenOwned'
    BY <1>12 DEF LeaveFile, At, Going, Released, OpenOwned, ReadersOpen, OpeningAlone, Opening, Working, TypeOK, Idle, LocksHeld, outside, files, history
  <1>13. ASSUME NEW r \in Threads, NEW S \in Requests, Request(r, S) PROVE OpenOwned'
    BY <1>13 DEF Request, At, Going, OpenOwned, ReadersOpen, OpeningAlone, Opening, Working, TypeOK, Idle, LocksHeld, outside, files, history
  <1>14. ASSUME BeginClose PROVE OpenOwned'
    BY <1>14, BeginCloseEffect DEF OpenOwned, Opening
  <1>15. ASSUME NEW f \in Files, NEW r \in Threads, CloseReader(f, r) PROVE OpenOwned'
    BY <1>15 DEF CloseReader, OpenOwned, ReadersOpen, OpeningAlone, Opening, Working, TypeOK, Idle, LocksHeld, outside, files, history
  <1>16. ASSUME CloseReturns PROVE OpenOwned'
    BY <1>16 DEF CloseReturns, OpenOwned, ReadersOpen, OpeningAlone, Opening, Working, TypeOK, Idle, LocksHeld, outside, files, history
  <1>17. ASSUME NEW f \in Files, SwapFile(f) PROVE OpenOwned'
    BY <1>17 DEF SwapFile, OpenOwned, ReadersOpen, OpeningAlone, Opening, Working, TypeOK, Idle, LocksHeld, outside, files, history
  <1>18. ASSUME NEW f \in Files, OverwriteFile(f) PROVE OpenOwned'
    BY <1>18 DEF OverwriteFile, OpenOwned, ReadersOpen, OpeningAlone, Opening, Working, TypeOK, Idle, LocksHeld, outside, files, history
  <1>19. CASE UNCHANGED vars
    BY <1>19 DEF vars, OpenOwned, ReadersOpen, OpeningAlone, Opening, Working, TypeOK, Idle, LocksHeld
  <1> QED
    BY <1>1, <1>2, <1>3, <1>4, <1>5, <1>6, <1>7, <1>8, <1>9, <1>10, <1>11, <1>12, <1>13, <1>14, <1>15, <1>16, <1>17, <1>18, <1>19 DEF Next, Proceed, CloseProceeds

\* The readers of the store.
LEMMA ReadersStep ==
  ASSUME IInv, [Next]_vars PROVE ReadersOpen'
  <1> USE StoreAssumption DEF IInv, Descriptors
  <1>1. ASSUME NEW r \in Threads, NEW k \in Slices, LookUp(r, k) PROVE ReadersOpen'
    BY <1>1, LookUpEffect DEF ReadersOpen, OpeningAlone, DoomedOpen, Opening, Working, TypeOK, Idle, LocksHeld
  <1>2. ASSUME NEW r \in Threads, NEW k \in Slices, ParseTyped(r, k) PROVE ReadersOpen'
    BY <1>2 DEF ParseTyped, At, Going, Returned, Released, ReadersOpen, OpeningAlone, DoomedOpen, Opening, Working, TypeOK, Idle, LocksHeld, outside, files, history
  <1>3. ASSUME NEW r \in Threads, NEW k \in Slices, PutSlice(r, k) PROVE ReadersOpen'
    BY <1>3 DEF PutSlice, At, Going, Returned, ReadersOpen, OpeningAlone, DoomedOpen, Opening, Working, TypeOK, Idle, LocksHeld, outside, files, history
  <1>4. ASSUME NEW r \in Threads, Served(r) PROVE ReadersOpen'
    BY <1>4 DEF Served, At, Going, Released, ReadersOpen, OpeningAlone, DoomedOpen, Opening, Working, TypeOK, Idle, LocksHeld, outside, files, history
  <1>5. ASSUME NEW r \in Threads, Acquire(r) PROVE ReadersOpen'
    BY <1>5 DEF Acquire, At, Going, ReadersOpen, OpeningAlone, DoomedOpen, Opening, Working, TypeOK, Idle, LocksHeld, outside, files, history
  <1>6. ASSUME NEW r \in Threads, EnterOpen(r) PROVE ReadersOpen'
    BY <1>6 DEF EnterOpen, Entering, Reading, At, Going, ReadersOpen, OpeningAlone, DoomedOpen, Opening, Working, TypeOK, Idle, LocksHeld, outside, files, history
  <1>7. ASSUME NEW r \in Threads, OpenFile(r) PROVE ReadersOpen'
    BY <1>7 DEF OpenFile, Entering, At, Going, ReadersOpen, OpeningAlone, DoomedOpen, Opening, Working, TypeOK, Idle, LocksHeld, outside, files, history
  <1>8. ASSUME NEW r \in Threads, Verify(r) PROVE ReadersOpen'
    BY <1>8 DEF Verify, At, Going, ReadersOpen, OpeningAlone, DoomedOpen, Opening, Working, TypeOK, Idle, LocksHeld, outside, files, history
  <1>9. ASSUME NEW r \in Threads, Register(r) PROVE ReadersOpen'
    BY <1>9 DEF Register, At, Reading, Going, ReadersOpen, OpeningAlone, DoomedOpen, Opening, Working, TypeOK, Idle, LocksHeld, outside, files, history
  <1>10. ASSUME NEW r \in Threads, Raise(r) PROVE ReadersOpen'
    <2> SUFFICES ASSUME NEW f \in Files, NEW q \in Threads, readers[f] = q
                 PROVE  closing = "open" /\ descriptor'[f][q] # "closed"
      BY <1>10 DEF ReadersOpen, Raise, outside
    <2>1. closing = "open" /\ descriptor[f][q] # "closed"
      BY DEF ReadersOpen
    <2>2. ~Opening(q, f)
      BY DEF OpeningAlone
    <2>3. descriptor'[f][q] = descriptor[f][q]
      BY <1>10, <2>2 DEF Raise, Opening, At, TypeOK
    <2> QED
      BY <2>1, <2>3
  <1>11. ASSUME NEW r \in Threads, ReadChunk(r) PROVE ReadersOpen'
    BY <1>11 DEF ReadChunk, At, Going, ReadersOpen, OpeningAlone, DoomedOpen, Opening, Working, TypeOK, Idle, LocksHeld, outside, files, history
  <1>12. ASSUME NEW r \in Threads, LeaveFile(r) PROVE ReadersOpen'
    BY <1>12 DEF LeaveFile, At, Going, Released, ReadersOpen, OpeningAlone, DoomedOpen, Opening, Working, TypeOK, Idle, LocksHeld, outside, files, history
  <1>13. ASSUME NEW r \in Threads, NEW S \in Requests, Request(r, S) PROVE ReadersOpen'
    BY <1>13 DEF Request, At, Going, ReadersOpen, OpeningAlone, DoomedOpen, Opening, Working, TypeOK, Idle, LocksHeld, outside, files, history
  <1>14. ASSUME BeginClose PROVE ReadersOpen'
    BY <1>14 DEF BeginClose, ReadersOpen, OpeningAlone, DoomedOpen, Opening, Working, TypeOK, Idle, LocksHeld, outside, files, history
  <1>15. ASSUME NEW f \in Files, NEW r \in Threads, CloseReader(f, r) PROVE ReadersOpen'
    BY <1>15 DEF CloseReader, ReadersOpen, OpeningAlone, DoomedOpen, Opening, Working, TypeOK, Idle, LocksHeld, outside, files, history
  <1>16. ASSUME CloseReturns PROVE ReadersOpen'
    BY <1>16 DEF CloseReturns, ReadersOpen, OpeningAlone, DoomedOpen, Opening, Working, TypeOK, Idle, LocksHeld, outside, files, history
  <1>17. ASSUME NEW f \in Files, SwapFile(f) PROVE ReadersOpen'
    BY <1>17 DEF SwapFile, ReadersOpen, OpeningAlone, DoomedOpen, Opening, Working, TypeOK, Idle, LocksHeld, outside, files, history
  <1>18. ASSUME NEW f \in Files, OverwriteFile(f) PROVE ReadersOpen'
    BY <1>18 DEF OverwriteFile, ReadersOpen, OpeningAlone, DoomedOpen, Opening, Working, TypeOK, Idle, LocksHeld, outside, files, history
  <1>19. CASE UNCHANGED vars
    BY <1>19 DEF vars, ReadersOpen, OpeningAlone, DoomedOpen, Opening, Working, TypeOK, Idle, LocksHeld
  <1> QED
    BY <1>1, <1>2, <1>3, <1>4, <1>5, <1>6, <1>7, <1>8, <1>9, <1>10, <1>11, <1>12, <1>13, <1>14, <1>15, <1>16, <1>17, <1>18, <1>19 DEF Next, Proceed, CloseProceeds

\* What is to be closed.
LEMMA DoomedStep ==
  ASSUME IInv, [Next]_vars PROVE DoomedOpen'
  <1> USE StoreAssumption DEF IInv, Descriptors
  <1>1. ASSUME NEW r \in Threads, NEW k \in Slices, LookUp(r, k) PROVE DoomedOpen'
    BY <1>1, LookUpEffect DEF DoomedOpen, ReadersOpen, OpeningAlone, Opening, Working, TypeOK, Idle, LocksHeld
  <1>2. ASSUME NEW r \in Threads, NEW k \in Slices, ParseTyped(r, k) PROVE DoomedOpen'
    BY <1>2 DEF ParseTyped, At, Going, Returned, Released, DoomedOpen, ReadersOpen, OpeningAlone, Opening, Working, TypeOK, Idle, LocksHeld, outside, files, history
  <1>3. ASSUME NEW r \in Threads, NEW k \in Slices, PutSlice(r, k) PROVE DoomedOpen'
    BY <1>3 DEF PutSlice, At, Going, Returned, DoomedOpen, ReadersOpen, OpeningAlone, Opening, Working, TypeOK, Idle, LocksHeld, outside, files, history
  <1>4. ASSUME NEW r \in Threads, Served(r) PROVE DoomedOpen'
    BY <1>4 DEF Served, At, Going, Released, DoomedOpen, ReadersOpen, OpeningAlone, Opening, Working, TypeOK, Idle, LocksHeld, outside, files, history
  <1>5. ASSUME NEW r \in Threads, Acquire(r) PROVE DoomedOpen'
    BY <1>5 DEF Acquire, At, Going, DoomedOpen, ReadersOpen, OpeningAlone, Opening, Working, TypeOK, Idle, LocksHeld, outside, files, history
  <1>6. ASSUME NEW r \in Threads, EnterOpen(r) PROVE DoomedOpen'
    BY <1>6 DEF EnterOpen, Entering, Reading, At, Going, DoomedOpen, ReadersOpen, OpeningAlone, Opening, Working, TypeOK, Idle, LocksHeld, outside, files, history
  <1>7. ASSUME NEW r \in Threads, OpenFile(r) PROVE DoomedOpen'
    BY <1>7 DEF OpenFile, Entering, At, Going, DoomedOpen, ReadersOpen, OpeningAlone, Opening, Working, TypeOK, Idle, LocksHeld, outside, files, history
  <1>8. ASSUME NEW r \in Threads, Verify(r) PROVE DoomedOpen'
    BY <1>8 DEF Verify, At, Going, DoomedOpen, ReadersOpen, OpeningAlone, Opening, Working, TypeOK, Idle, LocksHeld, outside, files, history
  <1>9. ASSUME NEW r \in Threads, Register(r) PROVE DoomedOpen'
    BY <1>9 DEF Register, At, Reading, Going, DoomedOpen, ReadersOpen, OpeningAlone, Opening, Working, TypeOK, Idle, LocksHeld, outside, files, history
  <1>10. ASSUME NEW r \in Threads, Raise(r) PROVE DoomedOpen'
    BY <1>10 DEF Raise, Entering, At, Going, Released, DoomedOpen, ReadersOpen, OpeningAlone, Opening, Working, TypeOK, Idle, LocksHeld, outside, files, history
  <1>11. ASSUME NEW r \in Threads, ReadChunk(r) PROVE DoomedOpen'
    BY <1>11 DEF ReadChunk, At, Going, DoomedOpen, ReadersOpen, OpeningAlone, Opening, Working, TypeOK, Idle, LocksHeld, outside, files, history
  <1>12. ASSUME NEW r \in Threads, LeaveFile(r) PROVE DoomedOpen'
    BY <1>12 DEF LeaveFile, At, Going, Released, DoomedOpen, ReadersOpen, OpeningAlone, Opening, Working, TypeOK, Idle, LocksHeld, outside, files, history
  <1>13. ASSUME NEW r \in Threads, NEW S \in Requests, Request(r, S) PROVE DoomedOpen'
    BY <1>13 DEF Request, At, Going, DoomedOpen, ReadersOpen, OpeningAlone, Opening, Working, TypeOK, Idle, LocksHeld, outside, files, history
  <1>14. ASSUME BeginClose PROVE DoomedOpen'
    BY <1>14, BeginCloseEffect DEF DoomedOpen, ReadersOpen
  <1>15. ASSUME NEW f \in Files, NEW r \in Threads, CloseReader(f, r) PROVE DoomedOpen'
    BY <1>15 DEF CloseReader, DoomedOpen, ReadersOpen, OpeningAlone, Opening, Working, TypeOK, Idle, LocksHeld, outside, files, history
  <1>16. ASSUME CloseReturns PROVE DoomedOpen'
    BY <1>16 DEF CloseReturns, DoomedOpen, ReadersOpen, OpeningAlone, Opening, Working, TypeOK, Idle, LocksHeld, outside, files, history
  <1>17. ASSUME NEW f \in Files, SwapFile(f) PROVE DoomedOpen'
    BY <1>17 DEF SwapFile, DoomedOpen, ReadersOpen, OpeningAlone, Opening, Working, TypeOK, Idle, LocksHeld, outside, files, history
  <1>18. ASSUME NEW f \in Files, OverwriteFile(f) PROVE DoomedOpen'
    BY <1>18 DEF OverwriteFile, DoomedOpen, ReadersOpen, OpeningAlone, Opening, Working, TypeOK, Idle, LocksHeld, outside, files, history
  <1>19. CASE UNCHANGED vars
    BY <1>19 DEF vars, DoomedOpen, ReadersOpen, OpeningAlone, Opening, Working, TypeOK, Idle, LocksHeld
  <1> QED
    BY <1>1, <1>2, <1>3, <1>4, <1>5, <1>6, <1>7, <1>8, <1>9, <1>10, <1>11, <1>12, <1>13, <1>14, <1>15, <1>16, <1>17, <1>18, <1>19 DEF Next, Proceed, CloseProceeds

\* Files being opened.
LEMMA OpeningStep ==
  ASSUME IInv, [Next]_vars PROVE OpeningAlone'
  <1> USE StoreAssumption DEF IInv, Descriptors
  <1>1. ASSUME NEW r \in Threads, NEW k \in Slices, LookUp(r, k) PROVE OpeningAlone'
    BY <1>1, LookUpEffect DEF OpeningAlone, ReadersOpen, DoomedOpen, Opening, Working, TypeOK, Idle, LocksHeld
  <1>2. ASSUME NEW r \in Threads, NEW k \in Slices, ParseTyped(r, k) PROVE OpeningAlone'
    BY <1>2 DEF ParseTyped, At, Going, Returned, Released, OpeningAlone, ReadersOpen, DoomedOpen, Opening, Working, TypeOK, Idle, LocksHeld, outside, files, history
  <1>3. ASSUME NEW r \in Threads, NEW k \in Slices, PutSlice(r, k) PROVE OpeningAlone'
    BY <1>3 DEF PutSlice, At, Going, Returned, OpeningAlone, ReadersOpen, DoomedOpen, Opening, Working, TypeOK, Idle, LocksHeld, outside, files, history
  <1>4. ASSUME NEW r \in Threads, Served(r) PROVE OpeningAlone'
    BY <1>4 DEF Served, At, Going, Released, OpeningAlone, ReadersOpen, DoomedOpen, Opening, Working, TypeOK, Idle, LocksHeld, outside, files, history
  <1>5. ASSUME NEW r \in Threads, Acquire(r) PROVE OpeningAlone'
    BY <1>5 DEF Acquire, At, Going, OpeningAlone, ReadersOpen, DoomedOpen, Opening, Working, TypeOK, Idle, LocksHeld, outside, files, history
  <1>6. ASSUME NEW r \in Threads, EnterOpen(r) PROVE OpeningAlone'
    BY <1>6 DEF EnterOpen, Entering, Reading, At, Going, OpeningAlone, ReadersOpen, DoomedOpen, Opening, Working, TypeOK, Idle, LocksHeld, outside, files, history
  <1>7. ASSUME NEW r \in Threads, OpenFile(r) PROVE OpeningAlone'
    BY <1>7 DEF OpenFile, Entering, At, Going, OpeningAlone, ReadersOpen, DoomedOpen, Opening, Working, TypeOK, Idle, LocksHeld, outside, files, history
  <1>8. ASSUME NEW r \in Threads, Verify(r) PROVE OpeningAlone'
    BY <1>8 DEF Verify, At, Going, OpeningAlone, ReadersOpen, DoomedOpen, Opening, Working, TypeOK, Idle, LocksHeld, outside, files, history
  <1>9. ASSUME NEW r \in Threads, Register(r) PROVE OpeningAlone'
    BY <1>9 DEF Register, At, Reading, Going, OpeningAlone, ReadersOpen, DoomedOpen, Opening, Working, TypeOK, Idle, LocksHeld, outside, files, history
  <1>10. ASSUME NEW r \in Threads, Raise(r) PROVE OpeningAlone'
    BY <1>10 DEF Raise, Entering, At, Going, Released, OpeningAlone, ReadersOpen, DoomedOpen, Opening, Working, TypeOK, Idle, LocksHeld, outside, files, history
  <1>11. ASSUME NEW r \in Threads, ReadChunk(r) PROVE OpeningAlone'
    BY <1>11 DEF ReadChunk, At, Going, OpeningAlone, ReadersOpen, DoomedOpen, Opening, Working, TypeOK, Idle, LocksHeld, outside, files, history
  <1>12. ASSUME NEW r \in Threads, LeaveFile(r) PROVE OpeningAlone'
    BY <1>12 DEF LeaveFile, At, Going, Released, OpeningAlone, ReadersOpen, DoomedOpen, Opening, Working, TypeOK, Idle, LocksHeld, outside, files, history
  <1>13. ASSUME NEW r \in Threads, NEW S \in Requests, Request(r, S) PROVE OpeningAlone'
    BY <1>13 DEF Request, At, Going, OpeningAlone, ReadersOpen, DoomedOpen, Opening, Working, TypeOK, Idle, LocksHeld, outside, files, history
  <1>14. ASSUME BeginClose PROVE OpeningAlone'
    BY <1>14, BeginCloseEffect DEF OpeningAlone, Opening
  <1>15. ASSUME NEW f \in Files, NEW r \in Threads, CloseReader(f, r) PROVE OpeningAlone'
    BY <1>15 DEF CloseReader, OpeningAlone, ReadersOpen, DoomedOpen, Opening, Working, TypeOK, Idle, LocksHeld, outside, files, history
  <1>16. ASSUME CloseReturns PROVE OpeningAlone'
    BY <1>16 DEF CloseReturns, OpeningAlone, ReadersOpen, DoomedOpen, Opening, Working, TypeOK, Idle, LocksHeld, outside, files, history
  <1>17. ASSUME NEW f \in Files, SwapFile(f) PROVE OpeningAlone'
    BY <1>17 DEF SwapFile, OpeningAlone, ReadersOpen, DoomedOpen, Opening, Working, TypeOK, Idle, LocksHeld, outside, files, history
  <1>18. ASSUME NEW f \in Files, OverwriteFile(f) PROVE OpeningAlone'
    BY <1>18 DEF OverwriteFile, OpeningAlone, ReadersOpen, DoomedOpen, Opening, Working, TypeOK, Idle, LocksHeld, outside, files, history
  <1>19. CASE UNCHANGED vars
    BY <1>19 DEF vars, OpeningAlone, ReadersOpen, DoomedOpen, Opening, Working, TypeOK, Idle, LocksHeld
  <1> QED
    BY <1>1, <1>2, <1>3, <1>4, <1>5, <1>6, <1>7, <1>8, <1>9, <1>10, <1>11, <1>12, <1>13, <1>14, <1>15, <1>16, <1>17, <1>18, <1>19 DEF Next, Proceed, CloseProceeds

\* Readers in use.
LEMMA ReadFromStep ==
  ASSUME IInv, [Next]_vars PROVE ReadFrom'
  <1> USE StoreAssumption DEF IInv, Descriptors
  <1>1. ASSUME NEW r \in Threads, NEW k \in Slices, LookUp(r, k) PROVE ReadFrom'
    BY <1>1, LookUpEffect DEF ReadFrom, OpeningAlone, Opening, Working, TypeOK, Idle, LocksHeld
  <1>2. ASSUME NEW r \in Threads, NEW k \in Slices, ParseTyped(r, k) PROVE ReadFrom'
    BY <1>2 DEF ParseTyped, At, Going, Returned, Released, ReadFrom, OpeningAlone, Opening, Working, TypeOK, Idle, LocksHeld, outside, files, history
  <1>3. ASSUME NEW r \in Threads, NEW k \in Slices, PutSlice(r, k) PROVE ReadFrom'
    BY <1>3 DEF PutSlice, At, Going, Returned, ReadFrom, OpeningAlone, Opening, Working, TypeOK, Idle, LocksHeld, outside, files, history
  <1>4. ASSUME NEW r \in Threads, Served(r) PROVE ReadFrom'
    BY <1>4 DEF Served, At, Going, Released, ReadFrom, OpeningAlone, Opening, Working, TypeOK, Idle, LocksHeld, outside, files, history
  <1>5. ASSUME NEW r \in Threads, Acquire(r) PROVE ReadFrom'
    BY <1>5 DEF Acquire, At, Going, ReadFrom, OpeningAlone, Opening, Working, TypeOK, Idle, LocksHeld, outside, files, history
  <1>6. ASSUME NEW r \in Threads, EnterOpen(r) PROVE ReadFrom'
    BY <1>6 DEF EnterOpen, Entering, Reading, At, Going, ReadFrom, OpeningAlone, Opening, Working, TypeOK, Idle, LocksHeld, outside, files, history
  <1>7. ASSUME NEW r \in Threads, OpenFile(r) PROVE ReadFrom'
    BY <1>7 DEF OpenFile, Entering, At, Going, ReadFrom, OpeningAlone, Opening, Working, TypeOK, Idle, LocksHeld, outside, files, history
  <1>8. ASSUME NEW r \in Threads, Verify(r) PROVE ReadFrom'
    BY <1>8 DEF Verify, At, Going, ReadFrom, OpeningAlone, Opening, Working, TypeOK, Idle, LocksHeld, outside, files, history
  <1>9. ASSUME NEW r \in Threads, Register(r) PROVE ReadFrom'
    BY <1>9 DEF Register, At, Reading, Going, ReadFrom, OpeningAlone, Opening, Working, TypeOK, Idle, LocksHeld, outside, files, history
  <1>10. ASSUME NEW r \in Threads, Raise(r) PROVE ReadFrom'
    BY <1>10 DEF Raise, Entering, At, Going, Released, ReadFrom, OpeningAlone, Opening, Working, TypeOK, Idle, LocksHeld, outside, files, history
  <1>11. ASSUME NEW r \in Threads, ReadChunk(r) PROVE ReadFrom'
    BY <1>11 DEF ReadChunk, At, Going, ReadFrom, OpeningAlone, Opening, Working, TypeOK, Idle, LocksHeld, outside, files, history
  <1>12. ASSUME NEW r \in Threads, LeaveFile(r) PROVE ReadFrom'
    BY <1>12 DEF LeaveFile, At, Going, Released, ReadFrom, OpeningAlone, Opening, Working, TypeOK, Idle, LocksHeld, outside, files, history
  <1>13. ASSUME NEW r \in Threads, NEW S \in Requests, Request(r, S) PROVE ReadFrom'
    BY <1>13 DEF Request, At, Going, ReadFrom, OpeningAlone, Opening, Working, TypeOK, Idle, LocksHeld, outside, files, history
  <1>14. ASSUME BeginClose PROVE ReadFrom'
    BY <1>14, BeginCloseEffect DEF ReadFrom, TypeOK
  <1>15. ASSUME NEW f \in Files, NEW r \in Threads, CloseReader(f, r) PROVE ReadFrom'
    BY <1>15 DEF CloseReader, ReadFrom, OpeningAlone, Opening, Working, TypeOK, Idle, LocksHeld, outside, files, history
  <1>16. ASSUME CloseReturns PROVE ReadFrom'
    BY <1>16 DEF CloseReturns, ReadFrom, OpeningAlone, Opening, Working, TypeOK, Idle, LocksHeld, outside, files, history
  <1>17. ASSUME NEW f \in Files, SwapFile(f) PROVE ReadFrom'
    BY <1>17 DEF SwapFile, ReadFrom, OpeningAlone, Opening, Working, TypeOK, Idle, LocksHeld, outside, files, history
  <1>18. ASSUME NEW f \in Files, OverwriteFile(f) PROVE ReadFrom'
    BY <1>18 DEF OverwriteFile, ReadFrom, OpeningAlone, Opening, Working, TypeOK, Idle, LocksHeld, outside, files, history
  <1>19. CASE UNCHANGED vars
    BY <1>19 DEF vars, ReadFrom, OpeningAlone, Opening, Working, TypeOK, Idle, LocksHeld
  <1> QED
    BY <1>1, <1>2, <1>3, <1>4, <1>5, <1>6, <1>7, <1>8, <1>9, <1>10, <1>11, <1>12, <1>13, <1>14, <1>15, <1>16, <1>17, <1>18, <1>19 DEF Next, Proceed, CloseProceeds

\* Changed descriptors.
LEMMA ChangedStep ==
  ASSUME IInv, [Next]_vars PROVE ChangedFound'
  <1> USE StoreAssumption DEF IInv, Descriptors
  <1>1. ASSUME NEW r \in Threads, NEW k \in Slices, LookUp(r, k) PROVE ChangedFound'
    BY <1>1, LookUpEffect DEF ChangedFound, Opening, Working, TypeOK, Idle, LocksHeld
  <1>2. ASSUME NEW r \in Threads, NEW k \in Slices, ParseTyped(r, k) PROVE ChangedFound'
    BY <1>2 DEF ParseTyped, At, Going, Returned, Released, ChangedFound, Opening, Working, TypeOK, Idle, LocksHeld, outside, files, history
  <1>3. ASSUME NEW r \in Threads, NEW k \in Slices, PutSlice(r, k) PROVE ChangedFound'
    BY <1>3 DEF PutSlice, At, Going, Returned, ChangedFound, Opening, Working, TypeOK, Idle, LocksHeld, outside, files, history
  <1>4. ASSUME NEW r \in Threads, Served(r) PROVE ChangedFound'
    BY <1>4 DEF Served, At, Going, Released, ChangedFound, Opening, Working, TypeOK, Idle, LocksHeld, outside, files, history
  <1>5. ASSUME NEW r \in Threads, Acquire(r) PROVE ChangedFound'
    BY <1>5 DEF Acquire, At, Going, ChangedFound, Opening, Working, TypeOK, Idle, LocksHeld, outside, files, history
  <1>6. ASSUME NEW r \in Threads, EnterOpen(r) PROVE ChangedFound'
    BY <1>6 DEF EnterOpen, Entering, Reading, At, Going, ChangedFound, Opening, Working, TypeOK, Idle, LocksHeld, outside, files, history
  <1>7. ASSUME NEW r \in Threads, OpenFile(r) PROVE ChangedFound'
    BY <1>7 DEF OpenFile, Entering, At, Going, ChangedFound, Opening, Working, TypeOK, Idle, LocksHeld, outside, files, history
  <1>8. ASSUME NEW r \in Threads, Verify(r) PROVE ChangedFound'
    BY <1>8 DEF Verify, At, Going, ChangedFound, Opening, Working, TypeOK, Idle, LocksHeld, outside, files, history
  <1>9. ASSUME NEW r \in Threads, Register(r) PROVE ChangedFound'
    BY <1>9 DEF Register, At, Reading, Going, ChangedFound, Opening, Working, TypeOK, Idle, LocksHeld, outside, files, history
  <1>10. ASSUME NEW r \in Threads, Raise(r) PROVE ChangedFound'
    BY <1>10 DEF Raise, Entering, At, Going, Released, ChangedFound, Opening, Working, TypeOK, Idle, LocksHeld, outside, files, history
  <1>11. ASSUME NEW r \in Threads, ReadChunk(r) PROVE ChangedFound'
    BY <1>11 DEF ReadChunk, At, Going, ChangedFound, Opening, Working, TypeOK, Idle, LocksHeld, outside, files, history
  <1>12. ASSUME NEW r \in Threads, LeaveFile(r) PROVE ChangedFound'
    BY <1>12 DEF LeaveFile, At, Going, Released, ChangedFound, Opening, Working, TypeOK, Idle, LocksHeld, outside, files, history
  <1>13. ASSUME NEW r \in Threads, NEW S \in Requests, Request(r, S) PROVE ChangedFound'
    BY <1>13 DEF Request, At, Going, ChangedFound, Opening, Working, TypeOK, Idle, LocksHeld, outside, files, history
  <1>14. ASSUME BeginClose PROVE ChangedFound'
    BY <1>14 DEF BeginClose, ChangedFound, Opening, Working, TypeOK, Idle, LocksHeld, outside, files, history
  <1>15. ASSUME NEW f \in Files, NEW r \in Threads, CloseReader(f, r) PROVE ChangedFound'
    BY <1>15 DEF CloseReader, ChangedFound, Opening, Working, TypeOK, Idle, LocksHeld, outside, files, history
  <1>16. ASSUME CloseReturns PROVE ChangedFound'
    BY <1>16 DEF CloseReturns, ChangedFound, Opening, Working, TypeOK, Idle, LocksHeld, outside, files, history
  <1>17. ASSUME NEW f \in Files, SwapFile(f) PROVE ChangedFound'
    BY <1>17 DEF SwapFile, ChangedFound, Opening, Working, TypeOK, Idle, LocksHeld, outside, files, history
  <1>18. ASSUME NEW f \in Files, OverwriteFile(f) PROVE ChangedFound'
    BY <1>18 DEF OverwriteFile, ChangedFound, Opening, Working, TypeOK, Idle, LocksHeld, outside, files, history
  <1>19. CASE UNCHANGED vars
    BY <1>19 DEF vars, ChangedFound, Opening, Working, TypeOK, Idle, LocksHeld
  <1> QED
    BY <1>1, <1>2, <1>3, <1>4, <1>5, <1>6, <1>7, <1>8, <1>9, <1>10, <1>11, <1>12, <1>13, <1>14, <1>15, <1>16, <1>17, <1>18, <1>19 DEF Next, Proceed, CloseProceeds

\* The types of all but the threads and the caches.
StateTypes ==
  /\ disk \in [Files -> {"original", "changed"}] /\ overwritten \subseteq Files
  /\ descriptor \in [Files -> [Threads -> {"closed", "linked", "detached", "changed"}]]
  /\ readers \in [Files -> Threads \cup {NoOne}]
  /\ holder \in [Files -> Threads \cup {NoOne}]
  /\ closing \in {"open", "closing", "closed"} /\ doomed \subseteq (Files \X Threads)
  /\ produced \subseteq Slices /\ repeated \subseteq Slices /\ stained \subseteq Files

LEMMA TypesApart ==
  /\ TypeOK <=> /\ StateTypes /\ thread \in [Threads -> ThreadType]
                /\ slices \in CacheType /\ typed \in CacheType /\ AccountsKept
  /\ IInv => StateTypes /\ thread \in [Threads -> ThreadType]
  BY DEF TypeOK, StateTypes, ThreadType, IInv

LEMMA WantedAreSlices ==
  ASSUME IInv, NEW r \in Threads
  PROVE  /\ thread[r] \in ThreadType
         /\ thread[r].missing \subseteq Slices /\ thread[r].file \in Files
         /\ \A k \in Slices : FileOf[k] \in Files
  BY TypesApart, StoreAssumption DEF ThreadType

\* Types.
LEMMA TypesStep ==
  ASSUME IInv, [Next]_vars PROVE StateTypes'
  <1>0. StateTypes /\ \A r \in Threads : thread[r].missing \subseteq Slices /\ thread[r].file \in Files /\ \A k \in Slices : FileOf[k] \in Files
    BY TypesApart, WantedAreSlices
  <1> USE <1>0
  <1>1. ASSUME NEW r \in Threads, NEW k \in Slices, LookUp(r, k) PROVE StateTypes'
    BY <1>1, LookUpEffect DEF StateTypes
  <1>2. ASSUME NEW r \in Threads, NEW k \in Slices, ParseTyped(r, k) PROVE StateTypes'
    BY <1>2 DEF ParseTyped, At, Going, Returned, Released, StateTypes, outside, files, history
  <1>3. ASSUME NEW r \in Threads, NEW k \in Slices, PutSlice(r, k) PROVE StateTypes'
    BY <1>3 DEF PutSlice, At, Going, Returned, StateTypes, outside, files, history
  <1>4. ASSUME NEW r \in Threads, Served(r) PROVE StateTypes'
    BY <1>4 DEF Served, At, Going, Released, StateTypes, outside, files, history
  <1>5. ASSUME NEW r \in Threads, Acquire(r) PROVE StateTypes'
    BY <1>5 DEF Acquire, At, Going, StateTypes, outside, files, history
  <1>6. ASSUME NEW r \in Threads, EnterOpen(r) PROVE StateTypes'
    BY <1>6 DEF EnterOpen, Entering, Reading, At, Going, StateTypes, outside, files, history
  <1>7. ASSUME NEW r \in Threads, OpenFile(r) PROVE StateTypes'
    BY <1>7 DEF OpenFile, Entering, At, Going, StateTypes, outside, files, history
  <1>8. ASSUME NEW r \in Threads, Verify(r) PROVE StateTypes'
    BY <1>8 DEF Verify, At, Going, StateTypes, outside, files, history
  <1>9. ASSUME NEW r \in Threads, Register(r) PROVE StateTypes'
    BY <1>9 DEF Register, At, Reading, Going, StateTypes, outside, files, history
  <1>10. ASSUME NEW r \in Threads, Raise(r) PROVE StateTypes'
    BY <1>10 DEF Raise, Entering, At, Going, Released, StateTypes, outside, files, history
  <1>11. ASSUME NEW r \in Threads, ReadChunk(r) PROVE StateTypes'
    BY <1>11 DEF ReadChunk, At, Going, StateTypes, outside, files, history
  <1>12. ASSUME NEW r \in Threads, LeaveFile(r) PROVE StateTypes'
    BY <1>12 DEF LeaveFile, At, Going, Released, StateTypes, outside, files, history
  <1>13. ASSUME NEW r \in Threads, NEW S \in Requests, Request(r, S) PROVE StateTypes'
    BY <1>13 DEF Request, At, Going, StateTypes, outside, files, history
  <1>14. ASSUME BeginClose PROVE StateTypes'
    BY <1>14 DEF BeginClose, StateTypes, outside, files, history
  <1>15. ASSUME NEW f \in Files, NEW r \in Threads, CloseReader(f, r) PROVE StateTypes'
    BY <1>15 DEF CloseReader, StateTypes, outside, files, history
  <1>16. ASSUME CloseReturns PROVE StateTypes'
    BY <1>16 DEF CloseReturns, StateTypes, outside, files, history
  <1>17. ASSUME NEW f \in Files, SwapFile(f) PROVE StateTypes'
    BY <1>17 DEF SwapFile, StateTypes, outside, files, history
  <1>18. ASSUME NEW f \in Files, OverwriteFile(f) PROVE StateTypes'
    BY <1>18 DEF OverwriteFile, StateTypes, outside, files, history
  <1>19. CASE UNCHANGED vars
    BY <1>19 DEF vars, StateTypes
  <1> QED
    BY <1>1, <1>2, <1>3, <1>4, <1>5, <1>6, <1>7, <1>8, <1>9, <1>10, <1>11, <1>12, <1>13, <1>14, <1>15, <1>16, <1>17, <1>18, <1>19 DEF Next, Proceed, CloseProceeds

LEMMA IdleTyped == Idle \in ThreadType
  BY StoreAssumption DEF Idle, ThreadType

\* The fields of a thread.
LEMMA ThreadFields ==
  ASSUME NEW t \in ThreadType
  PROVE  t.missing \subseteq Slices /\ t.left \in Nat /\ t.bad \in BOOLEAN /\ t.group \in BOOLEAN
  BY DEF ThreadType

\* What the actions assign to a thread.
LEMMA MovesTyped ==
  ASSUME NEW t \in ThreadType,
         NEW p \in {"idle", "looking", "locked", "hashing", "verified", "reading", "putting"}
  PROVE  [t EXCEPT !.pc = p] \in ThreadType
  BY DEF ThreadType

LEMMA PutTyped ==
  ASSUME NEW t \in ThreadType, NEW m \in SUBSET Slices
  PROVE  [t EXCEPT !.missing = m] \in ThreadType
  BY DEF ThreadType

LEMMA ThreadsStep ==
  ASSUME IInv, [Next]_vars PROVE thread' \in [Threads -> ThreadType]
  <1>0. thread \in [Threads -> ThreadType]
    BY TypesApart
  <1>a. ASSUME NEW r \in Threads, NEW t \in ThreadType, Going(r, t)
        PROVE  thread' \in [Threads -> ThreadType]
    BY <1>0, <1>a DEF Going
  <1>b. ASSUME NEW r \in Threads, NEW b \in Threads, thread[r].missing # {}, Reading(r, b)
        PROVE  thread' \in [Threads -> ThreadType]
    <2> DEFINE t == thread[r]
               n == IF t.group THEN 1 ELSE Chunks[CHOOSE k \in t.missing : TRUE]
    <2>1. t \in ThreadType
      BY <1>0
    <2>2. n \in Nat
      <3>1. (CHOOSE k \in t.missing : TRUE) \in Slices
        BY <1>b, <2>1, ThreadFields
      <3> QED
        BY <3>1, StoreAssumption
    <2>3. Going(r, [t EXCEPT !.pc = "reading", !.by = b, !.left = n])
      BY <1>b DEF Reading
    <2> HIDE DEF t, n
    <2>4. [t EXCEPT !.pc = "reading", !.by = b, !.left = n] \in ThreadType
      BY <2>1, <2>2 DEF ThreadType
    <2> QED
      BY <1>a, <2>3, <2>4
  <1>1. ASSUME NEW r \in Threads, NEW k \in Slices, LookUp(r, k)
        PROVE  thread' \in [Threads -> ThreadType]
    BY <1>1, LookUpEffect
  <1>2. ASSUME NEW r \in Threads, Going(r, Idle) PROVE thread' \in [Threads -> ThreadType]
    BY <1>a, <1>2, IdleTyped
  <1>3. ASSUME NEW r \in Threads, NEW k \in Slices, PutSlice(r, k)
        PROVE  thread' \in [Threads -> ThreadType]
    <2>1. CASE thread[r].missing = {k}
      BY <1>2, <1>3, <2>1 DEF PutSlice
    <2>2. CASE thread[r].missing # {k}
      <3>1. Going(r, [thread[r] EXCEPT !.missing = thread[r].missing \ {k}])
        BY <1>3, <2>2 DEF PutSlice
      <3>2. thread[r] \in ThreadType
        BY <1>0
      <3>3. thread[r].missing \ {k} \in SUBSET Slices
        BY <3>2, ThreadFields
      <3>4. [thread[r] EXCEPT !.missing = thread[r].missing \ {k}] \in ThreadType
        BY <3>2, <3>3, PutTyped
      <3> QED
        BY <1>a, <3>1, <3>4
    <2> QED
      BY <2>1, <2>2
  <1>4. ASSUME NEW r \in Threads, Acquire(r) PROVE thread' \in [Threads -> ThreadType]
    <2>1. Going(r, [thread[r] EXCEPT !.pc = "locked", !.todo = thread[r].missing, !.missing = {}])
      BY <1>4 DEF Acquire
    <2>2. thread[r] \in ThreadType
      BY <1>0
    <2>3. [thread[r] EXCEPT !.pc = "locked", !.todo = thread[r].missing, !.missing = {}] \in ThreadType
      BY <2>2 DEF ThreadType
    <2> QED
      BY <1>a, <2>1, <2>3
  <1>5. ASSUME NEW r \in Threads, EnterOpen(r) PROVE thread' \in [Threads -> ThreadType]
    <2>1. readers[thread[r].file] \in Threads
      BY <1>5, TypesApart, WantedAreSlices DEF EnterOpen, StateTypes
    <2>2. thread[r].missing # {} /\ Reading(r, readers[thread[r].file])
      BY <1>5 DEF EnterOpen, Entering
    <2> QED
      BY <1>b, <2>1, <2>2
  <1>6. ASSUME NEW r \in Threads, NEW p \in {"hashing", "verified", "putting"},
               Going(r, [thread[r] EXCEPT !.pc = p])
        PROVE  thread' \in [Threads -> ThreadType]
    <2>1. thread[r] \in ThreadType
      BY <1>0
    <2>2. [thread[r] EXCEPT !.pc = p] \in ThreadType
      BY <2>1, MovesTyped
    <2> QED
      BY <1>a, <1>6, <2>2
  <1>7. ASSUME NEW r \in Threads, Register(r) PROVE thread' \in [Threads -> ThreadType]
    <2>1. thread[r].missing # {} /\ Reading(r, r)
      BY <1>7 DEF Register, At, IInv, WantedThere
    <2> QED
      BY <1>b, <2>1
  <1>8. ASSUME NEW r \in Threads, ReadChunk(r) PROVE thread' \in [Threads -> ThreadType]
    <2> DEFINE t == thread[r]
               c == t.bad \/ descriptor[t.file][t.by] = "changed"
    <2>1. Going(r, [t EXCEPT !.left = t.left - 1, !.bad = c]) /\ t.left > 0
      BY <1>8 DEF ReadChunk
    <2>2. t \in ThreadType
      BY <1>0
    <2>3. t.left - 1 \in Nat /\ c \in BOOLEAN
      BY <2>1, <2>2, ThreadFields
    <2> HIDE DEF t, c
    <2>4. [t EXCEPT !.left = t.left - 1, !.bad = c] \in ThreadType
      BY <2>2, <2>3 DEF ThreadType
    <2> QED
      BY <1>a, <2>1, <2>4
  <1>9. ASSUME NEW r \in Threads, NEW S \in Requests, Request(r, S)
        PROVE  thread' \in [Threads -> ThreadType]
    <2>1. PICK f \in Files : Going(r, [Idle EXCEPT !.pc = "looking", !.file = f, !.todo = S,
                                                   !.group = Cardinality(S) > 1])
      BY <1>9, Zenon DEF Request
    <2> DEFINE several == Cardinality(S) > 1
    <2>2. several \in BOOLEAN /\ S \in SUBSET Slices
      BY StoreAssumption
    <2>3. Going(r, [Idle EXCEPT !.pc = "looking", !.file = f, !.todo = S, !.group = several])
      BY <2>1
    <2> HIDE DEF several
    <2>4. [Idle EXCEPT !.pc = "looking", !.file = f, !.todo = S, !.group = several] \in ThreadType
      BY <2>2, IdleTyped DEF ThreadType
    <2> QED
      BY <1>a, <2>3, <2>4
  <1>10. ASSUME NEW r \in Threads, Proceed(r) PROVE thread' \in [Threads -> ThreadType]
    <2>1. ASSUME NEW k \in Slices, ParseTyped(r, k) PROVE Going(r, Idle)
      BY <2>1 DEF ParseTyped
    <2>2. (Served(r) \/ Raise(r)) => Going(r, Idle)
      BY DEF Served, Raise
    <2>3. OpenFile(r) => Going(r, [thread[r] EXCEPT !.pc = "hashing"])
      BY DEF OpenFile
    <2>4. Verify(r) => Going(r, [thread[r] EXCEPT !.pc = "verified"])
      BY DEF Verify
    <2>5. LeaveFile(r) => Going(r, [thread[r] EXCEPT !.pc = "putting"])
      BY DEF LeaveFile
    <2> QED
      BY <1>1, <1>2, <1>3, <1>4, <1>5, <1>6, <1>7, <1>8, <1>10, <2>1, <2>2, <2>3, <2>4, <2>5
      DEF Proceed
  <1>11. BeginClose \/ CloseProceeds \/ (\E f \in Files : SwapFile(f) \/ OverwriteFile(f)) \/ UNCHANGED vars
         => UNCHANGED thread
    BY DEF BeginClose, CloseProceeds, CloseReturns, CloseReader, SwapFile, OverwriteFile, vars
  <1> QED
    BY <1>0, <1>9, <1>10, <1>11 DEF Next

\* The caches, in the hands of those who use them: what each action does to them.
LEMMA CachesUsed ==
  ASSUME [Next]_vars
  PROVE  \/ \E r \in Threads, k \in Slices : LookUp(r, k) \/ ParseTyped(r, k) \/ PutSlice(r, k)
         \/ BeginClose
         \/ UNCHANGED <<slices, typed>>
  <1>1. ASSUME NEW r \in Threads
        PROVE  /\ Served(r) \/ Acquire(r) \/ EnterOpen(r) \/ OpenFile(r) \/ Verify(r)
                  => UNCHANGED <<slices, typed>>
               /\ Register(r) \/ Raise(r) \/ ReadChunk(r) \/ LeaveFile(r) => UNCHANGED <<slices, typed>>
    BY DEF Served, Acquire, EnterOpen, OpenFile, Verify, Register, Raise, ReadChunk, LeaveFile
  <1>2. ASSUME NEW r \in Threads, NEW S \in Requests, Request(r, S) PROVE UNCHANGED <<slices, typed>>
    BY <1>2 DEF Request
  <1>3. CloseProceeds => UNCHANGED <<slices, typed>>
    BY DEF CloseProceeds, CloseReturns, CloseReader
  <1>4. \A f \in Files : SwapFile(f) \/ OverwriteFile(f) => UNCHANGED <<slices, typed>>
    BY DEF SwapFile, OverwriteFile
  <1>5. UNCHANGED vars => UNCHANGED <<slices, typed>>
    BY DEF vars
  <1> QED
    BY <1>1, <1>2, <1>3, <1>4, <1>5 DEF Next, Proceed

\* Whoever touches a cache leaves it true to its account and limit.
LEMMA CachesStep ==
  ASSUME IInv, [Next]_vars
  PROVE  Sound(slices') /\ Sound(typed') /\ AccountsKept'
  <1>0. /\ Sound(slices) /\ Sound(typed)
        /\ slices.current <= SliceBudget /\ (typed.current <= TypedBudget \/ Len(typed.entries) = 1)
        /\ SliceBudget \in Nat /\ TypedBudget \in Nat
    BY StoreAssumption DEF IInv, Caches, TypeOK, AccountsKept
  <1>a. ASSUME Sound(slices'), Sound(typed'), slices'.current <= SliceBudget,
               typed'.current <= TypedBudget \/ Len(typed'.entries) = 1
        PROVE  Sound(slices') /\ Sound(typed') /\ AccountsKept'
    BY <1>a DEF Sound, AccountsKept
  <1>c. ASSUME NEW r \in Threads, NEW k \in Slices PROVE Entry(r, k) \in CacheEntry
    <2>1. thread[r].bad \in BOOLEAN /\ Cost[k] \in Nat
      BY WantedAreSlices, ThreadFields, StoreAssumption
    <2> QED
      BY <2>1 DEF Entry, CacheEntry
  <1>1. ASSUME NEW r \in Threads, NEW k \in Slices, LookUp(r, k)
        PROVE  Sound(slices') /\ Sound(typed') /\ AccountsKept'
    <2>1. CASE k \in Keys(typed) /\ typed' = Touch(typed, k) /\ UNCHANGED slices
      BY <1>0, <1>a, <2>1, TouchKeeps
    <2>2. CASE k \in Keys(slices) /\ slices' = Touch(slices, k) /\ UNCHANGED typed
      BY <1>0, <1>a, <2>2, TouchKeeps
    <2>3. CASE UNCHANGED <<slices, typed>>
      BY <1>0, <1>a, <2>3
    <2> QED
      BY <1>1, <2>1, <2>2, <2>3, LookUpEffect
  <1>2. ASSUME NEW r \in Threads, NEW k \in Slices, ParseTyped(r, k)
        PROVE  Sound(slices') /\ Sound(typed') /\ AccountsKept'
    <2> DEFINE x == Entry(r, k)
    <2>1. typed' = Put(typed, x, TypedBudget, TRUE) /\ UNCHANGED slices
      BY <1>2 DEF ParseTyped
    <2>2. x \in CacheEntry
      BY <1>c
    <2> HIDE DEF x
    <2>3. Sound(typed') /\ (typed'.current <= TypedBudget \/ Len(typed'.entries) = 1)
      BY <1>0, <2>1, <2>2, ParsedKeeps
    <2> QED
      BY <1>0, <1>a, <2>1, <2>3
  <1>3. ASSUME NEW r \in Threads, NEW k \in Slices, PutSlice(r, k)
        PROVE  Sound(slices') /\ Sound(typed') /\ AccountsKept'
    <2> DEFINE x == Entry(r, k)
    <2>1. slices' = Put(slices, x, SliceBudget, FALSE) /\ UNCHANGED typed
      BY <1>3 DEF PutSlice
    <2>2. x \in CacheEntry
      BY <1>c
    <2> HIDE DEF x
    <2>3. Sound(slices') /\ slices'.current <= SliceBudget
      BY <1>0, <2>1, <2>2, SlicePutKeeps
    <2> QED
      BY <1>0, <1>a, <2>1, <2>3
  <1>4. ASSUME BeginClose PROVE Sound(slices') /\ Sound(typed') /\ AccountsKept'
    <2>1. slices' = EmptyCache /\ typed' = EmptyCache
      BY <1>4 DEF BeginClose
    <2> QED
      BY <1>0, <1>a, <2>1, EmptyIsSound
  <1>5. CASE UNCHANGED <<slices, typed>>
    BY <1>0, <1>a, <1>5
  <1> QED
    BY <1>1, <1>2, <1>3, <1>4, <1>5, CachesUsed

\* A thread has changed bytes only of an overwritten file: it reads from a descriptor that
\* was verified.
LEMMA ThreadsTrueStep ==
  ASSUME IInv, [Next]_vars PROVE ThreadsTrue'
  <1> USE StoreAssumption DEF IInv, BytesTrue
  <1>1. ASSUME NEW r \in Threads, NEW k \in Slices, LookUp(r, k) PROVE ThreadsTrue'
    BY <1>1, LookUpEffect DEF ThreadsTrue, Stained
  <1>2. ASSUME NEW r \in Threads, NEW k \in Slices, ParseTyped(r, k) PROVE ThreadsTrue'
    BY <1>2 DEF ParseTyped, At, Going, Returned, Released, ThreadsTrue, Stained, TypeOK, Idle, outside, files, history
  <1>3. ASSUME NEW r \in Threads, NEW k \in Slices, PutSlice(r, k) PROVE ThreadsTrue'
    BY <1>3 DEF PutSlice, At, Going, Returned, ThreadsTrue, Stained, TypeOK, Idle, outside, files, history
  <1>4. ASSUME NEW r \in Threads, Served(r) PROVE ThreadsTrue'
    BY <1>4 DEF Served, At, Going, Released, ThreadsTrue, Stained, TypeOK, Idle, outside, files, history
  <1>5. ASSUME NEW r \in Threads, Acquire(r) PROVE ThreadsTrue'
    BY <1>5 DEF Acquire, At, Going, ThreadsTrue, Stained, TypeOK, Idle, outside, files, history
  <1>6. ASSUME NEW r \in Threads, EnterOpen(r) PROVE ThreadsTrue'
    BY <1>6 DEF EnterOpen, Entering, Reading, At, Going, ThreadsTrue, Stained, TypeOK, Idle, outside, files, history
  <1>7. ASSUME NEW r \in Threads, OpenFile(r) PROVE ThreadsTrue'
    BY <1>7 DEF OpenFile, Entering, At, Going, ThreadsTrue, Stained, TypeOK, Idle, outside, files, history
  <1>8. ASSUME NEW r \in Threads, Verify(r) PROVE ThreadsTrue'
    BY <1>8 DEF Verify, At, Going, ThreadsTrue, Stained, TypeOK, Idle, outside, files, history
  <1>9. ASSUME NEW r \in Threads, Register(r) PROVE ThreadsTrue'
    BY <1>9 DEF Register, At, Reading, Going, ThreadsTrue, Stained, TypeOK, Idle, outside, files, history
  <1>10. ASSUME NEW r \in Threads, Raise(r) PROVE ThreadsTrue'
    BY <1>10 DEF Raise, Entering, At, Going, Released, ThreadsTrue, Stained, TypeOK, Idle, outside, files, history
  <1>11. ASSUME NEW r \in Threads, ReadChunk(r) PROVE ThreadsTrue'
    <2> DEFINE t == thread[r]
               d == descriptor[t.file][t.by]
    <2>1. t.by \in Threads /\ (readers[t.file] = t.by \/ <<t.file, t.by>> \in doomed) /\ t.file \in Files
      BY <1>11, TypesApart DEF ReadChunk, At, Descriptors, ReadFrom, ThreadType
    <2>2. ~Opening(t.by, t.file)
      BY <2>1 DEF Descriptors, OpeningAlone
    <2>3. d = "changed" => Stained(t.file)
      BY <2>1, <2>2 DEF ChangedFound, Opening, Stained
    <2> DEFINE c == t.bad \/ d = "changed"
    <2>4. thread' = [thread EXCEPT ![r] = [t EXCEPT !.left = t.left - 1, !.bad = c]] /\ UNCHANGED overwritten
      BY <1>11 DEF ReadChunk, Going, outside
    <2>5. (c => Stained(t.file)) /\ t \in ThreadType
      BY <2>3, TypesApart DEF ThreadsTrue
    <2> HIDE DEF c, d
    <2>6. /\ thread'[r].file = thread[r].file /\ thread'[r].bad = c
          /\ \A q \in Threads : q # r => thread'[q] = thread[q]
      BY <2>4, <2>5, TypesApart DEF ThreadType
    <2> QED
      BY <2>4, <2>5, <2>6 DEF ThreadsTrue, Stained
  <1>12. ASSUME NEW r \in Threads, LeaveFile(r) PROVE ThreadsTrue'
    BY <1>12 DEF LeaveFile, At, Going, Released, ThreadsTrue, Stained, TypeOK, Idle, outside, files, history
  <1>13. ASSUME NEW r \in Threads, NEW S \in Requests, Request(r, S) PROVE ThreadsTrue'
    <2>1. PICK f \in Files : thread' = [thread EXCEPT ![r] = [Idle EXCEPT !.pc = "looking", !.file = f,
                                           !.todo = S, !.group = Cardinality(S) > 1]]
      BY <1>13, Zenon DEF Request, Going
    <2> DEFINE several == Cardinality(S) > 1
    <2>2. thread' = [thread EXCEPT ![r] = [Idle EXCEPT !.pc = "looking", !.file = f,
                                           !.todo = S, !.group = several]]
      BY <2>1
    <2> HIDE DEF several
    <2>3. ~thread'[r].bad /\ \A q \in Threads : q # r => thread'[q] = thread[q]
      BY <2>2, TypesApart DEF Idle
    <2> QED
      BY <1>13, <2>3 DEF ThreadsTrue, Stained, Request, outside
  <1>14. ASSUME BeginClose PROVE ThreadsTrue'
    BY <1>14 DEF BeginClose, ThreadsTrue, Stained, TypeOK, Idle, outside, files, history
  <1>15. ASSUME NEW f \in Files, NEW r \in Threads, CloseReader(f, r) PROVE ThreadsTrue'
    BY <1>15 DEF CloseReader, ThreadsTrue, Stained, TypeOK, Idle, outside, files, history
  <1>16. ASSUME CloseReturns PROVE ThreadsTrue'
    BY <1>16 DEF CloseReturns, ThreadsTrue, Stained, TypeOK, Idle, outside, files, history
  <1>17. ASSUME NEW f \in Files, SwapFile(f) PROVE ThreadsTrue'
    BY <1>17 DEF SwapFile, ThreadsTrue, Stained, TypeOK, Idle, outside, files, history
  <1>18. ASSUME NEW f \in Files, OverwriteFile(f) PROVE ThreadsTrue'
    BY <1>18 DEF OverwriteFile, ThreadsTrue, Stained, TypeOK, Idle, outside, files, history
  <1>19. CASE UNCHANGED vars
    BY <1>19 DEF vars, ThreadsTrue, Stained, TypeOK, Idle
  <1> QED
    BY <1>1, <1>2, <1>3, <1>4, <1>5, <1>6, <1>7, <1>8, <1>9, <1>10, <1>11, <1>12, <1>13, <1>14, <1>15, <1>16, <1>17, <1>18, <1>19 DEF Next, Proceed, CloseProceeds

\* What is overwritten stays so.
LEMMA OverwrittenStays ==
  ASSUME IInv, [Next]_vars, NEW f, Stained(f) PROVE Stained(f)'
  <1>1. overwritten \subseteq overwritten'
    <2>1. ASSUME NEW r \in Threads, Proceed(r) PROVE UNCHANGED overwritten
      BY <2>1, LookUpEffect DEF Proceed, ParseTyped, PutSlice, Served, Acquire, EnterOpen, OpenFile,
           Verify, Register, Raise, ReadChunk, LeaveFile, outside
    <2>2. ASSUME NEW r \in Threads, NEW S \in Requests, Request(r, S) PROVE UNCHANGED overwritten
      BY <2>2 DEF Request, outside
    <2>3. BeginClose \/ CloseProceeds \/ UNCHANGED vars => UNCHANGED overwritten
      BY DEF BeginClose, CloseProceeds, CloseReturns, CloseReader, vars
    <2>4. \A g \in Files : SwapFile(g) \/ OverwriteFile(g) => overwritten \subseteq overwritten'
      BY DEF SwapFile, OverwriteFile
    <2> QED
      BY <2>1, <2>2, <2>3, <2>4 DEF Next
  <1> QED
    BY <1>1 DEF Stained

\* What a cache gives out is as true as what it holds.
LEMMA EntryTrue ==
  ASSUME NEW c, Sound(c), CacheTrue(c), NEW k \in Keys(c), EntryFor(c, k).bad
  PROVE  Stained(FileOf[k])
  <1> DEFINE e == c.entries
             p == Place(e, k)
  <1>1. e \in Seq(CacheEntry) /\ DOMAIN e = 1..Len(e)
    BY DEF Sound, CacheType
  <1>2. PICK i \in 1..Len(e) : e[i].key = k
    BY <1>1 DEF Keys
  <1>3. p \in 1..Len(e) /\ e[p].key = k
    BY <1>1, <1>2, PlaceFound
  <1>4. e[p].bad
    BY DEF EntryFor
  <1> HIDE DEF p
  <1> QED
    BY <1>3, <1>4 DEF CacheTrue

\* Three actions return bytes: from a cache, or those of their thread.
LEMMA StainedTrueStep ==
  ASSUME IInv, [Next]_vars PROVE StainedTrue'
  <1>0. /\ StainedTrue /\ ThreadsTrue /\ CacheTrue(slices) /\ CacheTrue(typed)
        /\ Sound(slices) /\ Sound(typed)
    BY DEF IInv, BytesTrue, Caches
  <1>a. ASSUME UNCHANGED stained PROVE StainedTrue'
    BY <1>0, <1>a, OverwrittenStays DEF StainedTrue
  <1>b. ASSUME NEW g, Stained(g), stained' = stained \cup {g} PROVE StainedTrue'
    BY <1>0, <1>b, OverwrittenStays DEF StainedTrue
  <1>1. ASSUME NEW r \in Threads, NEW k \in Slices, LookUp(r, k) PROVE StainedTrue'
    <2>1. CASE k \in Keys(typed) /\ EntryFor(typed, k).bad /\ stained' = stained \cup {FileOf[k]}
      BY <1>0, <1>b, <2>1, EntryTrue
    <2>2. CASE k \in Keys(slices) /\ EntryFor(slices, k).bad /\ stained' = stained \cup {FileOf[k]}
      BY <1>0, <1>b, <2>2, EntryTrue
    <2>3. CASE UNCHANGED stained
      BY <1>a, <2>3
    <2> QED
      BY <1>1, <2>1, <2>2, <2>3, LookUpEffect
  <1>2. ASSUME NEW r \in Threads, NEW k \in Slices, k \in thread[r].missing, Returned(k, thread[r].bad)
        PROVE  StainedTrue'
    <2>1. FileOf[k] = thread[r].file
      BY <1>2 DEF IInv, WantedThere
    <2>2. CASE thread[r].bad
      <3>1. Stained(FileOf[k]) /\ stained' = stained \cup {FileOf[k]}
        BY <1>0, <1>2, <2>1, <2>2 DEF ThreadsTrue, Returned
      <3> QED
        BY <1>b, <3>1
    <2>3. CASE ~thread[r].bad
      BY <1>a, <1>2, <2>3 DEF Returned
    <2> QED
      BY <2>2, <2>3
  <1>3. ASSUME NEW r \in Threads, NEW k \in Slices, ParseTyped(r, k) \/ PutSlice(r, k) PROVE StainedTrue'
    <2>1. k \in thread[r].missing /\ Returned(k, thread[r].bad)
      BY <1>3 DEF ParseTyped, PutSlice
    <2> QED
      BY <1>2, <2>1
  <1>4. ASSUME NEW r \in Threads
        PROVE  /\ Served(r) \/ Acquire(r) \/ EnterOpen(r) \/ OpenFile(r) \/ Verify(r) => UNCHANGED stained
               /\ Register(r) \/ Raise(r) \/ ReadChunk(r) \/ LeaveFile(r) => UNCHANGED stained
    BY DEF Served, Acquire, EnterOpen, OpenFile, Verify, Register, Raise, ReadChunk, LeaveFile, history
  <1>5. ASSUME NEW r \in Threads, NEW S \in Requests, Request(r, S) PROVE UNCHANGED stained
    BY <1>5 DEF Request, history
  <1>6. BeginClose \/ CloseProceeds \/ UNCHANGED vars => UNCHANGED stained
    BY DEF BeginClose, CloseProceeds, CloseReturns, CloseReader, vars, history
  <1>7. \A f \in Files : SwapFile(f) \/ OverwriteFile(f) => UNCHANGED stained
    BY DEF SwapFile, OverwriteFile, history
  <1> QED
    BY <1>a, <1>1, <1>3, <1>4, <1>5, <1>6, <1>7 DEF Next, Proceed

\* A cache is as true as what is put into it.
LEMMA CachesTrueStep ==
  ASSUME IInv, [Next]_vars PROVE CacheTrue(slices)' /\ CacheTrue(typed)'
  <1>0. /\ ThreadsTrue /\ CacheTrue(slices) /\ CacheTrue(typed) /\ Sound(slices) /\ Sound(typed)
        /\ slices.current <= SliceBudget /\ SliceBudget \in Nat /\ TypedBudget \in Nat
    BY StoreAssumption DEF IInv, BytesTrue, Caches, TypeOK, AccountsKept
  <1>a. ASSUME CacheTrue(slices'), CacheTrue(typed') PROVE CacheTrue(slices)' /\ CacheTrue(typed)'
    BY <1>a, OverwrittenStays DEF CacheTrue
  <1>b. ASSUME NEW c, NEW v, CacheTrue(c), Within(v.entries, c.entries) PROVE CacheTrue(v)
    BY <1>b DEF CacheTrue, Within
  <1>c. ASSUME NEW c, NEW v, NEW x, CacheTrue(c), x.bad => Stained(FileOf[x.key]),
               \A i \in 1..Len(v.entries) :
                 v.entries[i] = x \/ \E j \in 1..Len(c.entries) : v.entries[i] = c.entries[j]
        PROVE  CacheTrue(v)
    BY <1>c DEF CacheTrue
  <1>d. ASSUME NEW r \in Threads, NEW k \in Slices, k \in thread[r].missing
        PROVE  /\ Entry(r, k) \in CacheEntry /\ Entry(r, k).key = k
               /\ Entry(r, k).bad => Stained(FileOf[Entry(r, k).key])
    <2>1. thread[r].bad \in BOOLEAN /\ Cost[k] \in Nat
      BY WantedAreSlices, ThreadFields, StoreAssumption
    <2>2. FileOf[k] = thread[r].file
      BY <1>d DEF IInv, WantedThere
    <2>3. Entry(r, k) \in CacheEntry /\ Entry(r, k).key = k
      BY <2>1 DEF Entry, CacheEntry
    <2>4. Entry(r, k).bad => thread[r].bad
      BY Zenon DEF Entry
    <2> QED
      BY <1>0, <2>2, <2>3, <2>4 DEF ThreadsTrue
  <1>1. ASSUME NEW r \in Threads, NEW k \in Slices, LookUp(r, k) PROVE CacheTrue(slices') /\ CacheTrue(typed')
    <2>1. CASE k \in Keys(typed) /\ typed' = Touch(typed, k) /\ UNCHANGED slices
      <3>1. Within(typed'.entries, typed.entries)
        BY <1>0, <2>1, TouchKeeps
      <3> QED
        BY <1>0, <1>b, <2>1, <3>1
    <2>2. CASE k \in Keys(slices) /\ slices' = Touch(slices, k) /\ UNCHANGED typed
      <3>1. Within(slices'.entries, slices.entries)
        BY <1>0, <2>2, TouchKeeps
      <3> QED
        BY <1>0, <1>b, <2>2, <3>1
    <2>3. CASE UNCHANGED <<slices, typed>>
      BY <1>0, <2>3
    <2> QED
      BY <1>1, <2>1, <2>2, <2>3, LookUpEffect
  <1>2. ASSUME NEW r \in Threads, NEW k \in Slices, ParseTyped(r, k)
        PROVE  CacheTrue(slices') /\ CacheTrue(typed')
    <2> DEFINE x == Entry(r, k)
    <2>1. typed' = Put(typed, x, TypedBudget, TRUE) /\ UNCHANGED slices /\ k \in thread[r].missing
      BY <1>2 DEF ParseTyped
    <2>2. x \in CacheEntry /\ (x.bad => Stained(FileOf[x.key]))
      BY <1>d, <2>1
    <2> HIDE DEF x
    <2>3. \A i \in 1..Len(typed'.entries) :
            typed'.entries[i] = x \/ \E j \in 1..Len(typed.entries) : typed'.entries[i] = typed.entries[j]
      <3> DEFINE v == Put(typed, x, TypedBudget, TRUE)
      <3>1. \A i \in 1..Len(v.entries) :
              v.entries[i] = x \/ \E j \in 1..Len(typed.entries) : v.entries[i] = typed.entries[j]
        BY <1>0, <2>2, ParsedFrom
      <3> QED
        BY <2>1, <3>1, Zenon
    <2>4. CacheTrue(typed')
      BY <1>0, <1>c, <2>2, <2>3, Zenon
    <2> QED
      BY <1>0, <2>1, <2>4
  <1>3. ASSUME NEW r \in Threads, NEW k \in Slices, PutSlice(r, k)
        PROVE  CacheTrue(slices') /\ CacheTrue(typed')
    <2> DEFINE x == Entry(r, k)
    <2>1. slices' = Put(slices, x, SliceBudget, FALSE) /\ UNCHANGED typed /\ k \in thread[r].missing
      BY <1>3 DEF PutSlice
    <2>2. x \in CacheEntry /\ (x.bad => Stained(FileOf[x.key]))
      BY <1>d, <2>1
    <2> HIDE DEF x
    <2>3. \A i \in 1..Len(slices'.entries) :
            slices'.entries[i] = x \/ \E j \in 1..Len(slices.entries) : slices'.entries[i] = slices.entries[j]
      BY <1>0, <2>1, <2>2, SlicePutKeeps
    <2>4. CacheTrue(slices')
      BY <1>0, <1>c, <2>2, <2>3, Zenon
    <2> QED
      BY <1>0, <2>1, <2>4
  <1>4. ASSUME BeginClose PROVE CacheTrue(slices') /\ CacheTrue(typed')
    <2>1. slices' = EmptyCache /\ typed' = EmptyCache
      BY <1>4 DEF BeginClose
    <2> QED
      BY <2>1 DEF EmptyCache, CacheTrue
  <1>5. CASE UNCHANGED <<slices, typed>>
    BY <1>0, <1>5, <1>a
  <1> QED
    BY <1>a, <1>1, <1>2, <1>3, <1>4, <1>5, CachesUsed

\* What the actions do to the keys of the typed cache.
LEMMA TypedKeysStep ==
  ASSUME IInv, [Next]_vars
  PROVE  \/ Keys(typed') = Keys(typed)
         \/ BeginClose /\ Keys(typed') = {}
         \/ \E r \in Threads, k \in Slices : ParseTyped(r, k) /\ Keys(typed') \subseteq Keys(typed) \cup {k}
  <1>0. Sound(typed) /\ TypedBudget \in Nat
    BY StoreAssumption DEF IInv, Caches
  <1>1. ASSUME NEW r \in Threads, NEW k \in Slices, LookUp(r, k) PROVE Keys(typed') = Keys(typed)
    <2>1. CASE k \in Keys(typed) /\ typed' = Touch(typed, k)
      BY <1>0, <2>1, TouchKeeps
    <2>2. CASE UNCHANGED typed
      BY <2>2
    <2> QED
      BY <1>1, <2>1, <2>2, LookUpEffect
  <1>2. ASSUME NEW r \in Threads, NEW k \in Slices, ParseTyped(r, k)
        PROVE  Keys(typed') \subseteq Keys(typed) \cup {k}
    <2> DEFINE x == Entry(r, k)
    <2>1. typed' = Put(typed, x, TypedBudget, TRUE)
      BY <1>2 DEF ParseTyped
    <2>2. x \in CacheEntry /\ x.key = k
      <3>1. thread[r].bad \in BOOLEAN /\ Cost[k] \in Nat
        BY WantedAreSlices, ThreadFields, StoreAssumption
      <3> QED
        BY <3>1 DEF Entry, CacheEntry
    <2> HIDE DEF x
    <2>3. Keys(Put(typed, x, TypedBudget, TRUE)) \subseteq Keys(typed) \cup {x.key}
      BY <1>0, <2>2, ParsedKeeps
    <2> QED
      BY <2>1, <2>2, <2>3
  <1>3. ASSUME NEW r \in Threads, NEW k \in Slices, PutSlice(r, k) PROVE UNCHANGED typed
    BY <1>3 DEF PutSlice
  <1>4. ASSUME BeginClose PROVE Keys(typed') = {}
    BY <1>4 DEF BeginClose, EmptyCache, Keys
  <1> QED
    BY <1>1, <1>2, <1>3, <1>4, CachesUsed

\* What the actions add to the slices that were read, and to those that were read again.
LEMMA ProducedStep ==
  ASSUME IInv, [Next]_vars
  PROVE  /\ \/ produced' \cap Typed \subseteq produced
            \/ \E r \in Threads, k \in Slices : ParseTyped(r, k)
         /\ \A r \in Threads, k \in Slices :
              ParseTyped(r, k) => produced' \cap Typed \subseteq Keys(typed')
         /\ BeginClose => produced' = {}
         /\ \/ UNCHANGED repeated
            \/ \E r \in Threads : /\ thread[r].pc \in {"locked", "verified"}
                                  /\ repeated' = repeated \cup (thread[r].missing \cap produced)
  <1>1. ASSUME NEW r \in Threads, NEW k \in Slices, LookUp(r, k) PROVE UNCHANGED <<produced, repeated>>
    BY <1>1 DEF LookUp
  <1>2. ASSUME NEW r \in Threads, NEW k \in Slices, ParseTyped(r, k)
        PROVE  produced' \cap Typed \subseteq Keys(typed') /\ UNCHANGED repeated
    BY <1>2 DEF ParseTyped
  <1>3. ASSUME NEW r \in Threads, NEW k \in Slices, PutSlice(r, k)
        PROVE  produced' \cap Typed \subseteq produced /\ UNCHANGED repeated
    BY <1>3 DEF PutSlice
  <1>4. ASSUME NEW r \in Threads, LeaveFile(r)
        PROVE  produced' \cap Typed \subseteq produced /\ UNCHANGED repeated
    BY <1>4 DEF LeaveFile
  <1>5. ASSUME NEW r \in Threads, EnterOpen(r) \/ Register(r)
        PROVE  /\ UNCHANGED produced /\ thread[r].pc \in {"locked", "verified"}
               /\ repeated' = repeated \cup (thread[r].missing \cap produced)
    BY <1>5 DEF EnterOpen, Register, Entering, Reading, At
  <1>6. ASSUME NEW r \in Threads
        PROVE  /\ Served(r) \/ Acquire(r) \/ OpenFile(r) \/ Verify(r) => UNCHANGED <<produced, repeated>>
               /\ Raise(r) \/ ReadChunk(r) => UNCHANGED <<produced, repeated>>
    BY DEF Served, Acquire, OpenFile, Verify, Raise, ReadChunk, history
  <1>7. ASSUME NEW r \in Threads, NEW S \in Requests, Request(r, S) PROVE UNCHANGED <<produced, repeated>>
    BY <1>7 DEF Request, history
  <1>8. BeginClose => produced' = {} /\ UNCHANGED repeated
    BY DEF BeginClose
  <1>9. CloseProceeds \/ UNCHANGED vars => UNCHANGED <<produced, repeated>>
    BY DEF CloseProceeds, CloseReturns, CloseReader, vars, history
  <1>10. \A f \in Files : SwapFile(f) \/ OverwriteFile(f) => UNCHANGED <<produced, repeated>>
    BY DEF SwapFile, OverwriteFile, history
  <1> QED
    BY <1>1, <1>2, <1>3, <1>4, <1>5, <1>6, <1>7, <1>8, <1>9, <1>10 DEF Next, Proceed

\* A thread about to read, and what it will read, was so before or has just found the slice
\* missing from its cache.
MissingFrom ==
  \A q \in Threads, j \in Slices :
    /\ thread'[q].pc \in {"locked", "hashing", "verified"} /\ j \in thread'[q].missing
    => \/ thread[q].pc \in {"locked", "hashing", "verified"} /\ j \in thread[q].missing
       \/ ~Holds(CacheOf(j), j)

\* MissingFrom, action by action.
LEMMA MissingStep ==
  ASSUME IInv, [Next]_vars PROVE MissingFrom
  <1> USE StoreAssumption DEF IInv
  <1>1. ASSUME NEW r \in Threads, NEW k \in Slices, LookUp(r, k) PROVE MissingFrom
    <2>1. \A q \in Threads : thread'[q].pc = thread[q].pc /\ (q # r => thread'[q] = thread[q])
      BY <1>1, LookUpEffect
    <2>2. \A j \in thread'[r].missing : j \in thread[r].missing \/ ~Holds(CacheOf(j), j)
      BY <1>1, LookUpEffect
    <2> QED
      BY <2>1, <2>2 DEF MissingFrom
  <1>2. ASSUME NEW r \in Threads, NEW k \in Slices, ParseTyped(r, k) PROVE MissingFrom
    BY <1>2 DEF ParseTyped, At, Going, Returned, Released, MissingFrom, TypeOK, Idle, outside, files, history
  <1>3. ASSUME NEW r \in Threads, NEW k \in Slices, PutSlice(r, k) PROVE MissingFrom
    BY <1>3 DEF PutSlice, At, Going, Returned, MissingFrom, TypeOK, Idle, outside, files, history
  <1>4. ASSUME NEW r \in Threads, Served(r) PROVE MissingFrom
    BY <1>4 DEF Served, At, Going, Released, MissingFrom, TypeOK, Idle, outside, files, history
  <1>5. ASSUME NEW r \in Threads, Acquire(r) PROVE MissingFrom
    BY <1>5 DEF Acquire, At, Going, MissingFrom, TypeOK, Idle, outside, files, history
  <1>6. ASSUME NEW r \in Threads, EnterOpen(r) PROVE MissingFrom
    BY <1>6 DEF EnterOpen, Entering, Reading, At, Going, MissingFrom, TypeOK, Idle, outside, files, history
  <1>7. ASSUME NEW r \in Threads, OpenFile(r) PROVE MissingFrom
    BY <1>7 DEF OpenFile, Entering, At, Going, MissingFrom, TypeOK, Idle, outside, files, history
  <1>8. ASSUME NEW r \in Threads, Verify(r) PROVE MissingFrom
    BY <1>8 DEF Verify, At, Going, MissingFrom, TypeOK, Idle, outside, files, history
  <1>9. ASSUME NEW r \in Threads, Register(r) PROVE MissingFrom
    BY <1>9 DEF Register, At, Reading, Going, MissingFrom, TypeOK, Idle, outside, files, history
  <1>10. ASSUME NEW r \in Threads, Raise(r) PROVE MissingFrom
    BY <1>10 DEF Raise, Entering, At, Going, Released, MissingFrom, TypeOK, Idle, outside, files, history
  <1>11. ASSUME NEW r \in Threads, ReadChunk(r) PROVE MissingFrom
    BY <1>11 DEF ReadChunk, At, Going, MissingFrom, TypeOK, Idle, outside, files, history
  <1>12. ASSUME NEW r \in Threads, LeaveFile(r) PROVE MissingFrom
    BY <1>12 DEF LeaveFile, At, Going, Released, MissingFrom, TypeOK, Idle, outside, files, history
  <1>13. ASSUME NEW r \in Threads, NEW S \in Requests, Request(r, S) PROVE MissingFrom
    <2>1. PICK f \in Files : thread' = [thread EXCEPT ![r] = [Idle EXCEPT !.pc = "looking", !.file = f,
                                           !.todo = S, !.group = Cardinality(S) > 1]]
      BY <1>13, Zenon DEF Request, Going
    <2> DEFINE several == Cardinality(S) > 1
    <2>2. thread' = [thread EXCEPT ![r] = [Idle EXCEPT !.pc = "looking", !.file = f,
                                           !.todo = S, !.group = several]]
      BY <2>1
    <2> HIDE DEF several
    <2>3. thread'[r].pc = "looking" /\ \A q \in Threads : q # r => thread'[q] = thread[q]
      BY <2>2, TypesApart DEF Idle
    <2> QED
      BY <1>13, <2>3 DEF MissingFrom
  <1>14. ASSUME BeginClose PROVE MissingFrom
    BY <1>14 DEF BeginClose, MissingFrom, TypeOK, Idle, outside, files, history
  <1>15. ASSUME NEW f \in Files, NEW r \in Threads, CloseReader(f, r) PROVE MissingFrom
    BY <1>15 DEF CloseReader, MissingFrom, TypeOK, Idle, outside, files, history
  <1>16. ASSUME CloseReturns PROVE MissingFrom
    BY <1>16 DEF CloseReturns, MissingFrom, TypeOK, Idle, outside, files, history
  <1>17. ASSUME NEW f \in Files, SwapFile(f) PROVE MissingFrom
    BY <1>17 DEF SwapFile, MissingFrom, TypeOK, Idle, outside, files, history
  <1>18. ASSUME NEW f \in Files, OverwriteFile(f) PROVE MissingFrom
    BY <1>18 DEF OverwriteFile, MissingFrom, TypeOK, Idle, outside, files, history
  <1>19. CASE UNCHANGED vars
    BY <1>19 DEF vars, MissingFrom, TypeOK, Idle
  <1> QED
    BY <1>1, <1>2, <1>3, <1>4, <1>5, <1>6, <1>7, <1>8, <1>9, <1>10, <1>11, <1>12, <1>13, <1>14, <1>15, <1>16, <1>17, <1>18, <1>19 DEF Next, Proceed, CloseProceeds

\* Typed tensors are parsed once: what a thread will parse is in nobody's cache, for only the
\* holder of a file's lock parses its tensors.
LEMMA TypedKeptStep ==
  ASSUME IInv, [Next]_vars PROVE TypedKept'
  <1>0. /\ produced \cap Typed \subseteq Keys(typed) /\ repeated \cap Typed = {}
        /\ \A r \in Threads : thread[r].pc \in {"locked", "hashing", "verified"} =>
             thread[r].missing \cap Typed \cap Keys(typed) = {}
        /\ thread' \in [Threads -> ThreadType]
    BY ThreadsStep DEF IInv, TypedKept
  <1>1. produced' \cap Typed \subseteq Keys(typed')
    <2>1. CASE \E r \in Threads, k \in Slices : ParseTyped(r, k)
      BY <2>1, ProducedStep
    <2>2. CASE BeginClose
      BY <2>2, ProducedStep
    <2>3. CASE Keys(typed') = Keys(typed) /\ produced' \cap Typed \subseteq produced
      BY <1>0, <2>3
    <2> QED
      BY <2>1, <2>2, <2>3, ProducedStep, TypedKeysStep
  <1>2. repeated' \cap Typed = {}
    BY <1>0, ProducedStep
  <1>3. ASSUME NEW q \in Threads, NEW j \in Slices, j \in Typed, j \in Keys(typed'),
               thread'[q].pc \in {"locked", "hashing", "verified"}, j \in thread'[q].missing
        PROVE  FALSE
    <2>1. j \notin Keys(typed)
      BY <1>0, <1>3, MissingStep DEF MissingFrom, CacheOf, Holds
    <2>2. PICK r \in Threads : ParseTyped(r, j)
      BY <1>3, <2>1, TypedKeysStep
    <2>3. thread' = [thread EXCEPT ![r] = Idle] /\ thread[r].pc = "reading" /\ thread[r].missing = {j}
      BY <2>2 DEF ParseTyped, Going, At
    <2>4. thread \in [Threads -> ThreadType]
      BY TypesApart
    <2>5. q # r /\ thread[q] = thread'[q]
      BY <1>3, <2>3, <2>4 DEF Idle
    <2>6. /\ thread[q].file = FileOf[j] /\ thread[r].file = FileOf[j] /\ FileOf[j] \in Files
          /\ Working(q) /\ Working(r)
      BY <1>3, <2>3, <2>5, StoreAssumption DEF IInv, WantedThere, Working
    <2>7. holder[FileOf[j]] = q /\ holder[FileOf[j]] = r
      BY <2>6 DEF IInv, Descriptors, LocksHeld
    <2> QED
      BY <2>5, <2>7
  <1> QED
    BY <1>0, <1>1, <1>2, <1>3 DEF TypedKept, ThreadType, Keys

-----------------------------------------------------------------------------
(* The theorems. *)

LEMMA InitSound == Init => IInv
  <1> SUFFICES ASSUME Init PROVE IInv
    OBVIOUS
  <1>1. /\ slices = EmptyCache /\ typed = EmptyCache /\ produced = {} /\ repeated = {} /\ stained = {}
        /\ thread = [r \in Threads |-> Idle] /\ doomed = {} /\ closing = "open" /\ overwritten = {}
        /\ \A f \in Files, r \in Threads : /\ descriptor[f][r] = "closed" /\ readers[f] = NoOne
                                           /\ holder[f] = NoOne /\ readers[f] # r /\ holder[f] # r
    BY StoreAssumption DEF Init
  <1>2. \A r \in Threads : /\ thread[r].pc = "idle" /\ thread[r].todo = {} /\ thread[r].missing = {}
                           /\ thread[r].bad = FALSE
    BY <1>1 DEF Idle
  <1>3. StateTypes
    BY <1>1, StoreAssumption DEF Init, StateTypes
  <1>4. thread \in [Threads -> ThreadType]
    BY <1>1, IdleTyped
  <1>5. /\ Sound(slices) /\ Sound(typed) /\ slices.current = 0 /\ typed.current = 0
        /\ slices.current = CostOf(slices.entries) /\ typed.current = CostOf(typed.entries)
    BY <1>1, EmptyIsSound DEF Sound
  <1>6. slices \in CacheType /\ typed \in CacheType /\ AccountsKept
    BY <1>5, StoreAssumption DEF Sound, AccountsKept
  <1>7. TypeOK /\ Caches
    BY <1>3, <1>4, <1>5, <1>6, TypesApart DEF Caches
  <1>8. WantedThere
    BY <1>2 DEF WantedThere
  <1>9. Descriptors
    BY <1>1, <1>2 DEF Descriptors, LocksHeld, Working, OpenOwned, ReadersOpen, DoomedOpen, OpeningAlone,
                      Opening, ReadFrom
  <1>10. ChangedFound
    BY <1>1, StoreAssumption DEF ChangedFound
  <1>11. BytesTrue
    BY <1>1, <1>2 DEF BytesTrue, ThreadsTrue, StainedTrue, CacheTrue, EmptyCache
  <1>12. TypedKept
    BY <1>1, <1>2 DEF TypedKept
  <1> QED
    BY <1>7, <1>8, <1>9, <1>10, <1>11, <1>12 DEF IInv

LEMMA StepSound == IInv /\ [Next]_vars => IInv'
  <1> SUFFICES ASSUME IInv, [Next]_vars PROVE IInv'
    OBVIOUS
  <1>1. Sound(slices') /\ Sound(typed') /\ AccountsKept'
    BY CachesStep
  <1>2. Caches'
    BY <1>1 DEF Caches, Sound
  <1>3. slices' \in CacheType /\ typed' \in CacheType
    BY <1>1 DEF Sound
  <1>4. TypeOK'
    BY <1>1, <1>3, TypesStep, ThreadsStep DEF TypeOK, StateTypes, ThreadType
  <1>5. WantedThere'
    BY WantedStep
  <1>6. Descriptors'
    BY LocksStep, OwnedStep, ReadersStep, DoomedStep, OpeningStep, ReadFromStep DEF Descriptors
  <1>7. ChangedFound'
    BY ChangedStep
  <1>8. BytesTrue'
    BY ThreadsTrueStep, StainedTrueStep, CachesTrueStep DEF BytesTrue
  <1>9. TypedKept'
    BY TypedKeptStep
  <1> QED
    BY <1>2, <1>4, <1>5, <1>6, <1>7, <1>8, <1>9 DEF IInv

\* An open descriptor is the store's, close()'s or that of the thread that verifies it, and
\* each of the three excludes the others.
LEMMA OneIsOpen ==
  ASSUME IInv, NEW f \in Files, NEW r \in Open(f), NEW q \in Open(f)
  PROVE  q = r
  <1>1. /\ r \in Threads /\ q \in Threads
        /\ readers[f] = r \/ <<f, r>> \in doomed \/ Opening(r, f)
        /\ readers[f] = q \/ <<f, q>> \in doomed \/ Opening(q, f)
    BY DEF Open, IInv, Descriptors, OpenOwned
  <1>2. CASE Opening(r, f) /\ Opening(q, f)
    <2>1. holder[f] = r /\ holder[f] = q
      BY <1>1, <1>2 DEF IInv, Descriptors, LocksHeld, Opening, Working
    <2> QED
      BY <2>1
  <1>3. CASE Opening(r, f) /\ ~Opening(q, f)
    BY <1>1, <1>3 DEF IInv, Descriptors, OpeningAlone
  <1>4. CASE ~Opening(r, f) /\ Opening(q, f)
    BY <1>1, <1>4 DEF IInv, Descriptors, OpeningAlone
  <1>5. CASE ~Opening(r, f) /\ ~Opening(q, f)
    BY <1>1, <1>5 DEF IInv, Descriptors, ReadersOpen, DoomedOpen
  <1> QED
    BY <1>2, <1>3, <1>4, <1>5

LEMMA InvariantSound == IInv => ReadsSound
  <1> SUFFICES ASSUME IInv PROVE ReadsSound
    OBVIOUS
  <1>1. ASSUME NEW f \in Files PROVE Cardinality(Open(f)) <= 1
    <2>1. CASE Open(f) = {}
      BY <2>1, FS_EmptySet
    <2>2. CASE Open(f) # {}
      <3>1. PICK r \in Open(f) : TRUE
        BY <2>2
      <3>2. Open(f) = {r}
        BY <3>1, OneIsOpen
      <3> QED
        BY <3>2, FS_Singleton
    <2> QED
      BY <2>1, <2>2
  <1>2. ASSUME NEW r \in Threads, At(r, "reading") PROVE thread[r].by \in Open(thread[r].file)
    <2>1. thread[r].file \in Files
      BY WantedAreSlices
    <2> QED
      BY <1>2, <2>1 DEF At, IInv, Descriptors, ReadFrom, ReadersOpen, DoomedOpen, Open
  <1>3. OneDescriptor
    BY <1>1, <1>2 DEF OneDescriptor
  <1>4. ClosedHoldsNothing
    BY DEF ClosedHoldsNothing, IInv, Descriptors, OpenOwned, ReadersOpen, DoomedOpen, Opening, Open, At
  <1>5. ServedAsVerified
    BY DEF ServedAsVerified, IInv, BytesTrue, StainedTrue, Stained
  <1>6. TypedParsedOnce
    BY DEF TypedParsedOnce, IInv, TypedKept
  <1> QED
    BY <1>3, <1>4, <1>5, <1>6 DEF ReadsSound, IInv

\* However reads, close() and other programs interleave, for any threads, files, requests and
\* budgets: every byte returned is of verified contents unless its file was written in
\* place, a file never has two open descriptors, nobody's descriptor is closed while it is
\* read from, close() leaves none behind, and no typed tensor is parsed twice.
THEOREM ReadsAreSound == Spec => []ReadsSound
  BY InitSound, StepSound, InvariantSound, PTL DEF Spec
-----------------------------------------------------------------------------
(* The bytes of a result. *)

ChargeType == [key : Traces, cost : Nat]

LEMMA ChargesCosted == Costed(ChargeType)
  BY DEF Costed, ChargeType

\* Nothing costs nothing.
LEMMA FreeCost ==
  ASSUME NEW E, Costed(E), NEW e \in Seq(E), \A n \in 1..Len(e) : e[n].cost = 0
  PROVE  CostOf(e) = 0
  <1> DEFINE S == {n \in Nat : n <= Len(e) => Costs(e)[n] = 0}
  <1>1. /\ Costs(e)[0] = 0 /\ Len(e) \in Nat
        /\ \A n \in 1..Len(e) : Costs(e)[n] = Costs(e)[n - 1] + e[n].cost
    BY CostsDefined
  <1>2. 0 \in S
    BY <1>1
  <1>3. ASSUME NEW n \in Nat, n \in S PROVE n + 1 \in S
    <2>1. n + 1 <= Len(e) => n + 1 \in 1..Len(e) /\ (n + 1) - 1 = n
      BY <1>1
    <2> QED
      BY <1>1, <1>3, <2>1
  <1>4. Nat \subseteq S
    <2> HIDE DEF S
    <2> QED
      BY <1>2, <1>3, InductiveSet
  <1> QED
    BY <1>1, <1>4 DEF CostOf

LEMMA ResultShape ==
  ASSUME NEW r \in Result
  PROVE  /\ r.runtime \in Runtimes /\ r.records \in Records /\ DOMAIN r.records \subseteq ValueIds
         /\ r.records \in [DOMAIN r.records -> Record]
         /\ Readable(r) \subseteq ValueIds /\ Readable(r) \subseteq DOMAIN r.records
         /\ r = [runtime |-> r.runtime, records |-> r.records]
  <1>1. PICK S \in SUBSET ValueIds : r.records \in [S -> Record]
    BY DEF Result, Records
  <1> QED
    BY <1>1 DEF Result, Readable

\* What a result costs is a number; a tombstone costs nothing and has nothing to read.
LEMMA BytesAreNat ==
  ASSUME NEW r \in Result
  PROVE  Bytes(r) \in Nat
  <1> DEFINE len(i) == IF ByValue[i] \in Readable(r) THEN r.records[ByValue[i]].len ELSE 0
             e == [i \in DOMAIN ByValue |-> Charge(ByValue[i], len(i))]
             E == [key : ValueIds, cost : Nat]
  <1>1. ByValue \in Seq(ValueIds) /\ DOMAIN ByValue = 1..Len(ByValue) /\ Len(ByValue) \in Nat
    BY ActivationAssumption DEF Enumerates
  <1>2. ASSUME NEW i \in 1..Len(ByValue) PROVE Charge(ByValue[i], len(i)) \in E
    <2>1. ByValue[i] \in ValueIds
      BY <1>1
    <2>2. ByValue[i] \in Readable(r) => r.records[ByValue[i]] \in Record
      BY ResultShape
    <2>3. len(i) \in Nat
      BY <2>2, ActivationAssumption DEF Record
    <2> HIDE DEF len
    <2> QED
      BY <2>1, <2>3 DEF Charge
  <1>3. e \in Seq(E) /\ Len(e) \in Nat /\ Len(e) \in 0..Len(e)
    BY <1>1, <1>2
  <1>4. Costed(E)
    BY DEF Costed
  <1>5. Bytes(r) = CostOf(e)
    BY DEF Bytes
  <1> HIDE DEF e, E
  <1>6. Costs(e) \in [0..Len(e) -> Nat]
    BY <1>3, <1>4, CostsDefined
  <1> QED
    BY <1>3, <1>5, <1>6 DEF CostOf

LEMMA TombstoneShape ==
  ASSUME NEW r \in Result
  PROVE  /\ Tombstone(r) \in Result /\ Readable(Tombstone(r)) = {}
         /\ Bytes(Tombstone(r)) = 0
  <1> DEFINE recs == [v \in DOMAIN r.records |-> [r.records[v] EXCEPT !.len = 0]]
             w == Tombstone(r)
  <1>1. w = [runtime |-> r.runtime, records |-> recs]
    <2>1. w = [r EXCEPT !.records = recs]
      BY DEF Tombstone
    <2> HIDE DEF w, recs
    <2> QED
      BY <2>1, ResultShape
  <1>2. \A v \in DOMAIN r.records : recs[v] \in Record /\ recs[v].len = 0
    BY ResultShape, ActivationAssumption DEF Record
  <1>3. recs \in Records /\ DOMAIN recs = DOMAIN r.records
    <2>1. recs \in [DOMAIN r.records -> Record] /\ DOMAIN r.records \in SUBSET ValueIds
      BY <1>2, ResultShape
    <2> HIDE DEF recs
    <2> QED
      BY <2>1 DEF Records
  <1> HIDE DEF recs, w
  <1>4. w \in Result
    BY <1>1, <1>3, ResultShape DEF Result
  <1>5. Readable(w) = {}
    BY <1>1, <1>2, <1>3 DEF Readable
  <1>6. Bytes(w) = 0
    <2> DEFINE e == [i \in DOMAIN ByValue |-> Charge(ByValue[i], 0)]
               E == [key : ValueIds, cost : Nat]
    <2>1. ByValue \in Seq(ValueIds) /\ DOMAIN ByValue = 1..Len(ByValue) /\ Len(ByValue) \in Nat
      BY ActivationAssumption DEF Enumerates
    <2>2. Bytes(w) = CostOf(e)
      BY <1>5 DEF Bytes
    <2>3. \A i \in 1..Len(ByValue) : Charge(ByValue[i], 0) \in E /\ Charge(ByValue[i], 0).cost = 0
      BY <2>1 DEF Charge
    <2>4. e \in Seq(E) /\ Len(e) = Len(ByValue) /\ \A n \in 1..Len(e) : e[n].cost = 0
      BY <2>1, <2>3
    <2>5. Costed(E)
      BY DEF Costed
    <2> HIDE DEF e, E
    <2> QED
      BY <2>2, <2>4, <2>5, FreeCost
  <1> QED
    BY <1>4, <1>5, <1>6 DEF w

-----------------------------------------------------------------------------
(* The account of captures. *)

ListedIn(a, t) == \E i \in 1..Len(a) : a[i].key = t
ChargedIn(a, t) == IF ListedIn(a, t) THEN a[Place(a, t)].cost ELSE 0

\* An account: traces with what they are charged, none of them twice.
Ledger(a) == a \in Seq(ChargeType) /\ Unique(a)

\* Two accounts agree on a trace.
Agree(a, b, t) == (ListedIn(a, t) <=> ListedIn(b, t)) /\ ChargedIn(a, t) = ChargedIn(b, t)

LEMMA LedgerShape ==
  ASSUME NEW a, Ledger(a)
  PROVE  /\ a \in Seq(ChargeType) /\ Len(a) \in Nat /\ DOMAIN a = 1..Len(a) /\ CostOf(a) \in Nat
         /\ \A i \in 1..Len(a) : a[i] \in ChargeType /\ a[i].key \in Traces /\ a[i].cost \in Nat
  <1>1. a \in Seq(ChargeType) /\ Len(a) \in Nat /\ DOMAIN a = 1..Len(a) /\ Len(a) \in 0..Len(a)
    BY DEF Ledger
  <1>2. \A i \in 1..Len(a) : a[i] \in ChargeType
    BY <1>1
  <1>3. Costs(a) \in [0..Len(a) -> Nat]
    BY <1>1, CostsDefined, ChargesCosted
  <1> QED
    BY <1>1, <1>2, <1>3 DEF ChargeType, CostOf

\* A trace is charged what its one entry says.
LEMMA ChargedIs ==
  ASSUME NEW a, Ledger(a), NEW i \in 1..Len(a)
  PROVE  ListedIn(a, a[i].key) /\ ChargedIn(a, a[i].key) = a[i].cost
  <1>1. Place(a, a[i].key) \in 1..Len(a) /\ a[Place(a, a[i].key)].key = a[i].key
    BY PlaceFound DEF Ledger
  <1>2. Place(a, a[i].key) = i
    BY <1>1 DEF Ledger, Unique
  <1> QED
    BY <1>2 DEF ListedIn, ChargedIn

\* Entries that both accounts hold are charged the same.
LEMMA SharedEntries ==
  ASSUME NEW a, NEW b, Ledger(a), Ledger(b), NEW t,
         \A i \in 1..Len(a) : a[i].key = t => \E j \in 1..Len(b) : b[j] = a[i],
         \A j \in 1..Len(b) : b[j].key = t => \E i \in 1..Len(a) : a[i] = b[j]
  PROVE  Agree(a, b, t)
  <1>1. ListedIn(a, t) <=> ListedIn(b, t)
    BY DEF ListedIn
  <1>2. CASE ListedIn(a, t)
    <2>1. PICK i \in 1..Len(a) : a[i].key = t
      BY <1>2 DEF ListedIn
    <2>2. PICK j \in 1..Len(b) : b[j] = a[i]
      BY <2>1
    <2>3. ChargedIn(a, t) = a[i].cost /\ ChargedIn(b, t) = b[j].cost
      BY <2>1, <2>2, ChargedIs
    <2> QED
      BY <1>1, <2>2, <2>3 DEF Agree
  <1>3. CASE ~ListedIn(a, t)
    BY <1>1, <1>3 DEF Agree, ChargedIn
  <1> QED
    BY <1>2, <1>3

LEMMA ApartKeeps ==
  ASSUME NEW a, Ledger(a), NEW t
  PROVE  LET w == Without(a, t)
         IN  /\ Ledger(w) /\ ~ListedIn(w, t) /\ ChargedIn(a, t) \in Nat
             /\ CostOf(w) = CostOf(a) - ChargedIn(a, t)
             /\ \A u : u # t => Agree(a, w, u)
  <1> DEFINE w == Without(a, t)
             p == Place(a, t)
  <1>0. a \in Seq(ChargeType) /\ Unique(a)
    BY DEF Ledger
  <1>1. /\ w \in Seq(ChargeType) /\ Unique(w) /\ Within(w, a)
        /\ \A i \in 1..Len(w) : w[i].key # t
        /\ \A i \in 1..Len(a) : a[i].key = t \/ \E j \in 1..Len(w) : w[j] = a[i]
        /\ IF \E i \in 1..Len(a) : a[i].key = t
           THEN /\ p \in 1..Len(a) /\ a[p].key = t /\ Len(w) = Len(a) - 1
                /\ CostOf(w) = CostOf(a) - a[p].cost
           ELSE w = a
    BY <1>0, WithoutKeeps, ChargesCosted
  <1> HIDE DEF w, p
  <1>2. Ledger(w) /\ ~ListedIn(w, t)
    BY <1>1 DEF Ledger, ListedIn
  <1>3. ASSUME NEW u, u # t PROVE Agree(a, w, u)
    <2>1. \A i \in 1..Len(a) : a[i].key = u => \E j \in 1..Len(w) : w[j] = a[i]
      BY <1>1, <1>3
    <2>2. \A j \in 1..Len(w) : w[j].key = u => \E i \in 1..Len(a) : a[i] = w[j]
      BY <1>1 DEF Within
    <2> QED
      BY <1>2, <2>1, <2>2, SharedEntries
  <1>4. ChargedIn(a, t) \in Nat /\ CostOf(w) = CostOf(a) - ChargedIn(a, t)
    <2>1. CASE ListedIn(a, t)
      BY <1>1, <2>1, LedgerShape DEF ListedIn, ChargedIn, p
    <2>2. CASE ~ListedIn(a, t)
      <3>1. w = a /\ ChargedIn(a, t) = 0
        BY <1>1, <2>2 DEF ListedIn, ChargedIn
      <3> QED
        BY <3>1, LedgerShape
    <2> QED
      BY <2>1, <2>2
  <1> QED
    BY <1>2, <1>3, <1>4 DEF w

LEMMA ChargeKeeps ==
  ASSUME NEW a, Ledger(a), NEW t \in Traces, ~ListedIn(a, t), NEW c \in Nat
  PROVE  LET b == Append(a, Charge(t, c))
         IN  /\ Ledger(b) /\ ListedIn(b, t) /\ ChargedIn(b, t) = c
             /\ CostOf(b) = CostOf(a) + c
             /\ \A u : u # t => Agree(a, b, u)
  <1> DEFINE x == Charge(t, c)
             b == Append(a, x)
  <1>1. x \in ChargeType /\ x.key = t /\ x.cost = c
    BY DEF Charge, ChargeType
  <1>2. a \in Seq(ChargeType) /\ Unique(a) /\ Len(a) \in Nat
    BY DEF Ledger
  <1> HIDE DEF x
  <1>3. /\ b \in Seq(ChargeType) /\ Len(b) = Len(a) + 1
        /\ b[Len(a) + 1] = x /\ \A i \in 1..Len(a) : b[i] = a[i]
        /\ CostOf(b) = CostOf(a) + x.cost
    BY <1>1, <1>2, AppendCost, ChargesCosted
  <1> HIDE DEF b
  <1>4. \A i \in 1..Len(b) : i \in 1..Len(a) \/ i = Len(a) + 1
    BY <1>2, <1>3
  <1>5. Len(a) + 1 \in 1..Len(b) /\ \A i \in 1..Len(a) : i \in 1..Len(b)
    BY <1>2, <1>3
  <1>6. Unique(b)
    BY <1>1, <1>2, <1>3, <1>4 DEF Unique, ListedIn
  <1>7. Ledger(b)
    BY <1>3, <1>6 DEF Ledger
  <1>8. ListedIn(b, t) /\ ChargedIn(b, t) = c
    BY <1>1, <1>3, <1>5, <1>7, ChargedIs
  <1>9. ASSUME NEW u, u # t PROVE Agree(a, b, u)
    <2>1. \A i \in 1..Len(a) : a[i].key = u => \E j \in 1..Len(b) : b[j] = a[i]
      BY <1>3, <1>5
    <2>2. \A j \in 1..Len(b) : b[j].key = u => \E i \in 1..Len(a) : a[i] = b[j]
      BY <1>1, <1>3, <1>4, <1>9
    <2> QED
      BY <1>7, <2>1, <2>2, SharedEntries
  <1> QED
    BY <1>1, <1>3, <1>7, <1>8, <1>9 DEF b, x

LEMMA OldestLeaves ==
  ASSUME NEW a, Ledger(a), a # << >>
  PROVE  /\ Head(a).key \in Traces /\ Head(a).cost \in Nat
         /\ Ledger(Tail(a)) /\ ~ListedIn(Tail(a), Head(a).key)
         /\ ListedIn(a, Head(a).key)
         /\ CostOf(Tail(a)) = CostOf(a) - Head(a).cost
         /\ \A u : u # Head(a).key => Agree(a, Tail(a), u)
  <1> DEFINE b == Tail(a)
  <1>1. /\ a \in Seq(ChargeType) /\ Unique(a) /\ Len(a) \in Nat /\ Len(a) > 0 /\ Head(a) = a[1]
        /\ \A i \in 1..Len(a) : a[i] \in ChargeType /\ a[i].key \in Traces /\ a[i].cost \in Nat
    BY LedgerShape, EmptySeq DEF Ledger
  <1>2. b \in Seq(ChargeType) /\ Len(b) = Len(a) - 1 /\ \A i \in 1..Len(b) : b[i] = a[i + 1]
    BY <1>1, HeadTailProperties
  <1> HIDE DEF b
  <1>3. /\ 1 \in 1..Len(a) /\ \A i \in 1..Len(b) : i + 1 \in 1..Len(a) /\ i + 1 # 1
        /\ \A i \in 1..Len(a) : i = 1 \/ (i - 1 \in 1..Len(b) /\ (i - 1) + 1 = i)
    BY <1>1, <1>2
  <1>4. Ledger(b)
    <2>1. ASSUME NEW i \in 1..Len(b), NEW j \in 1..Len(b), b[i].key = b[j].key PROVE i = j
      <3>1. i + 1 = j + 1
        BY <1>1, <1>2, <1>3, <2>1 DEF Unique
      <3> QED
        BY <3>1
    <2> QED
      BY <1>2, <2>1 DEF Ledger, Unique
  <1>5. ~ListedIn(b, a[1].key)
    BY <1>1, <1>2, <1>3 DEF ListedIn, Unique
  <1>6. ASSUME NEW u, u # a[1].key PROVE Agree(a, b, u)
    <2>1. \A i \in 1..Len(a) : a[i].key = u => \E j \in 1..Len(b) : b[j] = a[i]
      BY <1>2, <1>3, <1>6
    <2>2. \A j \in 1..Len(b) : b[j].key = u => \E i \in 1..Len(a) : a[i] = b[j]
      BY <1>2, <1>3
    <2> QED
      BY <1>4, <2>1, <2>2, SharedEntries
  <1>7. CostOf(b) = CostOf(a) - a[1].cost
    <2> DEFINE k == Len(b)
    <2>1. k \in Nat /\ 0 + k = Len(b) /\ 1 + k = Len(a) /\ \A j \in 1..k : b[0 + j] = a[1 + j]
      BY <1>1, <1>2
    <2>2. CostAlike(b, 0, a, 1, k)
      <3>1. 0 + k <= Len(b) /\ 1 + k <= Len(a)
        BY <2>1
      <3>2. \A j \in 1..k : b[0 + j].cost = a[1 + j].cost
        BY <2>1
      <3> QED
        BY <3>1, <3>2 DEF CostAlike
    <2> HIDE DEF k
    <2>3. Costs(b)[0 + k] - Costs(b)[0] = Costs(a)[1 + k] - Costs(a)[1]
      BY <1>1, <1>2, <2>1, <2>2, CostsShift, ChargesCosted
    <2>4. Costs(b)[0] = 0 /\ Costs(a)[0] = 0 /\ Costs(a)[1] = Costs(a)[0] + a[1].cost
      <3>1. \A n \in 1..Len(a) : Costs(a)[n] = Costs(a)[n - 1] + a[n].cost
        BY <1>1, CostsDefined, ChargesCosted
      <3>2. Costs(b)[0] = 0 /\ Costs(a)[0] = 0 /\ 1 \in 1..Len(a) /\ 1 - 1 = 0
        BY <1>1, <1>2, CostsDefined, ChargesCosted
      <3> QED
        BY <3>1, <3>2
    <2>5. CostOf(b) - 0 = CostOf(a) - (0 + a[1].cost) /\ CostOf(a) \in Nat /\ CostOf(b) \in Nat
      BY <1>4, <2>1, <2>3, <2>4, LedgerShape DEF CostOf
    <2> QED
      BY <1>1, <1>3, <2>5
  <1> QED
    BY <1>1, <1>3, <1>4, <1>5, <1>6, <1>7 DEF b, ListedIn

\* move_to_end() changes the order alone.
LEMMA MovingKeeps ==
  ASSUME Ledger(available), NEW t \in Traces
  PROVE  /\ Ledger(MovedToEnd(t)) /\ CostOf(MovedToEnd(t)) = CostOf(available)
         /\ \A u : Agree(available, MovedToEnd(t), u)
  <1> DEFINE w == Without(available, t)
             c == ChargedIn(available, t)
             b == Append(w, Charge(t, c))
  <1>0. DOMAIN available = 1..Len(available)
    BY LedgerShape
  <1>1. Listed(t) = ListedIn(available, t) /\ Charged(t) = c
    BY <1>0 DEF Listed, ListedIn, Charged, ChargedIn
  <1>2. CASE ~ListedIn(available, t)
    BY <1>1, <1>2 DEF MovedToEnd, Agree
  <1>3. CASE ListedIn(available, t)
    <2>1. MovedToEnd(t) = b
      BY <1>1, <1>3 DEF MovedToEnd, Apart
    <2>2. /\ Ledger(w) /\ ~ListedIn(w, t) /\ c \in Nat /\ CostOf(w) = CostOf(available) - c
          /\ \A u : u # t => Agree(available, w, u)
      BY ApartKeeps
    <2> HIDE DEF w, c
    <2>3. /\ Ledger(b) /\ ListedIn(b, t) /\ ChargedIn(b, t) = c /\ CostOf(b) = CostOf(w) + c
          /\ \A u : u # t => Agree(w, b, u)
      BY <2>2, ChargeKeeps
    <2> HIDE DEF b
    <2>4. CostOf(b) = CostOf(available)
      BY <2>2, <2>3, LedgerShape
    <2>5. Agree(available, b, t)
      BY <1>3, <2>3 DEF Agree, c
    <2>6. ASSUME NEW u, u # t PROVE Agree(available, b, u)
      BY <2>2, <2>3, <2>6 DEF Agree
    <2> QED
      BY <2>1, <2>3, <2>4, <2>5, <2>6
  <1> QED
    BY <1>2, <1>3

\* An empty account is worth nothing.
LEMMA NothingIsFree == Ledger(<< >>) /\ CostOf(<< >>) = 0
  <1>1. Ledger(<< >>) /\ Len(<< >>) = 0
    BY DEF Ledger, Unique
  <1>2. << >> \in Seq(ChargeType) /\ \A n \in 1..Len(<< >>) : << >>[n].cost = 0
    BY <1>1 DEF Ledger
  <1> QED
    BY <1>1, <1>2, FreeCost, ChargesCosted

-----------------------------------------------------------------------------
(* What opening the store charges. *)

\* The account grows directory by directory, as its recursive definition says.
LEMMA FoundDefined ==
  /\ Found[0] = << >>
  /\ \A n \in 1..Len(ByName) : Found[n] = Charging(Found[n - 1], ByName[n], OnDisk(ByName[n]))
  <1> DEFINE Grows(f, m) == /\ f[0] = << >>
                            /\ \A n \in 1..m : f[n] = Charging(f[n - 1], ByName[n], OnDisk(ByName[n]))
             S == {m \in Nat : m <= Len(ByName) => \E f : Grows(f, m)}
  <1>0. Len(ByName) \in Nat /\ Len(ByName) \in 0..Len(ByName)
    BY ActivationAssumption DEF Enumerates
  <1>1. 0 \in S
    <2> DEFINE z == [i \in 0..0 |-> << >>]
    <2>1. z[0] = << >> /\ 1..0 = {}
      OBVIOUS
    <2> HIDE DEF z
    <2>2. Grows(z, 0)
      BY <2>1
    <2> QED
      BY <2>2
  <1>2. ASSUME NEW m \in Nat, m \in S PROVE m + 1 \in S
    <2> HIDE DEF Grows
    <2> SUFFICES ASSUME m + 1 <= Len(ByName) PROVE \E f : Grows(f, m + 1)
      OBVIOUS
    <2>1. PICK f : Grows(f, m)
      BY <1>0, <1>2
    <2> DEFINE last == Charging(f[m], ByName[m + 1], OnDisk(ByName[m + 1]))
               g == [i \in 0..(m + 1) |-> IF i <= m THEN f[i] ELSE last]
    <2>2. (\A i \in 0..m : g[i] = f[i]) /\ g[m + 1] = last
      OBVIOUS
    <2> HIDE DEF g
    <2>3. ASSUME NEW n \in 1..(m + 1) PROVE g[n] = Charging(g[n - 1], ByName[n], OnDisk(ByName[n]))
      <3>1. CASE n = m + 1
        <4>1. n - 1 = m /\ g[m] = f[m]
          BY <2>2, <3>1
        <4> QED
          BY <2>2, <3>1, <4>1
      <3>2. CASE n # m + 1
        <4>1. n \in 1..m /\ n - 1 \in 0..m /\ n \in 0..m
          BY <3>2
        <4>2. f[n] = Charging(f[n - 1], ByName[n], OnDisk(ByName[n]))
          BY <2>1, <4>1 DEF Grows
        <4> QED
          BY <2>2, <4>1, <4>2
      <3> QED
        BY <3>1, <3>2
    <2>4. g[0] = << >>
      BY <2>1, <2>2 DEF Grows
    <2>5. Grows(g, m + 1)
      BY <2>3, <2>4 DEF Grows
    <2> QED
      BY <2>5
  <1>3. Nat \subseteq S
    <2> HIDE DEF S
    <2> QED
      BY <1>1, <1>2, InductiveSet
  <1>9. Len(ByName) \in S
    BY <1>0, <1>3
  <1>4. PICK f : Grows(f, Len(ByName))
    <2> HIDE DEF Grows
    <2> QED
      BY <1>0, <1>9
  <1> DEFINE next(h, n) == IF n = 0 THEN << >> ELSE Charging(h[n - 1], ByName[n], OnDisk(ByName[n]))
             f0 == [n \in 0..Len(ByName) |-> f[n]]
  <1>5. f0 = [n \in 0..Len(ByName) |-> next(f0, n)]
    <2>1. ASSUME NEW n \in 0..Len(ByName) PROVE f[n] = next(f0, n)
      <3>1. CASE n = 0
        BY <1>4, <3>1
      <3>2. CASE n # 0
        <4>1. n \in 1..Len(ByName) /\ n - 1 \in 0..Len(ByName)
          BY <1>0, <3>2
        <4> QED
          BY <1>4, <3>2, <4>1
      <3> QED
        BY <3>1, <3>2
    <2> HIDE DEF next
    <2> QED
      BY <2>1
  <1>6. Found = [n \in 0..Len(ByName) |-> next(Found, n)]
    <2> HIDE DEF f0
    <2> QED
      BY <1>5 DEF Found
  <1>7. \A n \in 0..Len(ByName) : Found[n] = next(Found, n)
    <2> HIDE DEF next
    <2> QED
      BY <1>6
  <1>8. 0 \in 0..Len(ByName) /\ \A n \in 1..Len(ByName) : n \in 0..Len(ByName) /\ n # 0
    BY <1>0
  <1> QED
    BY <1>7, <1>8

\* The account of an opened store charges every trace what its manifest names.
LEMMA FoundKeeps ==
  ASSUME ActivationTypeOK
  PROVE  /\ Ledger(Found[Len(ByName)])
         /\ \A t \in Traces : /\ ChargedIn(Found[Len(ByName)], t) = OnDisk(t)
                              /\ ListedIn(Found[Len(ByName)], t) => dir[t] # None
  <1> DEFINE Charges(n) ==
               /\ Ledger(Found[n])
               /\ \A i \in 1..n : ChargedIn(Found[n], ByName[i]) = OnDisk(ByName[i])
               /\ \A t : ListedIn(Found[n], t) =>
                    OnDisk(t) # 0 /\ \E i \in 1..n : ByName[i] = t
             S == {n \in Nat : n <= Len(ByName) => Charges(n)}
  <1>0. /\ Len(ByName) \in Nat /\ \A i \in 1..Len(ByName) : ByName[i] \in Traces
        /\ Traces = {ByName[i] : i \in 1..Len(ByName)}
        /\ \A i, j \in 1..Len(ByName) : ByName[i] = ByName[j] => i = j
    BY ActivationAssumption DEF Enumerates
  <1>1. ASSUME NEW t \in Traces PROVE OnDisk(t) \in Nat
    <2>1. dir[t] # None => dir[t].manifest \in Result
      BY DEF ActivationTypeOK, Directory
    <2> QED
      BY <2>1, BytesAreNat DEF OnDisk
  <1>2. 0 \in S
    <2>1. Ledger(<< >>) /\ \A t : ~ListedIn(<< >>, t)
      BY DEF Ledger, Unique, ListedIn
    <2> QED
      BY <2>1, FoundDefined
  <1>3. ASSUME NEW m \in Nat, m \in S PROVE m + 1 \in S
    <2> SUFFICES ASSUME m + 1 <= Len(ByName) PROVE Charges(m + 1)
      OBVIOUS
    <2> DEFINE n == m + 1
               t == ByName[n]
               a == Found[m]
               b == Found[n]
    <2>1. /\ n \in 1..Len(ByName) /\ n - 1 = m /\ t \in Traces
          /\ \A i \in 1..m : i \in 1..Len(ByName) /\ i # n
          /\ \A i \in 1..n : i \in 1..m \/ i = n
          /\ \A i \in 1..m : i \in 1..n
          /\ n \in 1..n
      BY <1>0
    <2>2. b = Charging(a, t, OnDisk(t))
      BY <2>1, FoundDefined
    <2>3. Charges(m)
      BY <1>0, <1>3
    <2>4. ~ListedIn(a, t) /\ Ledger(a)
      BY <1>0, <2>1, <2>3
    <2>5. \A i \in 1..m : ByName[i] # t
      BY <1>0, <2>1
    <2>6. CASE OnDisk(t) = 0
      <3>1. b = a /\ ChargedIn(a, t) = 0
        BY <2>2, <2>4, <2>6 DEF Charging, ChargedIn
      <3> HIDE DEF t, a, b, n
      <3>2. \A i \in 1..n : ChargedIn(b, ByName[i]) = OnDisk(ByName[i])
        BY <2>1, <2>3, <2>6, <3>1 DEF t, a
      <3>3. \A u : ListedIn(b, u) => OnDisk(u) # 0 /\ \E i \in 1..n : ByName[i] = u
        BY <2>1, <2>3, <3>1 DEF a
      <3> QED
        BY <2>4, <3>1, <3>2, <3>3 DEF n, b
    <2>7. CASE OnDisk(t) # 0
      <3>0. b = Append(a, Charge(t, OnDisk(t))) /\ OnDisk(t) \in Nat
        BY <1>1, <2>1, <2>2, <2>7 DEF Charging
      <3> HIDE DEF t, a, b, n
      <3>1. /\ Ledger(b) /\ ListedIn(b, t) /\ ChargedIn(b, t) = OnDisk(t)
            /\ \A u : u # t => Agree(a, b, u)
        BY <2>1, <2>4, <3>0, ChargeKeeps
      <3>2. \A i \in 1..n : ChargedIn(b, ByName[i]) = OnDisk(ByName[i])
        <4>1. ASSUME NEW i \in 1..m PROVE ChargedIn(b, ByName[i]) = OnDisk(ByName[i])
          BY <2>3, <2>5, <3>1 DEF Agree, a
        <4> QED
          BY <2>1, <3>1, <4>1 DEF t
      <3>3. ASSUME NEW u, ListedIn(b, u) PROVE OnDisk(u) # 0 /\ \E i \in 1..n : ByName[i] = u
        <4>1. CASE u = t
          BY <2>1, <2>7, <4>1 DEF t
        <4>2. CASE u # t
          <5>1. ListedIn(a, u)
            BY <3>1, <3>3, <4>2 DEF Agree
          <5> QED
            BY <2>1, <2>3, <5>1 DEF a
        <4> QED
          BY <4>1, <4>2
      <3> QED
        BY <3>1, <3>2, <3>3 DEF n, b
    <2> QED
      BY <2>6, <2>7
  <1>4. Nat \subseteq S
    <2> HIDE DEF S
    <2> QED
      BY <1>2, <1>3, InductiveSet
  <1>5. Charges(Len(ByName))
    BY <1>0, <1>4
  <1> HIDE DEF S
  <1>6. ASSUME NEW t \in Traces
        PROVE  /\ ChargedIn(Found[Len(ByName)], t) = OnDisk(t)
               /\ ListedIn(Found[Len(ByName)], t) => dir[t] # None
    <2>1. PICK i \in 1..Len(ByName) : ByName[i] = t
      BY <1>0
    <2>2. ListedIn(Found[Len(ByName)], t) => OnDisk(t) # 0
      BY <1>5
    <2> QED
      BY <1>5, <2>1, <2>2 DEF OnDisk
  <1> QED
    BY <1>5, <1>6

-----------------------------------------------------------------------------
(* The inductive invariant of the activation store. *)

\* No file beside a manifest is of another run than the manifest says.
Partial(d) ==
  \A v \in ValueIds : d.files[v] # 0 =>
    v \in Readable(d.manifest) /\ d.files[v] = d.manifest.records[v].run

\* And every capture it names as readable is there.
Whole(d) ==
  \A v \in ValueIds :
    d.files[v] = IF v \in Readable(d.manifest) THEN d.manifest.records[v].run ELSE 0

\* What can be read was computed by one runtime.
Single(result) == \A v \in Readable(result) : result.records[v].by = result.runtime

Committing == op.pc \in {"staged", "aside", "placed"}
InStaging == [manifest |-> op.result, files |-> op.files]

\* The trace whose commit() has changed the directory and not yet the result.
Between(t) == op.pc \in {"aside", "placed"} /\ t = op.trace

StagedSound ==
  /\ op.pc \in {"staged", "aside", "placed", "tombstone"} => op.trace \in Traces
  /\ Committing => op.result # None /\ Whole(InStaging) /\ Single(op.result)
  /\ op.pc = "placed" => dir[op.trace] = InStaging /\ op.trace \notin astray

AsideSound ==
  /\ aside # None <=> op.pc = "aside"
  /\ aside # None =>
       /\ aside.manifest = results[op.trace] /\ dir[op.trace] = None
       /\ Partial(aside) /\ (op.trace \notin astray => Whole(aside))

DirectoriesSound ==
  \A t \in Traces : dir[t] # None =>
    /\ Partial(dir[t]) /\ Single(dir[t].manifest)
    /\ t \notin astray => Whole(dir[t])

ResultsSound ==
  \A t \in Traces : op.pc # "down" /\ ~Between(t) =>
    /\ dir[t] # None => results[t] = dir[t].manifest
    /\ dir[t] = None /\ t \notin astray => results[t] = None

VictimSound ==
  op.pc = "tombstone" =>
    /\ op.trace \in astray /\ results[op.trace] # None /\ ~ListedIn(available, op.trace)
    /\ dir[op.trace] # None => dir[op.trace].files = NoFiles

SlicesSound ==
  /\ \A s \in cached : results[s[1]] # None /\ s[2] \in Readable(results[s[1]]) =>
       s[3] = results[s[1]].records[s[2]].run
  /\ op.pc = "down" \/ (op.result = None /\ op.pc # "idle") => cached = {}

AccountSound ==
  /\ current = CostOf(available)
  /\ op.pc # "down" => \A t \in Traces : ListedIn(available, t) => results[t] # None

ChargesSound ==
  \A t \in Traces \ astray : op.pc # "down" /\ ~(op.pc = "placed" /\ t = op.trace) =>
    ChargedIn(available, t) = IF results[t] = None THEN 0 ELSE Bytes(results[t])

BudgetSound ==
  op.pc \in {"idle", "staged", "aside"} /\ astray = {} => current <= budget

\* What a run leaves in the staging directory: a manifest of one runtime, with the bytes of
\* every capture it names beside it.
LEMMA StagedKeeps ==
  ASSUME ActivationTypeOK, NEW t \in Traces, NEW runtime \in Runtimes, NEW S \in SUBSET ValueIds,
         NEW lengths \in [S -> 0..MaxLength], runs < MaxRuns,
         results[t] # None /\ dir[t] # None =>
           results[t] = dir[t].manifest /\ Partial(dir[t]) /\ Single(results[t]),
         \A v \in Readable(Staged(t, runtime, lengths).result) :
           Staged(t, runtime, lengths).files[v] # 0
  PROVE  LET s == Staged(t, runtime, lengths)
         IN  /\ s \in Operation /\ s.pc = "staged" /\ s.trace = t /\ s.result \in Result
             /\ Single(s.result) /\ Whole([manifest |-> s.result, files |-> s.files])
  <1> DEFINE run == runs + 1
             incoming == [v \in DOMAIN lengths |-> [len |-> lengths[v], run |-> run, by |-> runtime]]
             previous == results[t].records
             merges == Merges(t, runtime)
             records == IF merges THEN Merged(previous, incoming) ELSE incoming
             result == [runtime |-> runtime, records |-> records]
             files0 == [v \in ValueIds |->
                          CASE v \notin Readable(result) -> 0
                            [] v \in Readable(result) /\ records[v].run = run -> run
                            [] OTHER -> dir[t].files[v]]
             s == Staged(t, runtime, lengths)
  <1>1. s = [pc |-> "staged", trace |-> t, result |-> result, files |-> files0]
    BY DEF Staged
  <1>2. run \in 1..MaxRuns /\ run \in 0..MaxRuns
    BY ActivationAssumption DEF ActivationTypeOK
  <1>3. DOMAIN lengths = S /\ DOMAIN incoming = S
    OBVIOUS
  <1>4. \A v \in S : incoming[v] \in Record /\ incoming[v].by = runtime /\ incoming[v].run = run
    BY <1>2, <1>3 DEF Record
  <1>5. ASSUME merges
        PROVE  /\ results[t] \in Result /\ results[t].runtime = runtime /\ dir[t] \in Directory
               /\ results[t] = dir[t].manifest /\ Partial(dir[t]) /\ Single(results[t])
    BY <1>5 DEF Merges, ActivationTypeOK
  <1> HIDE DEF incoming, run, merges, s
  <1>6. ASSUME merges
        PROVE  /\ DOMAIN previous \in SUBSET ValueIds
               /\ \A v \in DOMAIN previous : previous[v] \in Record
               /\ \A v \in DOMAIN previous : previous[v].len > 0 => previous[v].by = runtime
               /\ \A v \in DOMAIN previous : previous[v].len > 0 /\ dir[t].files[v] # 0
                                             => dir[t].files[v] = previous[v].run
    <2>1. DOMAIN previous \subseteq ValueIds /\ previous \in [DOMAIN previous -> Record]
      BY <1>5, <1>6, ResultShape
    <2>2. Readable(results[t]) = {v \in DOMAIN previous : previous[v].len > 0}
      BY DEF Readable
    <2> HIDE DEF previous
    <2>3. \A v \in DOMAIN previous : previous[v].len > 0 => previous[v].by = runtime
      BY <1>5, <1>6, <2>2 DEF Single, previous
    <2>4. \A v \in DOMAIN previous : previous[v].len > 0 /\ dir[t].files[v] # 0
                                             => dir[t].files[v] = previous[v].run
      BY <1>5, <1>6, <2>1, <2>2 DEF Partial, previous
    <2> QED
      BY <2>1, <2>3, <2>4
  <1>7. /\ DOMAIN records \in SUBSET ValueIds
        /\ \A v \in DOMAIN records :
             \/ v \in S /\ records[v] = incoming[v]
             \/ merges /\ v \in DOMAIN previous /\ records[v] = previous[v]
    BY <1>3, <1>6 DEF Merged
  <1> HIDE DEF records, previous
  <1>8. \A v \in DOMAIN records : records[v] \in Record
    BY <1>4, <1>6, <1>7
  <1>9. result \in Result /\ Readable(result) = {v \in DOMAIN records : records[v].len > 0}
    <2>1. records \in [DOMAIN records -> Record]
      <3>1. records = [v \in DOMAIN records |-> records[v]]
        BY DEF records, Merged, incoming
      <3> QED
        BY <1>8, <3>1
    <2>2. records \in Records
      BY <1>7, <2>1 DEF Records
    <2> QED
      BY <2>2 DEF Result, Readable
  <1>10. Single(result)
    BY <1>4, <1>6, <1>7, <1>9 DEF Single
  <1>11. \A v \in Readable(result) : files0[v] # 0
    <2>1. s.result = result /\ s.files = files0
      BY <1>1
    <2> HIDE DEF result, files0
    <2> QED
      BY <2>1 DEF s
  <1>12. \A v \in Readable(result) : v \in ValueIds
    BY <1>7, <1>9
  <1>13. ASSUME NEW v \in ValueIds
         PROVE  files0[v] = IF v \in Readable(result) THEN records[v].run ELSE 0
    <2>1. CASE v \notin Readable(result)
      BY <2>1
    <2>2. CASE v \in Readable(result) /\ records[v].run = run
      BY <2>2
    <2>3. CASE v \in Readable(result) /\ records[v].run # run
      <3>1. files0[v] = dir[t].files[v]
        BY <2>3
      <3>2. merges /\ v \in DOMAIN previous /\ records[v] = previous[v] /\ previous[v].len > 0
        BY <1>4, <1>7, <1>9, <2>3
      <3> HIDE DEF files0
      <3> QED
        BY <1>6, <1>11, <2>3, <3>1, <3>2
    <2> QED
      BY <2>1, <2>2, <2>3
  <1>14. files0 \in [ValueIds -> 0..MaxRuns]
    <2>1. ASSUME NEW v \in ValueIds PROVE files0[v] \in 0..MaxRuns
      <3>1. v \in Readable(result) => records[v] \in Record
        BY <1>8, <1>9
      <3> HIDE DEF files0, result
      <3> QED
        BY <1>13, <3>1, ActivationAssumption DEF Record
    <2>2. files0 = [v \in ValueIds |-> files0[v]]
      OBVIOUS
    <2> HIDE DEF files0
    <2> QED
      BY <2>1, <2>2
  <1>15. s \in Operation
    BY <1>1, <1>9, <1>14 DEF Operation
  <1>16. Whole([manifest |-> result, files |-> files0])
    <2> HIDE DEF files0
    <2>1. result.records = records
      OBVIOUS
    <2> HIDE DEF result
    <2> QED
      BY <1>13, <2>1 DEF Whole
  <1> HIDE DEF result, files0
  <1> QED
    BY <1>1, <1>9, <1>10, <1>15, <1>16 DEF s

-----------------------------------------------------------------------------
(* The steps. *)

ActivationInv ==
  /\ ActivationTypeOK /\ ReadsCurrent /\ OneRuntime /\ CommittedStays
  /\ StagedSound /\ AsideSound /\ DirectoriesSound /\ ResultsSound /\ VictimSound
  /\ SlicesSound /\ AccountSound /\ ChargesSound /\ BudgetSound

LEMMA ListedAlike ==
  ASSUME ActivationTypeOK
  PROVE  /\ Ledger(available)
         /\ \A t : Listed(t) = ListedIn(available, t) /\ Charged(t) = ChargedIn(available, t)
  <1>1. available \in Seq(ChargeType)
    BY DEF ActivationTypeOK, ChargeType
  <1>2. Ledger(available) /\ DOMAIN available = 1..Len(available)
    BY <1>1 DEF ActivationTypeOK, Ledger, Unique
  <1> QED
    BY <1>2 DEF Listed, ListedIn, Charged, ChargedIn

\* The account adds up, and charges no trace twice.
LEMMA LedgerStep ==
  ASSUME ActivationInv, [ActivationNext]_activations
  PROVE  Ledger(available') /\ current' = CostOf(available')
  <1>0. Ledger(available) /\ current = CostOf(available) /\ CostOf(available) \in Nat
    BY ListedAlike, LedgerShape DEF ActivationInv, AccountSound
  <1>1. ASSUME NEW t \in Traces, NEW runtime \in Runtimes, NEW S \in (SUBSET ValueIds) \ {{}},
              NEW lengths \in [S -> 0..MaxLength],
              BeginCommit(t, runtime, lengths)
        PROVE  Ledger(available') /\ current' = CostOf(available')
    BY <1>0, <1>1 DEF BeginCommit, Running
  <1>2. ASSUME AbandonStaged
        PROVE  Ledger(available') /\ current' = CostOf(available')
    BY <1>0, <1>2 DEF AbandonStaged, Reached, NoOperation
  <1>3. ASSUME SetAside
        PROVE  Ledger(available') /\ current' = CostOf(available')
    BY <1>0, <1>3 DEF SetAside, Reached, Goto
  <1>4. ASSUME PutInPlace
        PROVE  Ledger(available') /\ current' = CostOf(available')
    BY <1>0, <1>4 DEF PutInPlace, Reached, Goto
  <1>5. ASSUME PlaceFails
        PROVE  Ledger(available') /\ current' = CostOf(available')
    BY <1>0, <1>5 DEF PlaceFails, Reached, NoOperation, Fails
  <1>6. ASSUME Account
        PROVE  Ledger(available') /\ current' = CostOf(available')
    <2> DEFINE t == op.trace
               w == Apart(t)
               c == Bytes(op.result)
    <2>1. t \in Traces /\ op.result \in Result
      BY <1>6 DEF ActivationInv, StagedSound, Committing, Account, Reached, ActivationTypeOK, Operation
    <2>2. c \in Nat
      BY <2>1, BytesAreNat
    <2>3. available' = Charging(w, t, c) /\ current' = (current - Charged(t)) + c
      BY <1>6 DEF Account
    <2> HIDE DEF c
    <2>4. /\ Ledger(w) /\ ~ListedIn(w, t) /\ Charged(t) \in Nat
          /\ CostOf(w) = CostOf(available) - Charged(t)
      BY ListedAlike, ApartKeeps DEF Apart, ActivationInv
    <2> HIDE DEF w, t
    <2>5. CASE c > 0
      <3>1. available' = Append(w, Charge(t, c))
        BY <2>3, <2>5 DEF Charging
      <3> QED
        BY <1>0, <2>1, <2>2, <2>3, <2>4, <3>1, ChargeKeeps
    <2>6. CASE c = 0
      <3>1. available' = w
        BY <2>3, <2>6 DEF Charging
      <3> QED
        BY <1>0, <2>3, <2>4, <2>6, <3>1
    <2> QED
      BY <2>2, <2>5, <2>6
  <1>7. ASSUME EvictCaptures
        PROVE  Ledger(available') /\ current' = CostOf(available')
    BY <1>7, <1>0, OldestLeaves DEF EvictCaptures, OverBudget
  <1>8. ASSUME EvictFails
        PROVE  Ledger(available') /\ current' = CostOf(available')
    BY <1>8, <1>0, OldestLeaves DEF EvictFails, OverBudget
  <1>9. ASSUME WriteTombstone
        PROVE  Ledger(available') /\ current' = CostOf(available')
    BY <1>0, <1>9 DEF WriteTombstone, Reached, Goto
  <1>10. ASSUME TombstoneFails
         PROVE  Ledger(available') /\ current' = CostOf(available')
    BY <1>0, <1>10 DEF TombstoneFails, Reached, Broken, NoOperation, Down, Fails
  <1>11. ASSUME Return
         PROVE  Ledger(available') /\ current' = CostOf(available')
    BY <1>0, <1>11 DEF Return, Reached, NoOperation, OverBudget
  <1>12. ASSUME NEW t \in Traces, LookAt(t)
         PROVE  Ledger(available') /\ current' = CostOf(available')
    BY <1>12, <1>0, MovingKeeps DEF LookAt
  <1>13. ASSUME NEW t \in Traces, NEW v \in ValueIds, Read(t, v)
         PROVE  Ledger(available') /\ current' = CostOf(available')
    BY <1>13, <1>0, MovingKeeps DEF Read
  <1>14. ASSUME Crash
         PROVE  Ledger(available') /\ current' = CostOf(available')
    <2>1. available' = << >> /\ current' = 0
      BY <1>14 DEF Crash
    <2> QED
      BY <2>1, NothingIsFree
  <1>15. ASSUME Load
         PROVE  Ledger(available') /\ current' = CostOf(available')
    BY <1>15, FoundKeeps DEF Load, ActivationInv
  <1>16. CASE UNCHANGED activations
    BY <1>0, <1>16 DEF activations
  <1> QED
    BY <1>1, <1>2, <1>3, <1>4, <1>5, <1>6, <1>7, <1>8, <1>9, <1>10, <1>11, <1>12, <1>13, <1>14,
       <1>15, <1>16 DEF ActivationNext


\* The types of all but the account.
CaptureTypes ==
  /\ dir \in [Traces -> Directory \cup {None}]
  /\ results \in [Traces -> Result \cup {None}]
  /\ budget \in Budgets
  /\ cached \subseteq Traces \X ValueIds \X (1..MaxRuns)
  /\ op \in Operation
  /\ aside \in Directory \cup {None}
  /\ runs \in 0..MaxRuns /\ faults \in 0..MaxFaults
  /\ misread \subseteq Traces /\ astray \subseteq Traces /\ committed \subseteq Traces

\* What commit() stages.
LEMMA BeginEffect ==
  ASSUME ActivationInv, NEW t \in Traces, NEW runtime \in Runtimes, NEW S \in (SUBSET ValueIds) \ {{}},
         NEW lengths \in [S -> 0..MaxLength], BeginCommit(t, runtime, lengths)
  PROVE  /\ op' \in Operation /\ op'.pc = "staged" /\ op'.trace = t /\ op'.result \in Result
         /\ Single(op'.result) /\ Whole([manifest |-> op'.result, files |-> op'.files])
         /\ op.pc = "idle" /\ runs' = runs + 1 /\ runs < MaxRuns
  <1>1. /\ op.pc = "idle" /\ runs < MaxRuns /\ runs' = runs + 1
        /\ op' = Staged(t, runtime, lengths)
        /\ \A v \in Readable(Staged(t, runtime, lengths).result) :
             Staged(t, runtime, lengths).files[v] # 0
    BY DEF BeginCommit, Running, Reached
  <1>2. results[t] # None /\ dir[t] # None =>
          results[t] = dir[t].manifest /\ Partial(dir[t]) /\ Single(results[t])
    BY <1>1 DEF ActivationInv, ResultsSound, DirectoriesSound, Between
  <1> QED
    BY <1>1, <1>2, StagedKeeps DEF ActivationInv

\* The operation keeps its type when it moves on, and when it ends.
LEMMA OperationTyped ==
  ASSUME ActivationTypeOK
  PROVE  /\ \A pc \in {"aside", "placed", "evicting", "tombstone"} : [op EXCEPT !.pc = pc] \in Operation
         /\ NoOperation \in Operation /\ Down \in Operation /\ NoFiles \in [ValueIds -> 0..MaxRuns]
         /\ NoOperation = [pc |-> "idle", trace |-> None, result |-> None, files |-> NoFiles]
         /\ Down = [pc |-> "down", trace |-> None, result |-> None, files |-> NoFiles]
  <1>1. NoFiles \in [ValueIds -> 0..MaxRuns]
    BY ActivationAssumption DEF NoFiles
  <1> QED
    <2>1. NoOperation = [pc |-> "idle", trace |-> None, result |-> None, files |-> NoFiles]
      BY DEF NoOperation
    <2>2. Down = [pc |-> "down", trace |-> None, result |-> None, files |-> NoFiles]
      BY <2>1 DEF Down
    <2>3. NoOperation \in Operation /\ Down \in Operation
      BY <1>1, <2>1, <2>2 DEF Operation
    <2>4. \A pc \in {"aside", "placed", "evicting", "tombstone"} : [op EXCEPT !.pc = pc] \in Operation
      BY DEF ActivationTypeOK, Operation
    <2> QED
      BY <1>1, <2>1, <2>2, <2>3, <2>4

\* Directories, results and slices, and the operation, keep their types.
LEMMA CaptureTypesStep ==
  ASSUME ActivationInv, [ActivationNext]_activations
  PROVE  CaptureTypes'
  <1>0. /\ CaptureTypes /\ None \notin Result /\ None \notin Directory
        /\ MaxRuns \in Nat /\ MaxFaults \in Nat /\ NoFiles \in [ValueIds -> 0..MaxRuns]
        /\ NoOperation \in Operation /\ Down \in Operation
        /\ \A pc \in {"aside", "placed", "evicting", "tombstone"} : [op EXCEPT !.pc = pc] \in Operation
    BY ActivationAssumption, NothingAssumption, OperationTyped
    DEF ActivationInv, ActivationTypeOK, CaptureTypes
  <1>1. ASSUME NEW t \in Traces, NEW runtime \in Runtimes, NEW S \in (SUBSET ValueIds) \ {{}},
              NEW lengths \in [S -> 0..MaxLength],
              BeginCommit(t, runtime, lengths)
        PROVE  CaptureTypes'
    <2>1. op' \in Operation /\ runs' \in 0..MaxRuns
      <3>1. op' \in Operation /\ runs' = runs + 1 /\ runs < MaxRuns
        BY <1>1, BeginEffect
      <3> QED
        BY <1>0, <3>1 DEF CaptureTypes
    <2> QED
      BY <1>0, <1>1, <2>1 DEF BeginCommit, Running, CaptureTypes
  <1>2. ASSUME AbandonStaged
        PROVE  CaptureTypes'
    BY <1>2, <1>0 DEF AbandonStaged, Reached, NoOperation, CaptureTypes
  <1>3. ASSUME SetAside
        PROVE  CaptureTypes'
    <2>1. dir' \in [Traces -> Directory \cup {None}]
      BY <1>0, <1>3 DEF SetAside, CaptureTypes
    <2>2. aside' \in Directory \cup {None} /\ op' \in Operation
      BY <1>0, <1>3 DEF SetAside, Goto, Reached, CaptureTypes, ActivationInv, StagedSound
    <2> QED
      BY <1>0, <1>3, <2>1, <2>2 DEF SetAside, CaptureTypes
  <1>4. ASSUME PutInPlace
        PROVE  CaptureTypes'
    <2>1. [manifest |-> op.result, files |-> op.files] \in Directory
      BY <1>0, <1>4 DEF PutInPlace, Reached, CaptureTypes, Operation, ActivationInv, StagedSound, Committing, Directory
    <2>2. dir' \in [Traces -> Directory \cup {None}]
      BY <1>0, <1>4, <2>1 DEF PutInPlace, CaptureTypes
    <2>3. op' \in Operation
      BY <1>0, <1>4 DEF PutInPlace, Goto
    <2> QED
      BY <1>0, <1>4, <2>2, <2>3 DEF PutInPlace, CaptureTypes
  <1>5. ASSUME PlaceFails
        PROVE  CaptureTypes'
    <2>0. op.trace \in Traces
      BY <1>5 DEF PlaceFails, Reached, ActivationInv, StagedSound
    <2>1. dir' \in [Traces -> Directory \cup {None}] /\ astray' \subseteq Traces
      BY <1>0, <1>5, <2>0 DEF PlaceFails, CaptureTypes
    <2>2. op' \in Operation /\ aside' = None /\ faults' \in 0..MaxFaults
      BY <1>0, <1>5 DEF PlaceFails, Fails, CaptureTypes
    <2> QED
      BY <1>0, <1>5, <2>1, <2>2 DEF PlaceFails, CaptureTypes
  <1>6. ASSUME Account
        PROVE  CaptureTypes'
    <2>1. op.result \in Result
      BY <1>0, <1>6 DEF Account, Reached, ActivationInv, StagedSound, Committing, CaptureTypes, Operation
    <2>2. op' \in Operation /\ results' \in [Traces -> Result \cup {None}] /\ cached' \subseteq cached
      BY <1>0, <1>6, <2>1 DEF Account, Goto, CaptureTypes
    <2> QED
      BY <1>0, <1>6, <2>2 DEF Account, CaptureTypes
  <1>7. ASSUME EvictCaptures
        PROVE  CaptureTypes'
    <2> DEFINE t == Head(available).key
    <2>0. t \in Traces
      BY <1>7, ListedAlike, OldestLeaves DEF ActivationInv, EvictCaptures, OverBudget
    <2>1. dir' = [dir EXCEPT ![t] = IF dir[t] = None THEN None ELSE [dir[t] EXCEPT !.files = NoFiles]]
      BY <1>7 DEF EvictCaptures, Emptied
    <2>2. op' = [op EXCEPT !.pc = "tombstone", !.trace = t]
      BY <1>7 DEF EvictCaptures
    <2>3. dir[t] # None => [dir[t] EXCEPT !.files = NoFiles] \in Directory
      BY <1>0, <2>0 DEF CaptureTypes, Directory
    <2> HIDE DEF t
    <2>4. dir' \in [Traces -> Directory \cup {None}]
      BY <1>0, <2>1, <2>3 DEF CaptureTypes
    <2>5. op' \in Operation
      BY <1>0, <2>0, <2>2 DEF CaptureTypes, Operation
    <2>6. astray' \subseteq Traces
      BY <1>0, <1>7, <2>0 DEF EvictCaptures, CaptureTypes, t
    <2> QED
      BY <1>0, <1>7, <2>4, <2>5, <2>6 DEF EvictCaptures, CaptureTypes
  <1>8. ASSUME EvictFails
        PROVE  CaptureTypes'
    <2> DEFINE t == Head(available).key
    <2>0. t \in Traces
      BY <1>8, ListedAlike, OldestLeaves DEF ActivationInv, EvictFails, OverBudget
    <2>1. PICK left \in SUBSET ValueIds :
            dir' = [dir EXCEPT ![t].files = [v \in ValueIds |-> IF v \in left THEN dir[t].files[v] ELSE 0]]
      BY <1>8 DEF EvictFails
    <2> DEFINE kept == [v \in ValueIds |-> IF v \in left THEN dir[t].files[v] ELSE 0]
    <2>2. dir[t] \in Directory
      BY <1>0, <1>8, <2>0 DEF EvictFails, CaptureTypes
    <2>3. kept \in [ValueIds -> 0..MaxRuns]
      BY <1>0, <2>2 DEF Directory
    <2>4. dir' = [dir EXCEPT ![t] = [dir[t] EXCEPT !.files = kept]]
      BY <1>0, <2>0, <2>1 DEF CaptureTypes
    <2> HIDE DEF kept
    <2>5. [dir[t] EXCEPT !.files = kept] \in Directory
      BY <2>2, <2>3 DEF Directory
    <2> HIDE DEF t
    <2>6. dir' \in [Traces -> Directory \cup {None}]
      BY <1>0, <2>4, <2>5 DEF CaptureTypes
    <2>7. op' \in Operation /\ faults' \in 0..MaxFaults
      BY <1>0, <1>8 DEF EvictFails, Broken, Fails, CaptureTypes
    <2>8. astray' \subseteq Traces
      BY <1>0, <1>8, <2>0 DEF EvictFails, CaptureTypes, t
    <2> QED
      BY <1>0, <1>8, <2>6, <2>7, <2>8 DEF EvictFails, CaptureTypes
  <1>9. ASSUME WriteTombstone
        PROVE  CaptureTypes'
    <2> DEFINE t == op.trace
               w == Tombstone(results[t])
    <2>1. t \in Traces /\ results[t] \in Result /\ dir[t] \in Directory
      BY <1>0, <1>9 DEF WriteTombstone, Reached, ActivationInv, StagedSound, VictimSound, CaptureTypes
    <2>2. w \in Result
      BY <2>1, TombstoneShape
    <2>3. /\ results' = [results EXCEPT ![t] = w]
          /\ dir' = [dir EXCEPT ![t] = [dir[t] EXCEPT !.manifest = w]]
      BY <1>0, <1>9, <2>1 DEF WriteTombstone, CaptureTypes
    <2> HIDE DEF w, t
    <2>4. [dir[t] EXCEPT !.manifest = w] \in Directory
      BY <2>1, <2>2 DEF Directory
    <2>5. /\ results' \in [Traces -> Result \cup {None}]
          /\ dir' \in [Traces -> Directory \cup {None}]
      BY <1>0, <2>2, <2>3, <2>4 DEF CaptureTypes
    <2>6. op' \in Operation
      BY <1>0, <1>9 DEF WriteTombstone, Goto
    <2>7. cached' \subseteq cached /\ astray' \subseteq astray
      BY <1>9 DEF WriteTombstone
    <2> QED
      BY <1>0, <1>9, <2>5, <2>6, <2>7 DEF WriteTombstone, CaptureTypes
  <1>10. ASSUME TombstoneFails
         PROVE  CaptureTypes'
    BY <1>10, <1>0 DEF TombstoneFails, Reached, Broken, NoOperation, Down, Fails, CaptureTypes
  <1>11. ASSUME Return
         PROVE  CaptureTypes'
    BY <1>11, <1>0 DEF Return, Reached, NoOperation, OverBudget, CaptureTypes
  <1>12. ASSUME NEW t \in Traces, LookAt(t)
         PROVE  CaptureTypes'
    BY <1>12, <1>0 DEF LookAt, Reached, CaptureTypes
  <1>13. ASSUME NEW t \in Traces, NEW v \in ValueIds, Read(t, v)
         PROVE  CaptureTypes'
    <2>1. PICK run \in {s[3] : s \in {c \in cached : c[1] = t /\ c[2] = v}}
                        \cup (IF dir[t] = None THEN {} ELSE {dir[t].files[v]} \ {0}) :
            /\ cached' = cached \cup {<<t, v, run>>}
            /\ misread' = IF run = results[t].records[v].run THEN misread ELSE misread \cup {t}
      BY <1>13 DEF Read
    <2>2. run \in 1..MaxRuns
      BY <1>0 DEF CaptureTypes, Directory
    <2>3. cached' \subseteq Traces \X ValueIds \X (1..MaxRuns) /\ misread' \subseteq Traces
      BY <1>0, <2>1, <2>2 DEF CaptureTypes
    <2> QED
      BY <1>0, <1>13, <2>3 DEF Read, CaptureTypes
  <1>14. ASSUME Crash
         PROVE  CaptureTypes'
    <2>1. aside # None => op.trace \in Traces
      BY DEF ActivationInv, AsideSound, StagedSound
    <2>2. astray' \subseteq Traces
      BY <1>0, <1>14, <2>1 DEF Crash, CaptureTypes
    <2>3. results' \in [Traces -> Result \cup {None}] /\ op' \in Operation
      BY <1>0, <1>14 DEF Crash
    <2> QED
      BY <1>0, <1>14, <2>2, <2>3 DEF Crash, CaptureTypes
  <1>15. ASSUME Load
         PROVE  CaptureTypes'
    <2>1. \A t \in Traces : dir[t] # None => dir[t].manifest \in Result
      BY <1>0 DEF CaptureTypes, Directory
    <2>2. results' \in [Traces -> Result \cup {None}]
      BY <1>15, <2>1 DEF Load
    <2>3. op' = [pc |-> "evicting", trace |-> None, result |-> None, files |-> NoFiles]
      BY <1>15, OperationTyped DEF Load, ActivationInv
    <2>4. op' \in Operation
      BY <1>0, <2>3 DEF Operation
    <2> QED
      BY <1>0, <1>15, <2>2, <2>4 DEF Load, CaptureTypes
  <1>16. CASE UNCHANGED activations
    BY <1>16, <1>0 DEF activations, CaptureTypes
  <1> QED
    BY <1>1, <1>2, <1>3, <1>4, <1>5, <1>6, <1>7, <1>8, <1>9, <1>10, <1>11, <1>12, <1>13, <1>14,
       <1>15, <1>16 DEF ActivationNext


LEMMA ActivationTypesStep ==
  ASSUME ActivationInv, [ActivationNext]_activations
  PROVE  ActivationTypeOK'
  <1>1. Ledger(available') /\ current' = CostOf(available')
    BY LedgerStep
  <1>2. /\ available' \in Seq(ChargeType) /\ current' \in Nat
        /\ \A i, j \in DOMAIN available' : available'[i].key = available'[j].key => i = j
    BY <1>1, LedgerShape DEF Ledger, Unique
  <1> QED
    BY <1>2, CaptureTypesStep DEF CaptureTypes, ActivationTypeOK, ChargeType

\* What is staged is whole until its commit() has accounted for it.
LEMMA StagedStep ==
  ASSUME ActivationInv, [ActivationNext]_activations
  PROVE  StagedSound'
  <1>0. /\ StagedSound /\ VictimSound /\ op \in Operation /\ dir \in [Traces -> Directory \cup {None}]
        /\ None \notin Result /\ NoOperation \in Operation /\ Down \in Operation
        /\ NoOperation = [pc |-> "idle", trace |-> None, result |-> None, files |-> NoFiles]
        /\ Down = [pc |-> "down", trace |-> None, result |-> None, files |-> NoFiles]
    BY NothingAssumption, OperationTyped DEF ActivationInv, ActivationTypeOK
  <1>1. ASSUME NEW t \in Traces, NEW runtime \in Runtimes, NEW S \in (SUBSET ValueIds) \ {{}},
              NEW lengths \in [S -> 0..MaxLength],
              BeginCommit(t, runtime, lengths)
        PROVE  StagedSound'
    <2>1. /\ op'.pc = "staged" /\ op'.trace = t /\ op'.result \in Result
          /\ Single(op'.result) /\ Whole([manifest |-> op'.result, files |-> op'.files])
      BY <1>1, BeginEffect
    <2> QED
      BY <1>0, <2>1 DEF StagedSound, Committing, InStaging
  <1>2. ASSUME AbandonStaged
        PROVE  StagedSound'
    BY <1>0, <1>2 DEF AbandonStaged, StagedSound, Committing
  <1>3. ASSUME SetAside
        PROVE  StagedSound'
    BY <1>3, <1>0 DEF SetAside, Reached, Goto, StagedSound, Committing, InStaging, Operation
  <1>4. ASSUME PutInPlace
        PROVE  StagedSound'
    BY <1>4, <1>0 DEF PutInPlace, Reached, Goto, StagedSound, Committing, InStaging, Operation
  <1>5. ASSUME PlaceFails
        PROVE  StagedSound'
    BY <1>0, <1>5 DEF PlaceFails, StagedSound, Committing
  <1>6. ASSUME Account
        PROVE  StagedSound'
    BY <1>6, <1>0 DEF Account, Reached, Goto, StagedSound, Committing, InStaging, Operation
  <1>7. ASSUME EvictCaptures
        PROVE  StagedSound'
    <2>1. Head(available).key \in Traces
      BY <1>7, ListedAlike, OldestLeaves DEF ActivationInv, EvictCaptures, OverBudget
    <2>2. op' = [op EXCEPT !.pc = "tombstone", !.trace = Head(available).key]
      BY <1>7 DEF EvictCaptures
    <2>3. op'.pc = "tombstone" /\ op'.trace = Head(available).key
      BY <1>0, <2>2 DEF Operation
    <2> QED
      BY <2>1, <2>3 DEF StagedSound, Committing
  <1>8. ASSUME EvictFails
        PROVE  StagedSound'
    BY <1>0, <1>8 DEF EvictFails, Broken, StagedSound, Committing
  <1>9. ASSUME WriteTombstone
        PROVE  StagedSound'
    BY <1>9, <1>0 DEF WriteTombstone, Reached, Goto, StagedSound, Committing, InStaging, Operation
  <1>10. ASSUME TombstoneFails
         PROVE  StagedSound'
    BY <1>0, <1>10 DEF TombstoneFails, Broken, StagedSound, Committing
  <1>11. ASSUME Return
         PROVE  StagedSound'
    BY <1>0, <1>11 DEF Return, StagedSound, Committing
  <1>12. ASSUME NEW t \in Traces, LookAt(t)
         PROVE  StagedSound'
    BY <1>12, <1>0 DEF LookAt, Reached, StagedSound, Committing, InStaging, Operation
  <1>13. ASSUME NEW t \in Traces, NEW v \in ValueIds, Read(t, v)
         PROVE  StagedSound'
    BY <1>13, <1>0 DEF Read, Reached, StagedSound, Committing, InStaging, Operation
  <1>14. ASSUME Crash
         PROVE  StagedSound'
    BY <1>0, <1>14 DEF Crash, StagedSound, Committing
  <1>15. ASSUME Load
         PROVE  StagedSound'
    <2>1. op'.pc = "evicting"
      BY <1>0, <1>15 DEF Load
    <2> QED
      BY <2>1 DEF StagedSound, Committing
  <1>16. CASE UNCHANGED activations
    BY <1>16, <1>0 DEF activations, StagedSound, Committing, InStaging, Operation
  <1> QED
    BY <1>1, <1>2, <1>3, <1>4, <1>5, <1>6, <1>7, <1>8, <1>9, <1>10, <1>11, <1>12, <1>13, <1>14,
       <1>15, <1>16 DEF ActivationNext


\* What is moved aside is what the store knows, and goes back whole.
LEMMA AsideStep ==
  ASSUME ActivationInv, [ActivationNext]_activations
  PROVE  AsideSound'
  <1>0. /\ StagedSound /\ AsideSound /\ DirectoriesSound /\ ResultsSound
        /\ op \in Operation /\ dir \in [Traces -> Directory \cup {None}]
        /\ results \in [Traces -> Result \cup {None}] /\ aside \in Directory \cup {None}
        /\ None \notin Result /\ None \notin Directory
        /\ NoOperation = [pc |-> "idle", trace |-> None, result |-> None, files |-> NoFiles]
        /\ Down = [pc |-> "down", trace |-> None, result |-> None, files |-> NoFiles]
    BY NothingAssumption, OperationTyped DEF ActivationInv, ActivationTypeOK
  <1>1. ASSUME NEW t \in Traces, NEW runtime \in Runtimes, NEW S \in (SUBSET ValueIds) \ {{}},
              NEW lengths \in [S -> 0..MaxLength],
              BeginCommit(t, runtime, lengths)
        PROVE  AsideSound'
    <2>1. op'.pc = "staged" /\ op'.trace = t /\ op'.result \in Result /\ op.pc = "idle"
      BY <1>1, BeginEffect
    <2> QED
      BY <1>0, <1>1, <2>1 DEF BeginCommit, Running, AsideSound
  <1>2. ASSUME AbandonStaged
        PROVE  AsideSound'
    BY <1>0, <1>2 DEF AbandonStaged, Reached, AsideSound
  <1>3. ASSUME SetAside
        PROVE  AsideSound'
    <2>1. /\ op.trace \in Traces /\ dir[op.trace] # None /\ aside' = dir[op.trace]
          /\ op'.pc = "aside" /\ op'.trace = op.trace /\ dir'[op.trace] = None
          /\ results' = results /\ astray' = astray /\ op.pc = "staged"
      BY <1>0, <1>3 DEF SetAside, Reached, Goto, StagedSound, Operation
    <2>2. /\ results[op.trace] = dir[op.trace].manifest /\ Partial(dir[op.trace])
          /\ op.trace \notin astray => Whole(dir[op.trace])
      BY <1>0, <2>1 DEF ResultsSound, DirectoriesSound, Between
    <2> QED
      BY <2>1, <2>2 DEF AsideSound
  <1>4. ASSUME PutInPlace
        PROVE  AsideSound'
    BY <1>4, <1>0 DEF PutInPlace, Reached, Goto, AsideSound, Operation
  <1>5. ASSUME PlaceFails
        PROVE  AsideSound'
    BY <1>0, <1>5 DEF PlaceFails, AsideSound
  <1>6. ASSUME Account
        PROVE  AsideSound'
    BY <1>6, <1>0 DEF Account, Reached, Goto, AsideSound, Operation
  <1>7. ASSUME EvictCaptures
        PROVE  AsideSound'
    <2>1. /\ Head(available).key \in Traces /\ available' = Tail(available)
          /\ op.pc = "evicting" /\ available # << >>
      BY <1>7, ListedAlike, OldestLeaves DEF ActivationInv, EvictCaptures, OverBudget, Reached
    <2>2. op' = [op EXCEPT !.pc = "tombstone", !.trace = Head(available).key]
      BY <1>7 DEF EvictCaptures
    <2>3. op'.pc = "tombstone" /\ op'.trace = Head(available).key /\ op'.result = op.result
      BY <1>0, <2>2 DEF Operation
    <2> QED
      BY <1>0, <1>7, <2>1, <2>3 DEF EvictCaptures, AsideSound
  <1>8. ASSUME EvictFails
        PROVE  AsideSound'
    BY <1>0, <1>8 DEF EvictFails, Reached, Broken, AsideSound
  <1>9. ASSUME WriteTombstone
        PROVE  AsideSound'
    BY <1>9, <1>0 DEF WriteTombstone, Reached, Goto, AsideSound, Operation
  <1>10. ASSUME TombstoneFails
         PROVE  AsideSound'
    BY <1>0, <1>10 DEF TombstoneFails, Reached, Broken, AsideSound
  <1>11. ASSUME Return
         PROVE  AsideSound'
    BY <1>0, <1>11 DEF Return, Reached, AsideSound
  <1>12. ASSUME NEW t \in Traces, LookAt(t)
         PROVE  AsideSound'
    BY <1>12, <1>0 DEF LookAt, Reached, AsideSound, Operation
  <1>13. ASSUME NEW t \in Traces, NEW v \in ValueIds, Read(t, v)
         PROVE  AsideSound'
    BY <1>13, <1>0 DEF Read, Reached, AsideSound, Operation
  <1>14. ASSUME Crash
         PROVE  AsideSound'
    BY <1>0, <1>14 DEF Crash, AsideSound
  <1>15. ASSUME Load
         PROVE  AsideSound'
    <2>1. op'.pc = "evicting" /\ op'.result = None /\ op.pc = "down"
      BY <1>0, <1>15 DEF Load, Reached
    <2> QED
      BY <1>0, <1>15, <2>1 DEF Load, AsideSound
  <1>16. CASE UNCHANGED activations
    BY <1>16, <1>0 DEF activations, AsideSound, Operation
  <1> QED
    BY <1>1, <1>2, <1>3, <1>4, <1>5, <1>6, <1>7, <1>8, <1>9, <1>10, <1>11, <1>12, <1>13, <1>14,
       <1>15, <1>16 DEF ActivationNext


\* Nothing is amiss where every capture is there.
LEMMA WholeIsPartial ==
  ASSUME NEW d, Whole(d)
  PROVE  Partial(d)
  BY DEF Whole, Partial

\* A directory never holds bytes its manifest does not name, and misses none unless astray.
LEMMA DirectoriesStep ==
  ASSUME ActivationInv, [ActivationNext]_activations
  PROVE  DirectoriesSound'
  <1>0. /\ StagedSound /\ AsideSound /\ DirectoriesSound /\ ResultsSound /\ VictimSound
        /\ op \in Operation /\ dir \in [Traces -> Directory \cup {None}]
        /\ results \in [Traces -> Result \cup {None}] /\ aside \in Directory \cup {None}
        /\ None \notin Result /\ None \notin Directory
        /\ NoOperation = [pc |-> "idle", trace |-> None, result |-> None, files |-> NoFiles]
        /\ Down = [pc |-> "down", trace |-> None, result |-> None, files |-> NoFiles]
    BY NothingAssumption, OperationTyped DEF ActivationInv, ActivationTypeOK
  <1>1. ASSUME NEW t \in Traces, NEW runtime \in Runtimes, NEW S \in (SUBSET ValueIds) \ {{}},
              NEW lengths \in [S -> 0..MaxLength],
              BeginCommit(t, runtime, lengths)
        PROVE  DirectoriesSound'
    <2>1. dir' = dir /\ astray \subseteq astray'
      BY <1>0, <1>1 DEF BeginCommit, Running
    <2> QED
      BY <1>0, <2>1 DEF DirectoriesSound
  <1>2. ASSUME AbandonStaged
        PROVE  DirectoriesSound'
    <2>1. dir' = dir /\ astray \subseteq astray'
      BY <1>0, <1>2 DEF AbandonStaged
    <2> QED
      BY <1>0, <2>1 DEF DirectoriesSound
  <1>3. ASSUME SetAside
        PROVE  DirectoriesSound'
    <2>1. dir' = [dir EXCEPT ![op.trace] = None] /\ astray' = astray
      BY <1>3 DEF SetAside
    <2>2. ASSUME NEW t \in Traces, dir'[t] # None PROVE dir'[t] = dir[t]
      BY <1>0, <2>1, <2>2
    <2> QED
      BY <1>0, <2>1, <2>2 DEF DirectoriesSound
  <1>4. ASSUME PutInPlace
        PROVE  DirectoriesSound'
    <2> DEFINE d == [manifest |-> op.result, files |-> op.files]
    <2>1. /\ dir' = [dir EXCEPT ![op.trace] = d] /\ astray' = astray \ {op.trace}
          /\ op.trace \in Traces
      BY <1>0, <1>4 DEF PutInPlace, Reached, StagedSound
    <2>2. Whole(d) /\ Single(d.manifest)
      BY <1>0, <1>4 DEF PutInPlace, Reached, StagedSound, Committing, InStaging
    <2>3. Partial(d)
      BY <2>2, WholeIsPartial
    <2> HIDE DEF d
    <2>4. dir'[op.trace] = d /\ \A t \in Traces : t # op.trace =>
            dir'[t] = dir[t] /\ (t \notin astray' => t \notin astray)
      BY <1>0, <2>1
    <2> QED
      BY <1>0, <2>1, <2>2, <2>3, <2>4 DEF DirectoriesSound
  <1>5. ASSUME PlaceFails
        PROVE  DirectoriesSound'
    <2>1. op.trace \in Traces /\ astray \subseteq astray'
      BY <1>0, <1>5 DEF PlaceFails, Reached, StagedSound
    <2>2. CASE dir' = dir
      BY <1>0, <2>1, <2>2 DEF DirectoriesSound
    <2>3. CASE dir' = [dir EXCEPT ![op.trace] = aside] /\ astray' = astray
      <3>1. dir'[op.trace] = aside /\ \A t \in Traces : t # op.trace => dir'[t] = dir[t]
        BY <1>0, <2>1, <2>3
      <3>2. aside # None => /\ Partial(aside) /\ (op.trace \notin astray => Whole(aside))
                            /\ Single(aside.manifest)
        <4> SUFFICES ASSUME aside # None PROVE Single(aside.manifest)
          BY <1>0 DEF AsideSound
        <4>1. aside.manifest = results[op.trace] /\ aside.manifest \in Result
          BY <1>0 DEF AsideSound, Directory
        <4>2. Single(results[op.trace])
          BY <1>0, <2>1, <4>1 DEF ActivationInv, OneRuntime, Single
        <4> QED
          BY <4>1, <4>2
      <3> QED
        BY <1>0, <2>1, <2>3, <3>1, <3>2 DEF DirectoriesSound
    <2> QED
      BY <1>5, <2>2, <2>3 DEF PlaceFails
  <1>6. ASSUME Account
        PROVE  DirectoriesSound'
    <2>1. dir' = dir /\ astray \subseteq astray'
      BY <1>0, <1>6 DEF Account
    <2> QED
      BY <1>0, <2>1 DEF DirectoriesSound
  <1>7. ASSUME EvictCaptures
        PROVE  DirectoriesSound'
    <2>1. /\ Head(available).key \in Traces /\ available' = Tail(available)
          /\ op.pc = "evicting" /\ available # << >>
      BY <1>7, ListedAlike, OldestLeaves DEF ActivationInv, EvictCaptures, OverBudget, Reached
    <2>2. op' = [op EXCEPT !.pc = "tombstone", !.trace = Head(available).key]
      BY <1>7 DEF EvictCaptures
    <2>3. op'.pc = "tombstone" /\ op'.trace = Head(available).key /\ op'.result = op.result
      BY <1>0, <2>2 DEF Operation
    <2> DEFINE k == Head(available).key
    <2>4. /\ astray' = astray \cup {k}
          /\ dir' = [dir EXCEPT ![k] = IF dir[k] = None THEN None ELSE [dir[k] EXCEPT !.files = NoFiles]]
      BY <1>7 DEF EvictCaptures, Emptied
    <2> HIDE DEF k
    <2>5. k \in Traces
      BY <2>1 DEF k
    <2>6. dir'[k] # None => Partial(dir'[k]) /\ Single(dir'[k].manifest)
      <3> SUFFICES ASSUME dir'[k] # None PROVE Partial(dir'[k]) /\ Single(dir'[k].manifest)
        OBVIOUS
      <3>1. dir[k] \in Directory /\ dir'[k] = [dir[k] EXCEPT !.files = NoFiles]
        BY <1>0, <2>4, <2>5
      <3>2. dir'[k].manifest = dir[k].manifest /\ dir'[k].files = NoFiles
        BY <3>1 DEF Directory
      <3>3. Partial(dir'[k])
        BY <3>2 DEF Partial, NoFiles
      <3>4. Single(dir[k].manifest)
        BY <1>0, <2>5, <3>1 DEF DirectoriesSound
      <3> QED
        BY <3>2, <3>3, <3>4
    <2>7. \A t \in Traces : t # k => dir'[t] = dir[t] /\ (t \notin astray' => t \notin astray)
      BY <1>0, <2>4
    <2> QED
      BY <1>0, <2>4, <2>5, <2>6, <2>7 DEF DirectoriesSound
  <1>8. ASSUME EvictFails
        PROVE  DirectoriesSound'
    <2> DEFINE k == Head(available).key
    <2>1. PICK left \in SUBSET ValueIds :
            dir' = [dir EXCEPT ![k].files = [v \in ValueIds |-> IF v \in left THEN dir[k].files[v] ELSE 0]]
      BY <1>8 DEF EvictFails
    <2> DEFINE kept == [v \in ValueIds |-> IF v \in left THEN dir[k].files[v] ELSE 0]
    <2>2. k \in Traces /\ dir[k] \in Directory /\ astray' = astray \cup {k}
      BY <1>0, <1>8, ListedAlike, OldestLeaves DEF ActivationInv, EvictFails, OverBudget
    <2>3. dir' = [dir EXCEPT ![k] = [dir[k] EXCEPT !.files = kept]]
      BY <1>0, <2>1, <2>2
    <2>4. \A v \in ValueIds : kept[v] # 0 => kept[v] = dir[k].files[v]
      OBVIOUS
    <2> HIDE DEF k, kept
    <2>5. dir'[k].manifest = dir[k].manifest /\ dir'[k].files = kept
      BY <1>0, <2>2, <2>3 DEF Directory
    <2>6. Partial(dir[k]) /\ Single(dir[k].manifest)
      BY <1>0, <2>2 DEF DirectoriesSound
    <2>7. Partial(dir'[k])
      BY <2>4, <2>5, <2>6 DEF Partial
    <2>8. Single(dir'[k].manifest)
      BY <2>5, <2>6
    <2>9. \A t \in Traces : t # k => dir'[t] = dir[t] /\ (t \notin astray' => t \notin astray)
      BY <1>0, <2>2, <2>3
    <2> QED
      BY <1>0, <2>2, <2>7, <2>8, <2>9 DEF DirectoriesSound
  <1>9. ASSUME WriteTombstone
        PROVE  DirectoriesSound'
    <2> DEFINE k == op.trace
               w == Tombstone(results[k])
    <2>1. /\ k \in Traces /\ results[k] \in Result /\ dir[k] \in Directory
          /\ dir[k].files = NoFiles /\ astray' = astray \ {k}
      BY <1>0, <1>9 DEF WriteTombstone, Reached, StagedSound, VictimSound
    <2>2. Readable(w) = {}
      BY <2>1, TombstoneShape
    <2>3. dir' = [dir EXCEPT ![k] = [dir[k] EXCEPT !.manifest = w]]
      BY <1>0, <1>9, <2>1 DEF WriteTombstone
    <2> HIDE DEF k, w
    <2>4. dir'[k].manifest = w /\ dir'[k].files = NoFiles
      BY <1>0, <2>1, <2>3 DEF Directory
    <2>5. Partial(dir'[k]) /\ Single(dir'[k].manifest) /\ Whole(dir'[k])
      BY <2>2, <2>4 DEF Partial, Single, Whole, NoFiles
    <2>6. \A t \in Traces : t # k => dir'[t] = dir[t] /\ (t \notin astray' => t \notin astray)
      BY <1>0, <2>1, <2>3
    <2> QED
      BY <1>0, <2>1, <2>5, <2>6 DEF DirectoriesSound
  <1>10. ASSUME TombstoneFails
         PROVE  DirectoriesSound'
    <2>1. dir' = dir /\ astray \subseteq astray'
      BY <1>0, <1>10 DEF TombstoneFails
    <2> QED
      BY <1>0, <2>1 DEF DirectoriesSound
  <1>11. ASSUME Return
         PROVE  DirectoriesSound'
    <2>1. dir' = dir /\ astray \subseteq astray'
      BY <1>0, <1>11 DEF Return
    <2> QED
      BY <1>0, <2>1 DEF DirectoriesSound
  <1>12. ASSUME NEW t \in Traces, LookAt(t)
         PROVE  DirectoriesSound'
    <2>1. dir' = dir /\ astray \subseteq astray'
      BY <1>0, <1>12 DEF LookAt
    <2> QED
      BY <1>0, <2>1 DEF DirectoriesSound
  <1>13. ASSUME NEW t \in Traces, NEW v \in ValueIds, Read(t, v)
         PROVE  DirectoriesSound'
    <2>1. dir' = dir /\ astray \subseteq astray'
      BY <1>0, <1>13 DEF Read
    <2> QED
      BY <1>0, <2>1 DEF DirectoriesSound
  <1>14. ASSUME Crash
         PROVE  DirectoriesSound'
    <2>1. dir' = dir /\ astray \subseteq astray'
      BY <1>0, <1>14 DEF Crash
    <2> QED
      BY <1>0, <2>1 DEF DirectoriesSound
  <1>15. ASSUME Load
         PROVE  DirectoriesSound'
    <2>1. dir' = dir /\ astray \subseteq astray'
      BY <1>0, <1>15 DEF Load
    <2> QED
      BY <1>0, <2>1 DEF DirectoriesSound
  <1>16. CASE UNCHANGED activations
    BY <1>16, <1>0 DEF activations, DirectoriesSound
  <1> QED
    BY <1>1, <1>2, <1>3, <1>4, <1>5, <1>6, <1>7, <1>8, <1>9, <1>10, <1>11, <1>12, <1>13, <1>14,
       <1>15, <1>16 DEF ActivationNext


\* The store believes what the manifests say, but for the trace whose commit() is under way.
LEMMA ResultsStep ==
  ASSUME ActivationInv, [ActivationNext]_activations
  PROVE  ResultsSound'
  <1>0. /\ StagedSound /\ AsideSound /\ DirectoriesSound /\ ResultsSound /\ VictimSound
        /\ op \in Operation /\ dir \in [Traces -> Directory \cup {None}]
        /\ results \in [Traces -> Result \cup {None}] /\ aside \in Directory \cup {None}
        /\ None \notin Result /\ None \notin Directory
        /\ NoOperation = [pc |-> "idle", trace |-> None, result |-> None, files |-> NoFiles]
        /\ Down = [pc |-> "down", trace |-> None, result |-> None, files |-> NoFiles]
    BY NothingAssumption, OperationTyped DEF ActivationInv, ActivationTypeOK
  <1>1. ASSUME NEW t \in Traces, NEW runtime \in Runtimes, NEW S \in (SUBSET ValueIds) \ {{}},
              NEW lengths \in [S -> 0..MaxLength],
              BeginCommit(t, runtime, lengths)
        PROVE  ResultsSound'
    <2>1. op'.pc = "staged" /\ op'.trace = t /\ op'.result \in Result /\ op.pc = "idle"
      BY <1>1, BeginEffect
    <2> QED
      BY <1>0, <1>1, <2>1 DEF BeginCommit, Running, ResultsSound, Between
  <1>2. ASSUME AbandonStaged
        PROVE  ResultsSound'
    BY <1>0, <1>2 DEF AbandonStaged, Reached, ResultsSound, Between
  <1>3. ASSUME SetAside
        PROVE  ResultsSound'
    <2>1. /\ op'.pc = "aside" /\ op'.trace = op.trace /\ op.pc = "staged"
          /\ results' = results /\ astray' = astray
          /\ \A t \in Traces : t # op.trace => dir'[t] = dir[t]
      BY <1>0, <1>3 DEF SetAside, Reached, Goto, Operation
    <2> QED
      BY <1>0, <2>1 DEF ResultsSound, Between
  <1>4. ASSUME PutInPlace
        PROVE  ResultsSound'
    <2>1. /\ op'.pc = "placed" /\ op'.trace = op.trace /\ op.pc \in {"aside", "staged"}
          /\ results' = results /\ astray' = astray \ {op.trace}
          /\ \A t \in Traces : t # op.trace => dir'[t] = dir[t]
      BY <1>0, <1>4 DEF PutInPlace, Reached, Goto, Operation
    <2> QED
      BY <1>0, <2>1 DEF ResultsSound, Between
  <1>5. ASSUME PlaceFails
        PROVE  ResultsSound'
    <2>1. /\ op.trace \in Traces /\ op.pc \in {"aside", "staged"} /\ op'.pc = "idle" /\ results' = results
          /\ astray \subseteq astray' /\ dir[op.trace] = None
          /\ \A t \in Traces : t # op.trace => dir'[t] = dir[t]
      BY <1>0, <1>5 DEF PlaceFails, Reached, StagedSound, AsideSound
    <2>2. ASSUME NEW t \in Traces, t # op.trace
          PROVE  /\ dir'[t] # None => results'[t] = dir'[t].manifest
                 /\ dir'[t] = None /\ t \notin astray' => results'[t] = None
      BY <1>0, <2>1, <2>2 DEF ResultsSound, Between
    <2>3. /\ dir'[op.trace] # None => results'[op.trace] = dir'[op.trace].manifest
          /\ dir'[op.trace] = None /\ op.trace \notin astray' => results'[op.trace] = None
      <3>1. CASE dir' = [dir EXCEPT ![op.trace] = aside] /\ aside # None
        BY <1>0, <2>1, <3>1 DEF AsideSound
      <3>2. CASE dir' = [dir EXCEPT ![op.trace] = aside] /\ aside = None /\ astray' = astray
        <4>1. op.pc = "staged" /\ dir'[op.trace] = None
          BY <1>0, <2>1, <3>2 DEF AsideSound
        <4> QED
          BY <1>0, <2>1, <3>2, <4>1 DEF ResultsSound, Between
      <3>3. CASE aside # None /\ dir' = dir /\ astray' = astray \cup {op.trace}
        BY <2>1, <3>3
      <3> QED
        BY <1>5, <3>1, <3>2, <3>3 DEF PlaceFails
    <2> QED
      BY <2>2, <2>3 DEF ResultsSound
  <1>6. ASSUME Account
        PROVE  ResultsSound'
    <2>1. /\ op.trace \in Traces /\ op.pc = "placed" /\ op'.pc = "evicting"
          /\ results' = [results EXCEPT ![op.trace] = op.result] /\ dir' = dir /\ astray' = astray
          /\ dir[op.trace] = [manifest |-> op.result, files |-> op.files] /\ op.result # None
      BY <1>0, <1>6 DEF Account, Reached, Goto, StagedSound, Committing, InStaging, Operation
    <2>2. /\ results'[op.trace] = dir'[op.trace].manifest /\ dir'[op.trace] # None
          /\ \A t \in Traces : t # op.trace => results'[t] = results[t]
      <3>1. [manifest |-> op.result, files |-> op.files] \in Directory
        BY <1>0, <2>1 DEF Directory, Operation
      <3> QED
        BY <1>0, <2>1, <3>1
    <2> QED
      BY <1>0, <2>1, <2>2 DEF ResultsSound, Between
  <1>7. ASSUME EvictCaptures
        PROVE  ResultsSound'
    <2>1. /\ Head(available).key \in Traces /\ available' = Tail(available)
          /\ op.pc = "evicting" /\ available # << >>
      BY <1>7, ListedAlike, OldestLeaves DEF ActivationInv, EvictCaptures, OverBudget, Reached
    <2>2. op' = [op EXCEPT !.pc = "tombstone", !.trace = Head(available).key]
      BY <1>7 DEF EvictCaptures
    <2>3. op'.pc = "tombstone" /\ op'.trace = Head(available).key /\ op'.result = op.result
      BY <1>0, <2>2 DEF Operation
    <2> DEFINE k == Head(available).key
    <2>4. /\ astray' = astray \cup {k} /\ results' = results
          /\ dir' = [dir EXCEPT ![k] = IF dir[k] = None THEN None ELSE [dir[k] EXCEPT !.files = NoFiles]]
      BY <1>7 DEF EvictCaptures, Emptied
    <2> HIDE DEF k
    <2>5. k \in Traces
      BY <2>1 DEF k
    <2>6. \A t \in Traces : /\ dir'[t] = None <=> dir[t] = None
                            /\ dir'[t] # None => dir'[t].manifest = dir[t].manifest
      <3>1. CASE dir[k] = None
        <4>1. dir'[k] = None
          BY <1>0, <2>4, <2>5, <3>1
        <4> QED
          BY <1>0, <2>4, <3>1, <4>1
      <3>2. CASE dir[k] # None
        <4>1. dir[k] \in Directory /\ dir'[k] = [dir[k] EXCEPT !.files = NoFiles]
          BY <1>0, <2>4, <2>5, <3>2
        <4>2. dir'[k].manifest = dir[k].manifest /\ dir'[k] \in Directory
          BY <4>1, OperationTyped DEF Directory, ActivationInv
        <4> QED
          BY <1>0, <2>4, <3>2, <4>2
      <3> QED
        BY <3>1, <3>2
    <2> QED
      BY <1>0, <2>1, <2>3, <2>4, <2>6 DEF ResultsSound, Between
  <1>8. ASSUME EvictFails
        PROVE  ResultsSound'
    <2> DEFINE k == Head(available).key
    <2>1. PICK left \in SUBSET ValueIds :
            dir' = [dir EXCEPT ![k].files = [v \in ValueIds |-> IF v \in left THEN dir[k].files[v] ELSE 0]]
      BY <1>8 DEF EvictFails
    <2> DEFINE kept == [v \in ValueIds |-> IF v \in left THEN dir[k].files[v] ELSE 0]
    <2>2. /\ k \in Traces /\ dir[k] \in Directory /\ astray' = astray \cup {k} /\ results' = results
          /\ op.pc = "evicting"
      BY <1>0, <1>8, ListedAlike, OldestLeaves DEF ActivationInv, EvictFails, OverBudget, Reached
    <2>3. dir' = [dir EXCEPT ![k] = [dir[k] EXCEPT !.files = kept]]
      BY <1>0, <2>1, <2>2
    <2>4. kept \in [ValueIds -> 0..MaxRuns]
      BY <2>2, ActivationAssumption DEF Directory
    <2> HIDE DEF k, kept
    <2>5. /\ dir'[k].manifest = dir[k].manifest /\ dir'[k] \in Directory
          /\ \A t \in Traces : t # k => dir'[t] = dir[t]
      BY <1>0, <2>2, <2>3, <2>4 DEF Directory
    <2>6. \A t \in Traces : /\ dir'[t] = None <=> dir[t] = None
                            /\ dir'[t] # None => dir'[t].manifest = dir[t].manifest
      BY <1>0, <2>2, <2>5
    <2> QED
      BY <1>0, <2>2, <2>6 DEF ResultsSound, Between
  <1>9. ASSUME WriteTombstone
        PROVE  ResultsSound'
    <2> DEFINE k == op.trace
               w == Tombstone(results[k])
    <2>1. /\ k \in Traces /\ results[k] \in Result /\ dir[k] \in Directory
          /\ astray' = astray \ {k} /\ op.pc = "tombstone"
      BY <1>0, <1>9 DEF WriteTombstone, Reached, StagedSound, VictimSound
    <2>2. /\ dir' = [dir EXCEPT ![k] = [dir[k] EXCEPT !.manifest = w]]
          /\ results' = [results EXCEPT ![k] = w]
      BY <1>0, <1>9, <2>1 DEF WriteTombstone
    <2>3. w \in Result
      BY <2>1, TombstoneShape
    <2> HIDE DEF k, w
    <2>4. dir'[k].manifest = w /\ results'[k] = w /\ dir'[k] \in Directory
      BY <1>0, <2>1, <2>2, <2>3 DEF Directory
    <2>5. \A t \in Traces : t # k => /\ dir'[t] = dir[t] /\ results'[t] = results[t]
                                     /\ (t \notin astray' => t \notin astray)
      BY <1>0, <2>1, <2>2
    <2> QED
      BY <1>0, <2>1, <2>4, <2>5 DEF ResultsSound, Between
  <1>10. ASSUME TombstoneFails
         PROVE  ResultsSound'
    BY <1>0, <1>10 DEF TombstoneFails, Reached, Broken, ResultsSound, Between
  <1>11. ASSUME Return
         PROVE  ResultsSound'
    BY <1>0, <1>11 DEF Return, Reached, ResultsSound, Between
  <1>12. ASSUME NEW t \in Traces, LookAt(t)
         PROVE  ResultsSound'
    BY <1>0, <1>12 DEF LookAt, ResultsSound, Between
  <1>13. ASSUME NEW t \in Traces, NEW v \in ValueIds, Read(t, v)
         PROVE  ResultsSound'
    BY <1>0, <1>13 DEF Read, ResultsSound, Between
  <1>14. ASSUME Crash
         PROVE  ResultsSound'
    BY <1>0, <1>14 DEF Crash, ResultsSound
  <1>15. ASSUME Load
         PROVE  ResultsSound'
    <2>1. /\ dir' = dir /\ astray' = astray
          /\ results' = [t \in Traces |-> IF dir[t] = None THEN None ELSE dir[t].manifest]
      BY <1>15 DEF Load
    <2> QED
      BY <2>1 DEF ResultsSound
  <1>16. CASE UNCHANGED activations
    BY <1>16, <1>0 DEF activations, ResultsSound, Between, Operation
  <1> QED
    BY <1>1, <1>2, <1>3, <1>4, <1>5, <1>6, <1>7, <1>8, <1>9, <1>10, <1>11, <1>12, <1>13, <1>14,
       <1>15, <1>16 DEF ActivationNext


\* The trace that is being evicted has left the account, and its captures their directory.
LEMMA VictimStep ==
  ASSUME ActivationInv, [ActivationNext]_activations
  PROVE  VictimSound'
  <1>0. /\ VictimSound /\ AccountSound /\ ActivationTypeOK
        /\ op \in Operation /\ dir \in [Traces -> Directory \cup {None}]
        /\ results \in [Traces -> Result \cup {None}] /\ aside \in Directory \cup {None}
        /\ None \notin Result /\ None \notin Directory
        /\ NoOperation = [pc |-> "idle", trace |-> None, result |-> None, files |-> NoFiles]
        /\ Down = [pc |-> "down", trace |-> None, result |-> None, files |-> NoFiles]
    BY NothingAssumption, OperationTyped DEF ActivationInv, ActivationTypeOK
  <1>1. ASSUME NEW t \in Traces, NEW runtime \in Runtimes, NEW S \in (SUBSET ValueIds) \ {{}},
              NEW lengths \in [S -> 0..MaxLength],
              BeginCommit(t, runtime, lengths)
        PROVE  VictimSound'
    <2>1. op'.pc = "staged" /\ op'.trace = t /\ op'.result \in Result /\ op.pc = "idle"
      BY <1>1, BeginEffect
    <2> QED
      BY <2>1 DEF VictimSound
  <1>2. ASSUME AbandonStaged
        PROVE  VictimSound'
    BY <1>0, <1>2 DEF AbandonStaged, VictimSound
  <1>3. ASSUME SetAside
        PROVE  VictimSound'
    BY <1>3, <1>0 DEF SetAside, Reached, Goto, VictimSound, Operation
  <1>4. ASSUME PutInPlace
        PROVE  VictimSound'
    BY <1>4, <1>0 DEF PutInPlace, Reached, Goto, VictimSound, Operation
  <1>5. ASSUME PlaceFails
        PROVE  VictimSound'
    BY <1>0, <1>5 DEF PlaceFails, VictimSound
  <1>6. ASSUME Account
        PROVE  VictimSound'
    BY <1>6, <1>0 DEF Account, Reached, Goto, VictimSound, Operation
  <1>7. ASSUME EvictCaptures
        PROVE  VictimSound'
    <2>1. /\ Head(available).key \in Traces /\ available' = Tail(available)
          /\ op.pc = "evicting" /\ available # << >>
      BY <1>7, ListedAlike, OldestLeaves DEF ActivationInv, EvictCaptures, OverBudget, Reached
    <2>2. op' = [op EXCEPT !.pc = "tombstone", !.trace = Head(available).key]
      BY <1>7 DEF EvictCaptures
    <2>3. op'.pc = "tombstone" /\ op'.trace = Head(available).key /\ op'.result = op.result
      BY <1>0, <2>2 DEF Operation
    <2> DEFINE k == Head(available).key
    <2>4. /\ astray' = astray \cup {k} /\ results' = results
          /\ dir' = [dir EXCEPT ![k] = IF dir[k] = None THEN None ELSE [dir[k] EXCEPT !.files = NoFiles]]
      BY <1>7 DEF EvictCaptures, Emptied
    <2>5. k \in Traces /\ ListedIn(available, k) /\ ~ListedIn(Tail(available), k) /\ Ledger(Tail(available))
      BY <2>1, ListedAlike, OldestLeaves DEF ActivationInv
    <2> HIDE DEF k
    <2>6. results[k] # None
      BY <1>0, <2>1, <2>5, ListedAlike DEF AccountSound
    <2>7. dir'[k] # None => dir'[k].files = NoFiles
      <3>1. CASE dir[k] = None
        BY <1>0, <2>4, <2>5, <3>1
      <3>2. CASE dir[k] # None
        <4>1. dir[k] \in Directory /\ dir'[k] = [dir[k] EXCEPT !.files = NoFiles]
          BY <1>0, <2>4, <2>5, <3>2
        <4> QED
          BY <4>1 DEF Directory
      <3> QED
        BY <3>1, <3>2
    <2>8. op'.trace = k /\ ~ListedIn(available', k)
      BY <2>1, <2>3, <2>5 DEF k
    <2> QED
      BY <2>4, <2>6, <2>7, <2>8 DEF VictimSound
  <1>8. ASSUME EvictFails
        PROVE  VictimSound'
    BY <1>0, <1>8 DEF EvictFails, Broken, VictimSound
  <1>9. ASSUME WriteTombstone
        PROVE  VictimSound'
    BY <1>9, <1>0 DEF WriteTombstone, Reached, Goto, VictimSound, Operation
  <1>10. ASSUME TombstoneFails
         PROVE  VictimSound'
    BY <1>0, <1>10 DEF TombstoneFails, Broken, VictimSound
  <1>11. ASSUME Return
         PROVE  VictimSound'
    BY <1>0, <1>11 DEF Return, VictimSound
  <1>12. ASSUME NEW t \in Traces, LookAt(t)
         PROVE  VictimSound'
    BY <1>0, <1>12 DEF LookAt, Reached, VictimSound
  <1>13. ASSUME NEW t \in Traces, NEW v \in ValueIds, Read(t, v)
         PROVE  VictimSound'
    BY <1>0, <1>13 DEF Read, Reached, VictimSound
  <1>14. ASSUME Crash
         PROVE  VictimSound'
    BY <1>0, <1>14 DEF Crash, VictimSound
  <1>15. ASSUME Load
         PROVE  VictimSound'
    <2>1. op'.pc = "evicting" /\ op'.result = None /\ op.pc = "down"
      BY <1>0, <1>15 DEF Load, Reached
    <2> QED
      BY <2>1 DEF VictimSound
  <1>16. CASE UNCHANGED activations
    BY <1>16, <1>0 DEF activations, VictimSound, Operation
  <1> QED
    BY <1>1, <1>2, <1>3, <1>4, <1>5, <1>6, <1>7, <1>8, <1>9, <1>10, <1>11, <1>12, <1>13, <1>14,
       <1>15, <1>16 DEF ActivationNext


\* What read() returns is of the run the record names.
LEMMA ReadEffect ==
  ASSUME ActivationInv, NEW t \in Traces, NEW v \in ValueIds, Read(t, v)
  PROVE  misread' = misread /\ \E run : cached' = cached \cup {<<t, v, run>>} /\ run = results[t].records[v].run
  <1>1. PICK run \in {s[3] : s \in {c \in cached : c[1] = t /\ c[2] = v}}
                        \cup (IF dir[t] = None THEN {} ELSE {dir[t].files[v]} \ {0}) :
          /\ cached' = cached \cup {<<t, v, run>>}
          /\ misread' = IF run = results[t].records[v].run THEN misread ELSE misread \cup {t}
    BY DEF Read
  <1>2. results[t] # None /\ v \in Readable(results[t]) /\ op.pc = "idle"
    BY DEF Read, Reached
  <1>3. CASE \E c \in cached : c[1] = t /\ c[2] = v /\ run = c[3]
    <2>1. run = results[t].records[v].run
      BY <1>2, <1>3 DEF ActivationInv, SlicesSound
    <2> QED
      BY <1>1, <2>1
  <1>4. CASE dir[t] # None /\ run = dir[t].files[v] /\ run # 0
    <2>1. results[t] = dir[t].manifest /\ Partial(dir[t])
      BY <1>2, <1>4 DEF ActivationInv, ResultsSound, DirectoriesSound, Between
    <2>2. run = results[t].records[v].run
      BY <1>4, <2>1 DEF Partial
    <2> QED
      BY <1>1, <2>2
  <1>5. (\E c \in cached : c[1] = t /\ c[2] = v /\ run = c[3]) \/ (dir[t] # None /\ run = dir[t].files[v] /\ run # 0)
    BY <1>1
  <1> QED
    BY <1>3, <1>4, <1>5

\* A slice in memory is of the run its record names, for what is replaced is dropped.
LEMMA SlicesStep ==
  ASSUME ActivationInv, [ActivationNext]_activations
  PROVE  SlicesSound'
  <1>0. /\ StagedSound /\ SlicesSound /\ ResultsSound /\ DirectoriesSound /\ VictimSound
        /\ op \in Operation /\ dir \in [Traces -> Directory \cup {None}]
        /\ results \in [Traces -> Result \cup {None}] /\ aside \in Directory \cup {None}
        /\ None \notin Result /\ None \notin Directory
        /\ NoOperation = [pc |-> "idle", trace |-> None, result |-> None, files |-> NoFiles]
        /\ Down = [pc |-> "down", trace |-> None, result |-> None, files |-> NoFiles]
    BY NothingAssumption, OperationTyped DEF ActivationInv, ActivationTypeOK
  <1>1. ASSUME NEW t \in Traces, NEW runtime \in Runtimes, NEW S \in (SUBSET ValueIds) \ {{}},
              NEW lengths \in [S -> 0..MaxLength],
              BeginCommit(t, runtime, lengths)
        PROVE  SlicesSound'
    <2>1. op'.pc = "staged" /\ op'.trace = t /\ op'.result \in Result /\ op.pc = "idle"
      BY <1>1, BeginEffect
    <2>2. op'.result # None /\ op'.pc = "staged"
      BY <1>0, <2>1
    <2> QED
      BY <1>0, <1>1, <2>2 DEF BeginCommit, Running, SlicesSound
  <1>2. ASSUME AbandonStaged
        PROVE  SlicesSound'
    BY <1>0, <1>2 DEF AbandonStaged, Reached, SlicesSound
  <1>3. ASSUME SetAside
        PROVE  SlicesSound'
    BY <1>3, <1>0 DEF SetAside, Reached, Goto, SlicesSound, Operation
  <1>4. ASSUME PutInPlace
        PROVE  SlicesSound'
    BY <1>4, <1>0 DEF PutInPlace, Reached, Goto, SlicesSound, Operation
  <1>5. ASSUME PlaceFails
        PROVE  SlicesSound'
    BY <1>0, <1>5 DEF PlaceFails, Reached, SlicesSound
  <1>6. ASSUME Account
        PROVE  SlicesSound'
    <2>1. /\ op.trace \in Traces /\ op.result # None /\ op'.pc = "evicting" /\ op'.result = op.result
          /\ results' = [results EXCEPT ![op.trace] = op.result]
          /\ cached' = {s \in cached : s[1] # op.trace}
      BY <1>0, <1>6 DEF Account, Reached, Goto, StagedSound, Committing, Operation
    <2>2. \A s \in cached' : s \in cached /\ results'[s[1]] = results[s[1]]
      BY <1>0, <2>1
    <2> QED
      BY <1>0, <2>1, <2>2 DEF SlicesSound
  <1>7. ASSUME EvictCaptures
        PROVE  SlicesSound'
    <2>1. /\ Head(available).key \in Traces /\ available' = Tail(available)
          /\ op.pc = "evicting" /\ available # << >>
      BY <1>7, ListedAlike, OldestLeaves DEF ActivationInv, EvictCaptures, OverBudget, Reached
    <2>2. op' = [op EXCEPT !.pc = "tombstone", !.trace = Head(available).key]
      BY <1>7 DEF EvictCaptures
    <2>3. op'.pc = "tombstone" /\ op'.trace = Head(available).key /\ op'.result = op.result
      BY <1>0, <2>2 DEF Operation
    <2> QED
      BY <1>0, <1>7, <2>1, <2>3 DEF EvictCaptures, SlicesSound
  <1>8. ASSUME EvictFails
        PROVE  SlicesSound'
    BY <1>0, <1>8 DEF EvictFails, Reached, Broken, SlicesSound
  <1>9. ASSUME WriteTombstone
        PROVE  SlicesSound'
    <2>1. /\ op.trace \in Traces /\ op.pc = "tombstone" /\ op'.pc = "evicting" /\ op'.result = op.result
          /\ results' = [results EXCEPT ![op.trace] = Tombstone(results[op.trace])]
          /\ cached' = {s \in cached : s[1] # op.trace}
      BY <1>0, <1>9 DEF WriteTombstone, Reached, Goto, StagedSound, Operation
    <2>2. \A s \in cached' : s \in cached /\ results'[s[1]] = results[s[1]]
      BY <1>0, <2>1
    <2> QED
      BY <1>0, <2>1, <2>2 DEF SlicesSound
  <1>10. ASSUME TombstoneFails
         PROVE  SlicesSound'
    BY <1>0, <1>10 DEF TombstoneFails, Reached, Broken, SlicesSound
  <1>11. ASSUME Return
         PROVE  SlicesSound'
    BY <1>0, <1>11 DEF Return, SlicesSound
  <1>12. ASSUME NEW t \in Traces, LookAt(t)
         PROVE  SlicesSound'
    BY <1>0, <1>12 DEF LookAt, Reached, SlicesSound
  <1>13. ASSUME NEW t \in Traces, NEW v \in ValueIds, Read(t, v)
         PROVE  SlicesSound'
    <2>1. PICK run : /\ cached' = cached \cup {<<t, v, run>>}
                     /\ run = results[t].records[v].run
      BY <1>13, ReadEffect
    <2>2. op' = op /\ op.pc = "idle" /\ results' = results
      BY <1>13 DEF Read, Reached
    <2>3. \A s \in cached' : s \in cached \/ s = <<t, v, run>>
      BY <2>1
    <2> QED
      BY <1>0, <2>1, <2>2, <2>3 DEF SlicesSound
  <1>14. ASSUME Crash
         PROVE  SlicesSound'
    BY <1>0, <1>14 DEF Crash, SlicesSound
  <1>15. ASSUME Load
         PROVE  SlicesSound'
    <2>1. op'.pc = "evicting" /\ op'.result = None /\ op.pc = "down"
      BY <1>0, <1>15 DEF Load, Reached
    <2>2. cached' = {}
      BY <1>0, <1>15, <2>1 DEF Load, SlicesSound
    <2> QED
      BY <2>2 DEF SlicesSound
  <1>16. CASE UNCHANGED activations
    BY <1>16, <1>0 DEF activations, SlicesSound, Operation
  <1> QED
    BY <1>1, <1>2, <1>3, <1>4, <1>5, <1>6, <1>7, <1>8, <1>9, <1>10, <1>11, <1>12, <1>13, <1>14,
       <1>15, <1>16 DEF ActivationNext


\* What commit() charges, and what of the account it leaves alone.
LEMMA AccountEffect ==
  ASSUME ActivationInv, Account
  PROVE  /\ ChargedIn(available', op.trace) = Bytes(op.result)
         /\ \A t : t # op.trace => Agree(available, available', t)
  <1> DEFINE t == op.trace
             w == Apart(t)
             c == Bytes(op.result)
  <1>1. Ledger(available) /\ t \in Traces /\ op.result \in Result
    BY ListedAlike
    DEF ActivationInv, ActivationTypeOK, StagedSound, Committing, Account, Reached, Operation
  <1>2. c \in Nat /\ available' = Charging(w, t, c)
    BY <1>1, BytesAreNat DEF Account
  <1> HIDE DEF c
  <1>3. Ledger(w) /\ ~ListedIn(w, t) /\ \A u : u # t => Agree(available, w, u)
    BY <1>1, ApartKeeps DEF Apart
  <1> HIDE DEF w, t
  <1>4. CASE c > 0
    <2>1. available' = Append(w, Charge(t, c))
      BY <1>2, <1>4 DEF Charging
    <2>2. ChargedIn(available', t) = c /\ \A u : u # t => Agree(available, available', u)
      BY <1>1, <1>2, <1>3, <2>1, ChargeKeeps DEF Agree
    <2> QED
      BY <2>2 DEF t, c
  <1>5. CASE c = 0
    <2>1. available' = w
      BY <1>2, <1>5 DEF Charging
    <2>2. ChargedIn(available', t) = c
      BY <1>3, <1>5, <2>1 DEF ChargedIn
    <2> QED
      BY <1>3, <2>1, <2>2 DEF t, c
  <1> QED
    BY <1>2, <1>4, <1>5

\* The entries of the account after a step.
LedgerMoves ==
  \/ \A t : Agree(available, available', t)
  \/ /\ op.pc = "placed" /\ ChargedIn(available', op.trace) = Bytes(op.result)
     /\ \A t : t # op.trace => Agree(available, available', t)
  \/ /\ op.pc = "evicting" /\ ~ListedIn(available', Head(available).key)
     /\ Head(available).key \in astray'
     /\ \A t : t # Head(available).key => Agree(available, available', t)
  \/ op.pc = "down" \/ op'.pc = "down"

\* What a step does to the entries of the account.
LEMMA LedgerEffect ==
  ASSUME ActivationInv, [ActivationNext]_activations
  PROVE  LedgerMoves
  <1>a. available' = available => LedgerMoves
    BY DEF LedgerMoves, Agree
  <1>0. Ledger(available) /\ op \in Operation /\ StagedSound
    BY ListedAlike DEF ActivationInv, ActivationTypeOK
  <1>1. ASSUME NEW t \in Traces, NEW runtime \in Runtimes, NEW S \in (SUBSET ValueIds) \ {{}},
              NEW lengths \in [S -> 0..MaxLength],
              BeginCommit(t, runtime, lengths)
        PROVE  LedgerMoves
    BY <1>a, <1>1 DEF BeginCommit, Running
  <1>2. ASSUME AbandonStaged
        PROVE  LedgerMoves
    BY <1>a, <1>2 DEF AbandonStaged
  <1>3. ASSUME SetAside
        PROVE  LedgerMoves
    BY <1>a, <1>3 DEF SetAside
  <1>4. ASSUME PutInPlace
        PROVE  LedgerMoves
    BY <1>a, <1>4 DEF PutInPlace
  <1>5. ASSUME PlaceFails
        PROVE  LedgerMoves
    BY <1>a, <1>5 DEF PlaceFails
  <1>6. ASSUME Account
        PROVE  LedgerMoves
    BY <1>6, AccountEffect DEF Account, Reached, LedgerMoves
  <1>7. ASSUME EvictCaptures
        PROVE  LedgerMoves
    BY <1>0, <1>7, OldestLeaves DEF EvictCaptures, OverBudget, Reached, LedgerMoves
  <1>8. ASSUME EvictFails
        PROVE  LedgerMoves
    BY <1>0, <1>8, OldestLeaves DEF EvictFails, OverBudget, Reached, LedgerMoves
  <1>9. ASSUME WriteTombstone
        PROVE  LedgerMoves
    BY <1>a, <1>9 DEF WriteTombstone
  <1>10. ASSUME TombstoneFails
         PROVE  LedgerMoves
    BY <1>a, <1>10 DEF TombstoneFails
  <1>11. ASSUME Return
         PROVE  LedgerMoves
    BY <1>a, <1>11 DEF Return
  <1>12. ASSUME NEW t \in Traces, LookAt(t)
         PROVE  LedgerMoves
    BY <1>0, <1>12, MovingKeeps DEF LookAt, LedgerMoves
  <1>13. ASSUME NEW t \in Traces, NEW v \in ValueIds, Read(t, v)
         PROVE  LedgerMoves
    BY <1>0, <1>13, MovingKeeps DEF Read, LedgerMoves
  <1>14. ASSUME Crash
         PROVE  LedgerMoves
    BY <1>0, <1>14 DEF Crash, Down, LedgerMoves
  <1>15. ASSUME Load
         PROVE  LedgerMoves
    BY <1>0, <1>15 DEF Load, Reached, LedgerMoves
  <1>16. CASE UNCHANGED activations
    BY <1>16, <1>a DEF activations
  <1> QED
    BY <1>1, <1>2, <1>3, <1>4, <1>5, <1>6, <1>7, <1>8, <1>9, <1>10, <1>11, <1>12, <1>13, <1>14,
       <1>15, <1>16 DEF ActivationNext


\* What can be read of a trace stays of one runtime.
LEMMA OneRuntimeStep ==
  ASSUME ActivationInv, [ActivationNext]_activations
  PROVE  OneRuntime'
  <1>a. results' = results => OneRuntime'
    BY DEF OneRuntime, ActivationInv
  <1>0. /\ StagedSound /\ DirectoriesSound /\ VictimSound
        /\ op \in Operation /\ dir \in [Traces -> Directory \cup {None}]
        /\ results \in [Traces -> Result \cup {None}] /\ aside \in Directory \cup {None}
        /\ None \notin Result /\ None \notin Directory
        /\ NoOperation = [pc |-> "idle", trace |-> None, result |-> None, files |-> NoFiles]
        /\ Down = [pc |-> "down", trace |-> None, result |-> None, files |-> NoFiles]
    BY NothingAssumption, OperationTyped DEF ActivationInv, ActivationTypeOK
  <1>b. (\A t \in Traces : results'[t] # None => Single(results'[t])) => OneRuntime'
    BY DEF OneRuntime, Single
  <1>c. \A t \in Traces : results[t] # None => Single(results[t])
    BY DEF OneRuntime, Single, ActivationInv
  <1>1. ASSUME NEW t \in Traces, NEW runtime \in Runtimes, NEW S \in (SUBSET ValueIds) \ {{}},
              NEW lengths \in [S -> 0..MaxLength],
              BeginCommit(t, runtime, lengths)
        PROVE  OneRuntime'
    BY <1>a, <1>1 DEF BeginCommit, Running
  <1>2. ASSUME AbandonStaged
        PROVE  OneRuntime'
    BY <1>a, <1>2 DEF AbandonStaged
  <1>3. ASSUME SetAside
        PROVE  OneRuntime'
    BY <1>a, <1>3 DEF SetAside
  <1>4. ASSUME PutInPlace
        PROVE  OneRuntime'
    BY <1>a, <1>4 DEF PutInPlace
  <1>5. ASSUME PlaceFails
        PROVE  OneRuntime'
    BY <1>a, <1>5 DEF PlaceFails
  <1>6. ASSUME Account
        PROVE  OneRuntime'
    <2>1. /\ op.trace \in Traces /\ Single(op.result)
          /\ results' = [results EXCEPT ![op.trace] = op.result]
      BY <1>0, <1>6 DEF Account, Reached, StagedSound, Committing
    <2> QED
      BY <1>0, <1>b, <1>c, <2>1
  <1>7. ASSUME EvictCaptures
        PROVE  OneRuntime'
    BY <1>a, <1>7 DEF EvictCaptures
  <1>8. ASSUME EvictFails
        PROVE  OneRuntime'
    BY <1>a, <1>8 DEF EvictFails
  <1>9. ASSUME WriteTombstone
        PROVE  OneRuntime'
    <2>1. /\ op.trace \in Traces /\ results[op.trace] \in Result
          /\ results' = [results EXCEPT ![op.trace] = Tombstone(results[op.trace])]
      BY <1>0, <1>9 DEF WriteTombstone, Reached, StagedSound, VictimSound
    <2>2. Single(Tombstone(results[op.trace]))
      BY <2>1, TombstoneShape DEF Single
    <2> QED
      BY <1>0, <1>b, <1>c, <2>1, <2>2
  <1>10. ASSUME TombstoneFails
         PROVE  OneRuntime'
    BY <1>a, <1>10 DEF TombstoneFails
  <1>11. ASSUME Return
         PROVE  OneRuntime'
    BY <1>a, <1>11 DEF Return
  <1>12. ASSUME NEW t \in Traces, LookAt(t)
         PROVE  OneRuntime'
    BY <1>a, <1>12 DEF LookAt
  <1>13. ASSUME NEW t \in Traces, NEW v \in ValueIds, Read(t, v)
         PROVE  OneRuntime'
    BY <1>a, <1>13 DEF Read
  <1>14. ASSUME Crash
         PROVE  OneRuntime'
    BY <1>b, <1>14 DEF Crash
  <1>15. ASSUME Load
         PROVE  OneRuntime'
    <2>1. results' = [t \in Traces |-> IF dir[t] = None THEN None ELSE dir[t].manifest]
      BY <1>15 DEF Load
    <2> QED
      BY <1>0, <1>b, <2>1 DEF DirectoriesSound
  <1>16. CASE UNCHANGED activations
    BY <1>16, <1>a DEF activations
  <1> QED
    BY <1>1, <1>2, <1>3, <1>4, <1>5, <1>6, <1>7, <1>8, <1>9, <1>10, <1>11, <1>12, <1>13, <1>14,
       <1>15, <1>16 DEF ActivationNext


\* No read returns the bytes of another run.
LEMMA ReadsStep ==
  ASSUME ActivationInv, [ActivationNext]_activations
  PROVE  ReadsCurrent'
  <1>a. misread' = misread => ReadsCurrent'
    BY DEF ReadsCurrent, ActivationInv
  <1>1. ASSUME NEW t \in Traces, NEW runtime \in Runtimes, NEW S \in (SUBSET ValueIds) \ {{}},
              NEW lengths \in [S -> 0..MaxLength],
              BeginCommit(t, runtime, lengths)
        PROVE  ReadsCurrent'
    BY <1>a, <1>1 DEF BeginCommit, Running
  <1>2. ASSUME AbandonStaged
        PROVE  ReadsCurrent'
    BY <1>a, <1>2 DEF AbandonStaged
  <1>3. ASSUME SetAside
        PROVE  ReadsCurrent'
    BY <1>a, <1>3 DEF SetAside
  <1>4. ASSUME PutInPlace
        PROVE  ReadsCurrent'
    BY <1>a, <1>4 DEF PutInPlace
  <1>5. ASSUME PlaceFails
        PROVE  ReadsCurrent'
    BY <1>a, <1>5 DEF PlaceFails
  <1>6. ASSUME Account
        PROVE  ReadsCurrent'
    BY <1>a, <1>6 DEF Account
  <1>7. ASSUME EvictCaptures
        PROVE  ReadsCurrent'
    BY <1>a, <1>7 DEF EvictCaptures
  <1>8. ASSUME EvictFails
        PROVE  ReadsCurrent'
    BY <1>a, <1>8 DEF EvictFails
  <1>9. ASSUME WriteTombstone
        PROVE  ReadsCurrent'
    BY <1>a, <1>9 DEF WriteTombstone
  <1>10. ASSUME TombstoneFails
         PROVE  ReadsCurrent'
    BY <1>a, <1>10 DEF TombstoneFails
  <1>11. ASSUME Return
         PROVE  ReadsCurrent'
    BY <1>a, <1>11 DEF Return
  <1>12. ASSUME NEW t \in Traces, LookAt(t)
         PROVE  ReadsCurrent'
    BY <1>a, <1>12 DEF LookAt
  <1>13. ASSUME NEW t \in Traces, NEW v \in ValueIds, Read(t, v)
         PROVE  ReadsCurrent'
    BY <1>a, <1>13, ReadEffect
  <1>14. ASSUME Crash
         PROVE  ReadsCurrent'
    BY <1>a, <1>14 DEF Crash
  <1>15. ASSUME Load
         PROVE  ReadsCurrent'
    BY <1>a, <1>15 DEF Load
  <1>16. CASE UNCHANGED activations
    BY <1>16, <1>a DEF activations
  <1> QED
    BY <1>1, <1>2, <1>3, <1>4, <1>5, <1>6, <1>7, <1>8, <1>9, <1>10, <1>11, <1>12, <1>13, <1>14,
       <1>15, <1>16 DEF ActivationNext


\* What was committed stays, but for what a step leaves astray.
LEMMA CommittedStep ==
  ASSUME ActivationInv, [ActivationNext]_activations
  PROVE  CommittedStays'
  <1>0. /\ StagedSound /\ AsideSound /\ ResultsSound /\ VictimSound /\ CommittedStays /\ committed \subseteq Traces
        /\ op \in Operation /\ dir \in [Traces -> Directory \cup {None}]
        /\ results \in [Traces -> Result \cup {None}] /\ aside \in Directory \cup {None}
        /\ None \notin Result /\ None \notin Directory
        /\ NoOperation = [pc |-> "idle", trace |-> None, result |-> None, files |-> NoFiles]
        /\ Down = [pc |-> "down", trace |-> None, result |-> None, files |-> NoFiles]
    BY NothingAssumption, OperationTyped DEF ActivationInv, ActivationTypeOK
  <1>1. ASSUME NEW t \in Traces, NEW runtime \in Runtimes, NEW S \in (SUBSET ValueIds) \ {{}},
              NEW lengths \in [S -> 0..MaxLength],
              BeginCommit(t, runtime, lengths)
        PROVE  CommittedStays'
    <2>1. op'.pc = "staged" /\ op'.trace = t /\ op'.result \in Result /\ op.pc = "idle"
      BY <1>1, BeginEffect
    <2> QED
      BY <1>0, <1>1, <2>1 DEF BeginCommit, Running, Reached, CommittedStays
  <1>2. ASSUME AbandonStaged
        PROVE  CommittedStays'
    BY <1>0, <1>2 DEF AbandonStaged, Reached, CommittedStays
  <1>3. ASSUME SetAside
        PROVE  CommittedStays'
    <2>1. /\ op.trace \in Traces /\ op'.pc = "aside" /\ op'.trace = op.trace /\ op.pc = "staged"
          /\ dir' = [dir EXCEPT ![op.trace] = None] /\ astray' = astray /\ committed' = committed
      BY <1>0, <1>3 DEF SetAside, Reached, Goto, StagedSound, Operation
    <2> QED
      BY <1>0, <2>1 DEF Reached, CommittedStays, ActivationTypeOK
  <1>4. ASSUME PutInPlace
        PROVE  CommittedStays'
    <2>1. /\ op.trace \in Traces /\ op.result \in Result
          /\ dir' = [dir EXCEPT ![op.trace] = InStaging]
          /\ astray' = astray \ {op.trace} /\ committed' = committed
      BY <1>0, <1>4 DEF PutInPlace, Reached, StagedSound, Committing, InStaging, Operation
    <2>2. InStaging \in Directory
      BY <1>0, <2>1 DEF InStaging, Directory, Operation
    <2> QED
      BY <1>0, <2>1, <2>2 DEF Reached, CommittedStays
  <1>5. ASSUME PlaceFails
        PROVE  CommittedStays'
    <2>1. /\ op.trace \in Traces /\ committed' = committed
          /\ op.pc = "aside" \/ (op.pc = "staged" /\ dir[op.trace] = None)
          /\ \/ dir' = [dir EXCEPT ![op.trace] = aside] /\ astray' = astray
             \/ dir' = dir /\ astray' = astray \cup {op.trace}
      BY <1>0, <1>5 DEF PlaceFails, Reached, StagedSound
    <2>2. op.trace \in committed \ astray => aside # None
      BY <1>0, <2>1 DEF AsideSound, CommittedStays, Reached
    <2> QED
      BY <1>0, <2>1, <2>2 DEF Reached, CommittedStays
  <1>6. ASSUME Account
        PROVE  CommittedStays'
    BY <1>0, <1>6 DEF Account, Reached, CommittedStays
  <1>7. ASSUME EvictCaptures
        PROVE  CommittedStays'
    <2>1. /\ Head(available).key \in Traces /\ available' = Tail(available)
          /\ op.pc = "evicting" /\ available # << >>
      BY <1>7, ListedAlike, OldestLeaves DEF ActivationInv, EvictCaptures, OverBudget, Reached
    <2>2. op' = [op EXCEPT !.pc = "tombstone", !.trace = Head(available).key]
      BY <1>7 DEF EvictCaptures
    <2>3. op'.pc = "tombstone" /\ op'.trace = Head(available).key /\ op'.result = op.result
      BY <1>0, <2>2 DEF Operation
    <2>4. /\ committed' = committed /\ astray' = astray \cup {Head(available).key}
          /\ \A t \in Traces \ {Head(available).key} : dir'[t] = dir[t]
      BY <1>0, <1>7, <2>1 DEF EvictCaptures, Emptied
    <2> QED
      BY <1>0, <2>1, <2>4 DEF Reached, CommittedStays
  <1>8. ASSUME EvictFails
        PROVE  CommittedStays'
    <2>1. Head(available).key \in Traces /\ op.pc = "evicting"
      BY <1>8, ListedAlike, OldestLeaves DEF ActivationInv, EvictFails, OverBudget, Reached
    <2>4. /\ committed' = committed /\ astray' = astray \cup {Head(available).key}
          /\ \A t \in Traces \ {Head(available).key} : dir'[t] = dir[t]
      BY <1>0, <1>8, <2>1 DEF EvictFails
    <2> QED
      BY <1>0, <2>1, <2>4 DEF Reached, CommittedStays
  <1>9. ASSUME WriteTombstone
        PROVE  CommittedStays'
    <2>1. /\ op.trace \in Traces /\ dir[op.trace] \in Directory /\ results[op.trace] \in Result
          /\ op.pc = "tombstone" /\ committed' = committed /\ astray' = astray \ {op.trace}
          /\ dir' = [dir EXCEPT ![op.trace].manifest = Tombstone(results[op.trace])]
      BY <1>0, <1>9 DEF WriteTombstone, Reached, StagedSound, VictimSound
    <2>2. dir' = [dir EXCEPT ![op.trace] = [dir[op.trace] EXCEPT !.manifest = Tombstone(results[op.trace])]]
      BY <2>1
    <2>3. dir'[op.trace] \in Directory
      BY <1>0, <2>1, <2>2, TombstoneShape DEF Directory
    <2>4. \A t \in Traces \ {op.trace} : dir'[t] = dir[t]
      BY <1>0, <2>2
    <2> QED
      BY <1>0, <2>1, <2>3, <2>4 DEF Reached, CommittedStays
  <1>10. ASSUME TombstoneFails
         PROVE  CommittedStays'
    BY <1>0, <1>10 DEF TombstoneFails, Reached, CommittedStays
  <1>11. ASSUME Return
         PROVE  CommittedStays'
    <2>1. /\ op.pc = "evicting" /\ dir' = dir /\ astray' = astray
          /\ committed' = committed \cup {t \in Traces : results[t] # None}
      BY <1>11 DEF Return, Reached
    <2>2. \A t \in Traces \ astray : dir[t] = None => results[t] = None
      BY <1>0, <2>1 DEF ResultsSound, Between
    <2> QED
      BY <1>0, <2>1, <2>2 DEF Reached, CommittedStays
  <1>12. ASSUME NEW t \in Traces, LookAt(t)
         PROVE  CommittedStays'
    BY <1>0, <1>12 DEF LookAt, Reached, CommittedStays
  <1>13. ASSUME NEW t \in Traces, NEW v \in ValueIds, Read(t, v)
         PROVE  CommittedStays'
    BY <1>0, <1>13 DEF Read, Reached, CommittedStays
  <1>14. ASSUME Crash
         PROVE  CommittedStays'
    <2>1. /\ dir' = dir /\ committed' = committed
          /\ astray' = IF aside = None THEN astray ELSE astray \cup {op.trace}
      BY <1>14 DEF Crash
    <2> QED
      BY <1>0, <2>1 DEF Reached, CommittedStays, AsideSound
  <1>15. ASSUME Load
         PROVE  CommittedStays'
    BY <1>0, <1>15 DEF Load, Reached, CommittedStays
  <1>16. CASE UNCHANGED activations
    BY <1>16, <1>0 DEF activations, Reached, CommittedStays
  <1> QED
    BY <1>1, <1>2, <1>3, <1>4, <1>5, <1>6, <1>7, <1>8, <1>9, <1>10, <1>11, <1>12, <1>13, <1>14,
       <1>15, <1>16 DEF ActivationNext


\* The account stays the sum of its entries, and those are of traces that are known.
LEMMA AccountStep ==
  ASSUME ActivationInv, [ActivationNext]_activations
  PROVE  AccountSound'
  <1>0. /\ StagedSound /\ VictimSound /\ ChargesSound /\ BudgetSound
        /\ op \in Operation /\ dir \in [Traces -> Directory \cup {None}]
        /\ results \in [Traces -> Result \cup {None}] /\ aside \in Directory \cup {None}
        /\ None \notin Result /\ None \notin Directory
        /\ NoOperation = [pc |-> "idle", trace |-> None, result |-> None, files |-> NoFiles]
        /\ Down = [pc |-> "down", trace |-> None, result |-> None, files |-> NoFiles]
    BY NothingAssumption, OperationTyped DEF ActivationInv, ActivationTypeOK
  <1>l. LedgerMoves /\ Ledger(available') /\ current' = CostOf(available')
    BY LedgerEffect, LedgerStep
  <1>a. ASSUME op.pc # "down", op.pc # "placed", results' = results
        PROVE  AccountSound'
    <2>1. \A t \in Traces : ListedIn(available, t) => results[t] # None
      BY <1>a DEF ActivationInv, AccountSound
    <2> QED
      BY <1>a, <1>l, <2>1 DEF LedgerMoves, Agree, AccountSound
  <1>b. AccountSound
    BY DEF ActivationInv
  <1>1. ASSUME NEW t \in Traces, NEW runtime \in Runtimes, NEW S \in (SUBSET ValueIds) \ {{}},
              NEW lengths \in [S -> 0..MaxLength],
              BeginCommit(t, runtime, lengths)
        PROVE  AccountSound'
    BY <1>a, <1>1 DEF BeginCommit, Running, Reached
  <1>2. ASSUME AbandonStaged
        PROVE  AccountSound'
    BY <1>a, <1>2 DEF AbandonStaged, Reached
  <1>3. ASSUME SetAside
        PROVE  AccountSound'
    BY <1>a, <1>3 DEF SetAside, Reached
  <1>4. ASSUME PutInPlace
        PROVE  AccountSound'
    BY <1>0, <1>b, <1>4 DEF PutInPlace, Reached, AccountSound
  <1>5. ASSUME PlaceFails
        PROVE  AccountSound'
    BY <1>a, <1>5 DEF PlaceFails, Reached
  <1>6. ASSUME Account
        PROVE  AccountSound'
    <2>1. /\ op.trace \in Traces /\ op.result # None
          /\ results' = [results EXCEPT ![op.trace] = op.result]
      BY <1>0, <1>6 DEF Account, Reached, StagedSound, Committing
    <2>2. \A t : t # op.trace => Agree(available, available', t)
      BY <1>6, AccountEffect
    <2>3. \A t \in Traces : ListedIn(available, t) => results[t] # None
      BY <1>6 DEF Account, Reached, ActivationInv, AccountSound
    <2> QED
      BY <1>0, <1>l, <2>1, <2>2, <2>3 DEF Agree, AccountSound
  <1>7. ASSUME EvictCaptures
        PROVE  AccountSound'
    BY <1>a, <1>7 DEF EvictCaptures, Reached
  <1>8. ASSUME EvictFails
        PROVE  AccountSound'
    BY <1>a, <1>8 DEF EvictFails, Reached
  <1>9. ASSUME WriteTombstone
        PROVE  AccountSound'
    <2>1. /\ op.trace \in Traces /\ results[op.trace] \in Result
          /\ results' = [results EXCEPT ![op.trace] = Tombstone(results[op.trace])]
          /\ available' = available
      BY <1>0, <1>9 DEF WriteTombstone, Reached, StagedSound, VictimSound
    <2>2. Tombstone(results[op.trace]) # None
      BY <1>0, <2>1, TombstoneShape
    <2>3. \A t \in Traces : ListedIn(available, t) => results[t] # None
      BY <1>9 DEF WriteTombstone, Reached, ActivationInv, AccountSound
    <2> QED
      BY <1>0, <1>l, <2>1, <2>2, <2>3 DEF AccountSound
  <1>10. ASSUME TombstoneFails
         PROVE  AccountSound'
    BY <1>a, <1>10 DEF TombstoneFails, Reached
  <1>11. ASSUME Return
         PROVE  AccountSound'
    BY <1>a, <1>11 DEF Return, Reached
  <1>12. ASSUME NEW t \in Traces, LookAt(t)
         PROVE  AccountSound'
    BY <1>a, <1>12 DEF LookAt, Reached
  <1>13. ASSUME NEW t \in Traces, NEW v \in ValueIds, Read(t, v)
         PROVE  AccountSound'
    BY <1>a, <1>13 DEF Read, Reached
  <1>14. ASSUME Crash
         PROVE  AccountSound'
    BY <1>0, <1>l, <1>14 DEF Crash, AccountSound
  <1>15. ASSUME Load
         PROVE  AccountSound'
    <2>1. /\ results' = [t \in Traces |-> IF dir[t] = None THEN None ELSE dir[t].manifest]
          /\ available' = Found[Len(ByName)]
      BY <1>15 DEF Load
    <2>2. \A t \in Traces : ListedIn(available', t) => dir[t] # None
      BY <2>1, FoundKeeps DEF ActivationInv
    <2>3. \A t \in Traces : dir[t] # None => dir[t].manifest # None
      BY <1>0 DEF Directory
    <2> QED
      BY <1>l, <2>1, <2>2, <2>3 DEF AccountSound
  <1>16. CASE UNCHANGED activations
    BY <1>16, <1>b DEF activations, AccountSound
  <1> QED
    BY <1>1, <1>2, <1>3, <1>4, <1>5, <1>6, <1>7, <1>8, <1>9, <1>10, <1>11, <1>12, <1>13, <1>14,
       <1>15, <1>16 DEF ActivationNext


\* Every trace stays charged what its readable records sum up to.
LEMMA ChargesStep ==
  ASSUME ActivationInv, [ActivationNext]_activations
  PROVE  ChargesSound'
  <1>0. /\ StagedSound /\ VictimSound /\ ChargesSound /\ BudgetSound
        /\ op \in Operation /\ dir \in [Traces -> Directory \cup {None}]
        /\ results \in [Traces -> Result \cup {None}] /\ aside \in Directory \cup {None}
        /\ None \notin Result /\ None \notin Directory
        /\ NoOperation = [pc |-> "idle", trace |-> None, result |-> None, files |-> NoFiles]
        /\ Down = [pc |-> "down", trace |-> None, result |-> None, files |-> NoFiles]
    BY NothingAssumption, OperationTyped DEF ActivationInv, ActivationTypeOK
  <1>l. LedgerMoves /\ Ledger(available') /\ current' = CostOf(available')
    BY LedgerEffect, LedgerStep
  <1>a. ASSUME op.pc # "down", op.pc # "placed", results' = results, astray \subseteq astray'
        PROVE  ChargesSound'
    <2>1. \A t \in Traces \ astray' : op'.pc # "down" =>
            ChargedIn(available', t) = ChargedIn(available, t)
      BY <1>a, <1>l DEF LedgerMoves, Agree
    <2>2. \A t \in Traces \ astray' :
            ChargedIn(available, t) = IF results[t] = None THEN 0 ELSE Bytes(results[t])
      BY <1>0, <1>a DEF ChargesSound
    <2> QED
      BY <1>a, <2>1, <2>2 DEF ChargesSound
  <1>1. ASSUME NEW t \in Traces, NEW runtime \in Runtimes, NEW S \in (SUBSET ValueIds) \ {{}},
              NEW lengths \in [S -> 0..MaxLength],
              BeginCommit(t, runtime, lengths)
        PROVE  ChargesSound'
    BY <1>a, <1>1 DEF BeginCommit, Running, Reached
  <1>2. ASSUME AbandonStaged
        PROVE  ChargesSound'
    BY <1>a, <1>2 DEF AbandonStaged, Reached
  <1>3. ASSUME SetAside
        PROVE  ChargesSound'
    BY <1>a, <1>3 DEF SetAside, Reached
  <1>4. ASSUME PutInPlace
        PROVE  ChargesSound'
    <2>1. /\ op.pc # "down" /\ op.pc # "placed" /\ op'.pc = "placed" /\ op'.trace = op.trace
          /\ astray' = astray \ {op.trace} /\ results' = results /\ available' = available
      BY <1>0, <1>4 DEF PutInPlace, Reached, Goto, Operation
    <2> QED
      BY <1>0, <2>1 DEF ChargesSound
  <1>5. ASSUME PlaceFails
        PROVE  ChargesSound'
    BY <1>a, <1>5 DEF PlaceFails, Reached
  <1>6. ASSUME Account
        PROVE  ChargesSound'
    <2>1. /\ op.pc = "placed" /\ op.trace \in Traces /\ op.result # None /\ astray' = astray
          /\ results' = [results EXCEPT ![op.trace] = op.result]
      BY <1>0, <1>6 DEF Account, Reached, StagedSound, Committing
    <2>2. /\ ChargedIn(available', op.trace) = Bytes(op.result)
          /\ \A t : t # op.trace => Agree(available, available', t)
      BY <1>6, AccountEffect
    <2> HIDE DEF ActivationInv
    <2>3. ASSUME NEW t \in Traces \ astray
          PROVE  ChargedIn(available', t) = IF results'[t] = None THEN 0 ELSE Bytes(results'[t])
      <3>1. CASE t = op.trace
        BY <1>0, <2>1, <2>2, <3>1
      <3>2. CASE t # op.trace
        <4>1. ChargedIn(available', t) = ChargedIn(available, t) /\ results'[t] = results[t]
          BY <1>0, <2>1, <2>2, <3>2 DEF Agree
        <4>2. ChargedIn(available, t) = IF results[t] = None THEN 0 ELSE Bytes(results[t])
          BY <1>0, <2>1, <3>2 DEF ChargesSound
        <4> QED
          BY <4>1, <4>2
      <3> QED
        BY <3>1, <3>2
    <2> QED
      BY <2>1, <2>3 DEF ChargesSound
  <1>7. ASSUME EvictCaptures
        PROVE  ChargesSound'
    BY <1>a, <1>7 DEF EvictCaptures, Reached
  <1>8. ASSUME EvictFails
        PROVE  ChargesSound'
    BY <1>a, <1>8 DEF EvictFails, Reached
  <1>9. ASSUME WriteTombstone
        PROVE  ChargesSound'
    <2> DEFINE w == Tombstone(results[op.trace])
    <2>1. /\ op.pc = "tombstone" /\ op.trace \in Traces /\ results[op.trace] \in Result
          /\ results' = [results EXCEPT ![op.trace] = w]
          /\ available' = available /\ astray' = astray \ {op.trace}
          /\ ~ListedIn(available, op.trace)
      BY <1>0, <1>9 DEF WriteTombstone, Reached, StagedSound, VictimSound
    <2>2. w # None /\ Bytes(w) = 0
      BY <1>0, <2>1, TombstoneShape
    <2> HIDE DEF w
    <2>3. ASSUME NEW t \in Traces \ astray'
          PROVE  ChargedIn(available', t) = IF results'[t] = None THEN 0 ELSE Bytes(results'[t])
      <3>1. CASE t = op.trace
        BY <1>0, <2>1, <2>2, <3>1 DEF ChargedIn
      <3>2. CASE t # op.trace
        <4>1. available' = available /\ results'[t] = results[t] /\ t \notin astray
          BY <1>0, <2>1, <3>2
        <4>2. ChargedIn(available, t) = IF results[t] = None THEN 0 ELSE Bytes(results[t])
          BY <1>0, <2>1, <4>1 DEF ChargesSound
        <4> QED
          BY <4>1, <4>2
      <3> QED
        BY <3>1, <3>2
    <2> QED
      BY <2>3 DEF ChargesSound
  <1>10. ASSUME TombstoneFails
         PROVE  ChargesSound'
    BY <1>a, <1>10 DEF TombstoneFails, Reached
  <1>11. ASSUME Return
         PROVE  ChargesSound'
    BY <1>a, <1>11 DEF Return, Reached
  <1>12. ASSUME NEW t \in Traces, LookAt(t)
         PROVE  ChargesSound'
    BY <1>a, <1>12 DEF LookAt, Reached
  <1>13. ASSUME NEW t \in Traces, NEW v \in ValueIds, Read(t, v)
         PROVE  ChargesSound'
    BY <1>a, <1>13 DEF Read, Reached
  <1>14. ASSUME Crash
         PROVE  ChargesSound'
    BY <1>0, <1>14 DEF Crash, ChargesSound
  <1>15. ASSUME Load
         PROVE  ChargesSound'
    <2>1. /\ results' = [t \in Traces |-> IF dir[t] = None THEN None ELSE dir[t].manifest]
          /\ available' = Found[Len(ByName)]
      BY <1>15 DEF Load
    <2>2. \A t \in Traces : ChargedIn(available', t) = OnDisk(t)
      BY <2>1, FoundKeeps DEF ActivationInv
    <2>3. \A t \in Traces : dir[t] # None => dir[t].manifest # None
      BY <1>0 DEF Directory
    <2> HIDE DEF ActivationInv
    <2>4. \A t \in Traces : OnDisk(t) = IF results'[t] = None THEN 0 ELSE Bytes(results'[t])
      BY <2>1, <2>3 DEF OnDisk
    <2> QED
      BY <2>2, <2>4 DEF ChargesSound
  <1>16. CASE UNCHANGED activations
    BY <1>16, <1>0 DEF activations, ChargesSound
  <1> QED
    BY <1>1, <1>2, <1>3, <1>4, <1>5, <1>6, <1>7, <1>8, <1>9, <1>10, <1>11, <1>12, <1>13, <1>14,
       <1>15, <1>16 DEF ActivationNext


\* Unless a step has left a trace astray, the account keeps to its budget.
LEMMA BudgetStep ==
  ASSUME ActivationInv, [ActivationNext]_activations
  PROVE  BudgetSound'
  <1>0. /\ StagedSound /\ VictimSound /\ BudgetSound
        /\ op \in Operation /\ dir \in [Traces -> Directory \cup {None}]
        /\ results \in [Traces -> Result \cup {None}] /\ aside \in Directory \cup {None}
        /\ None \notin Result /\ None \notin Directory
        /\ NoOperation = [pc |-> "idle", trace |-> None, result |-> None, files |-> NoFiles]
        /\ Down = [pc |-> "down", trace |-> None, result |-> None, files |-> NoFiles]
    BY NothingAssumption, OperationTyped DEF ActivationInv, ActivationTypeOK
  <1>1. ASSUME NEW t \in Traces, NEW runtime \in Runtimes, NEW S \in (SUBSET ValueIds) \ {{}},
              NEW lengths \in [S -> 0..MaxLength],
              BeginCommit(t, runtime, lengths)
        PROVE  BudgetSound'
    <2>1. op'.pc = "staged" /\ op'.trace = t /\ op'.result \in Result /\ op.pc = "idle"
      BY <1>1, BeginEffect
    <2> QED
      BY <1>0, <1>1, <2>1 DEF BeginCommit, Running, BudgetSound
  <1>2. ASSUME AbandonStaged
        PROVE  BudgetSound'
    BY <1>0, <1>2 DEF AbandonStaged, Reached, BudgetSound
  <1>3. ASSUME SetAside
        PROVE  BudgetSound'
    BY <1>0, <1>3 DEF SetAside, Reached, BudgetSound
  <1>4. ASSUME PutInPlace
        PROVE  BudgetSound'
    BY <1>0, <1>4 DEF PutInPlace, Reached, BudgetSound, Goto, Operation
  <1>5. ASSUME PlaceFails
        PROVE  BudgetSound'
    BY <1>0, <1>5 DEF PlaceFails, Reached, BudgetSound
  <1>6. ASSUME Account
        PROVE  BudgetSound'
    BY <1>0, <1>6 DEF Account, Reached, BudgetSound, Goto, Operation
  <1>7. ASSUME EvictCaptures
        PROVE  BudgetSound'
    <2>1. /\ Head(available).key \in Traces /\ available' = Tail(available)
          /\ op.pc = "evicting" /\ available # << >>
      BY <1>7, ListedAlike, OldestLeaves DEF ActivationInv, EvictCaptures, OverBudget, Reached
    <2>2. op' = [op EXCEPT !.pc = "tombstone", !.trace = Head(available).key]
      BY <1>7 DEF EvictCaptures
    <2>3. op'.pc = "tombstone" /\ op'.trace = Head(available).key /\ op'.result = op.result
      BY <1>0, <2>2 DEF Operation
    <2> QED
      BY <2>3 DEF BudgetSound
  <1>8. ASSUME EvictFails
        PROVE  BudgetSound'
    BY <1>0, <1>8 DEF EvictFails, Reached, BudgetSound
  <1>9. ASSUME WriteTombstone
        PROVE  BudgetSound'
    BY <1>0, <1>9 DEF WriteTombstone, Reached, BudgetSound, Goto, Operation
  <1>10. ASSUME TombstoneFails
         PROVE  BudgetSound'
    BY <1>0, <1>10 DEF TombstoneFails, Reached, BudgetSound, VictimSound
  <1>11. ASSUME Return
         PROVE  BudgetSound'
    <2>1. current' = current /\ budget' = budget /\ ~OverBudget
      BY <1>11 DEF Return
    <2>2. current \in Nat /\ budget \in Nat /\ (current <= budget \/ available = << >>)
      BY <2>1, ActivationAssumption DEF OverBudget, ActivationInv, ActivationTypeOK
    <2>3. available = << >> => current = 0
      BY NothingIsFree DEF ActivationInv, AccountSound
    <2> QED
      BY <2>1, <2>2, <2>3 DEF BudgetSound
  <1>12. ASSUME NEW t \in Traces, LookAt(t)
         PROVE  BudgetSound'
    BY <1>0, <1>12 DEF LookAt, Reached, BudgetSound
  <1>13. ASSUME NEW t \in Traces, NEW v \in ValueIds, Read(t, v)
         PROVE  BudgetSound'
    BY <1>0, <1>13 DEF Read, Reached, BudgetSound
  <1>14. ASSUME Crash
         PROVE  BudgetSound'
    BY <1>0, <1>14 DEF Crash, Reached, BudgetSound
  <1>15. ASSUME Load
         PROVE  BudgetSound'
    <2>1. op'.pc = "evicting" /\ op'.result = None /\ op.pc = "down"
      BY <1>0, <1>15 DEF Load, Reached
    <2> QED
      BY <2>1 DEF BudgetSound
  <1>16. CASE UNCHANGED activations
    BY <1>16, <1>0 DEF activations, BudgetSound
  <1> QED
    BY <1>1, <1>2, <1>3, <1>4, <1>5, <1>6, <1>7, <1>8, <1>9, <1>10, <1>11, <1>12, <1>13, <1>14,
       <1>15, <1>16 DEF ActivationNext


-----------------------------------------------------------------------------
(* The invariant. *)

LEMMA ActivationInitSound == ActivationInit => ActivationInv
  <1> SUFFICES ASSUME ActivationInit PROVE ActivationInv
    OBVIOUS
  <1>1. /\ dir = [t \in Traces |-> None] /\ results = [t \in Traces |-> None]
        /\ available = << >> /\ current = 0 /\ budget \in Budgets /\ cached = {}
        /\ op = NoOperation /\ aside = None /\ faults = 0 /\ runs = 0
        /\ misread = {} /\ astray = {} /\ committed = {}
    BY DEF ActivationInit
  <1>2. NoFiles \in [ValueIds -> 0..MaxRuns]
    BY ActivationAssumption DEF NoFiles
  <1>3. op \in Operation /\ op.pc = "idle"
    BY <1>1, <1>2 DEF NoOperation, Operation
  <1>4. Ledger(available) /\ CostOf(available) = 0 /\ Len(available) = 0
    BY <1>1, NothingIsFree
  <1>5. \A t : ~ListedIn(available, t) /\ ChargedIn(available, t) = 0
    BY <1>4 DEF ListedIn, ChargedIn
  <1>6. ActivationTypeOK
    <2>1. available \in Seq([key : Traces, cost : Nat])
      BY <1>4 DEF Ledger, ChargeType
    <2> QED
      BY <1>1, <1>3, <1>4, <2>1, ActivationAssumption DEF ActivationTypeOK
  <1>7. ReadsCurrent /\ OneRuntime /\ CommittedStays
    BY <1>1 DEF ReadsCurrent, OneRuntime, CommittedStays
  <1>8. StagedSound /\ AsideSound /\ DirectoriesSound /\ VictimSound
    BY <1>1, <1>3 DEF StagedSound, Committing, AsideSound, DirectoriesSound, VictimSound
  <1>9. ResultsSound /\ SlicesSound
    BY <1>1, <1>3 DEF ResultsSound, SlicesSound
  <1>10. AccountSound /\ ChargesSound
    BY <1>1, <1>4, <1>5 DEF AccountSound, ChargesSound
  <1>11. BudgetSound
    BY <1>1, ActivationAssumption DEF BudgetSound
  <1> QED
    BY <1>6, <1>7, <1>8, <1>9, <1>10, <1>11 DEF ActivationInv

LEMMA ActivationStepSound == ActivationInv /\ [ActivationNext]_activations => ActivationInv'
  <1> SUFFICES ASSUME ActivationInv, [ActivationNext]_activations PROVE ActivationInv'
    OBVIOUS
  <1>1. ActivationTypeOK' /\ ReadsCurrent' /\ OneRuntime' /\ CommittedStays'
    BY ActivationTypesStep, ReadsStep, OneRuntimeStep, CommittedStep
  <1>2. StagedSound' /\ AsideSound' /\ DirectoriesSound' /\ ResultsSound' /\ VictimSound'
    BY StagedStep, AsideStep, DirectoriesStep, ResultsStep, VictimStep
  <1>3. SlicesSound' /\ AccountSound' /\ ChargesSound' /\ BudgetSound'
    BY SlicesStep, AccountStep, ChargesStep, BudgetStep
  <1> QED
    BY <1>1, <1>2, <1>3 DEF ActivationInv

LEMMA ActivationInvariant == ActivationSpec => []ActivationInv
  <1>1. ActivationInit => ActivationInv
    BY ActivationInitSound
  <1>2. ActivationInv /\ [ActivationNext]_activations => ActivationInv'
    BY ActivationStepSound
  <1> QED
    BY <1>1, <1>2, PTL DEF ActivationSpec

\* RecordsHonest for all traces, values, runtimes, budgets and faults: commit(), eviction and
\* opening of tracing/store.py keep every manifest true to the files beside it, at every
\* moment at which the process may die, and read() never returns the bytes of another run.
THEOREM RecordsStayHonest == ActivationSpec => []RecordsHonest
  <1>1. ActivationInv => RecordsHonest
    <2> SUFFICES ASSUME ActivationInv PROVE HonestManifests
      BY DEF ActivationInv, RecordsHonest
    <2>1. ASSUME NEW t \in Traces \ astray, dir[t] # None, NEW v \in ValueIds
          PROVE  dir[t].files[v] = IF v \in Readable(dir[t].manifest)
                                   THEN dir[t].manifest.records[v].run ELSE 0
      BY <2>1 DEF ActivationInv, DirectoriesSound, Whole
    <2>2. ASSUME NEW t \in Traces \ astray, Reached("idle")
          PROVE  results[t] = ManifestOf(t)
      BY <2>2 DEF ActivationInv, ResultsSound, Between, ManifestOf, Reached
    <2> QED
      BY <2>1, <2>2 DEF HonestManifests
  <1> QED
    BY <1>1, ActivationInvariant, PTL

\* BytesCharged for all constants: between two operations the account of the store holds every
\* byte its manifests name, adds up, and keeps to the budget unless an eviction failed.
THEOREM BytesStayCharged == ActivationSpec => []BytesCharged
  <1>1. ActivationInv => BytesCharged
    <2> SUFFICES ASSUME ActivationInv, op.pc = "idle" PROVE BytesCharged
      BY DEF BytesCharged, Reached
    <2>1. ASSUME NEW t \in Traces \ astray
          PROVE  Charged(t) = OnDisk(t)
      <3>1. Charged(t) = IF results[t] = None THEN 0 ELSE Bytes(results[t])
        BY ListedAlike DEF ActivationInv, ChargesSound
      <3>2. dir[t] = None => results[t] = None
        BY DEF ActivationInv, ResultsSound, Between
      <3>3. dir[t] # None => results[t] = dir[t].manifest /\ dir[t].manifest # None
        BY NothingAssumption
        DEF ActivationInv, ResultsSound, Between, ActivationTypeOK, Directory
      <3> QED
        BY <3>1, <3>2, <3>3 DEF OnDisk
    <2>2. current = CostOf(available)
      BY DEF ActivationInv, AccountSound
    <2>3. astray = {} => current <= budget
      BY DEF ActivationInv, BudgetSound
    <2> QED
      BY <2>1, <2>2, <2>3 DEF BytesCharged
  <1> QED
    BY <1>1, ActivationInvariant, PTL

\* CommittedStays for all constants: what commit() has stored stays on disk through reruns,
\* evictions, failures and restarts, except where a replacement was cut short between its two
\* renames or its rollback failed.
THEOREM CommittedTracesStay == ActivationSpec => []CommittedStays
  <1>1. ActivationInv => CommittedStays
    BY DEF ActivationInv
  <1> QED
    BY <1>1, ActivationInvariant, PTL
=============================================================================
