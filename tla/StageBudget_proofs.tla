------------------------- MODULE StageBudget_proofs --------------------------
(***************************************************************************)
(* No stage spends more than its author agreed to, for any number of       *)
(* units, checkpoints, edits and calls, and any order of claims, answers,  *)
(* closings and authorizations.                                            *)
(***************************************************************************)
EXTENDS StageBudget, FiniteSetTheorems, SequenceTheorems, WellFoundedInduction, TLAPS

-----------------------------------------------------------------------------
(* Totals of finitely many charges.                                        *)

LEMMA AllNumbers ==
  ASSUME NEW T, 0 \in T, \A k \in Nat : k \in T => k + 1 \in T
  PROVE  Nat \subseteq T
<1> SUFFICES ASSUME NEW n \in Nat, n \notin T PROVE FALSE
    OBVIOUS
<1> DEFINE S == {k \in Nat : k \notin T}
<1>1. PICK x \in S : \A y \in S : <<y, x>> \notin OpToRel(<, Nat)
    BY NatLessThanWellFounded, WFMin
<1>2. \A y \in S : ~(y < x)
    BY <1>1 DEF OpToRel
<1>3. x # 0 /\ x - 1 \in Nat /\ x - 1 < x
    OBVIOUS
<1>4. x - 1 \in T
    BY <1>2, <1>3
<1> QED BY <1>3, <1>4

-----------------------------------------------------------------------------
(* Totals.                                                                 *)

SumBody(prices, f, k) == IF k = 0 THEN 0 ELSE f[k - 1] + prices[k]

LEMMA SumsExist ==
  ASSUME NEW prices, NEW n \in Nat
  PROVE  \E f : f = [k \in 0..n |-> SumBody(prices, f, k)]
<1> DEFINE T == {m \in Nat : \E f : f = [k \in 0..m |-> SumBody(prices, f, k)]}
<1>1. 0 \in T
  <2> DEFINE f == [k \in 0..0 |-> 0]
  <2>1. f = [k \in 0..0 |-> SumBody(prices, f, k)]
    BY DEF SumBody
  <2> HIDE DEF f
  <2> QED BY <2>1
<1>2. ASSUME NEW m \in Nat, m \in T PROVE m + 1 \in T
  <2>1. PICK f : f = [k \in 0..m |-> SumBody(prices, f, k)]
    BY <1>2
  <2> DEFINE g == [k \in 0..(m + 1) |-> IF k = m + 1 THEN f[m] + prices[m + 1] ELSE f[k]]
  <2>2. ASSUME NEW k \in 0..(m + 1) PROVE g[k] = SumBody(prices, g, k)
    <3>1. CASE k = m + 1
      <4>1. k # 0 /\ k - 1 = m /\ m \in 0..(m + 1) /\ m # m + 1
        BY <3>1
      <4>2. g[k - 1] = f[m] /\ g[k] = f[m] + prices[k]
        BY <3>1, <4>1
      <4> HIDE DEF g
      <4> QED BY <4>1, <4>2 DEF SumBody
    <3>2. CASE k # m + 1
      <4>1. k \in 0..m /\ g[k] = f[k]
        BY <3>2
      <4>2. k # 0 => k - 1 \in 0..(m + 1) /\ k - 1 # m + 1
        BY <3>2
      <4>3. k # 0 => g[k - 1] = f[k - 1]
        BY <4>2
      <4>4. f[k] = SumBody(prices, f, k)
        BY <2>1, <4>1
      <4> HIDE DEF g
      <4> QED BY <4>1, <4>3, <4>4 DEF SumBody
    <3> QED BY <3>1, <3>2
  <2>3. g = [k \in 0..(m + 1) |-> g[k]]
    OBVIOUS
  <2> HIDE DEF g
  <2>4. g = [k \in 0..(m + 1) |-> SumBody(prices, g, k)]
    BY <2>2, <2>3
  <2> QED BY <2>4
<1> HIDE DEF T
<1>3. Nat \subseteq T
    BY <1>1, <1>2, AllNumbers
<1> QED BY <1>3 DEF T

Sums(prices, f) ==
  /\ f[0] = 0 /\ \A k \in 1..Len(prices) : f[k] = f[k - 1] + prices[k]
  /\ \A k \in 0..Len(prices) : f[k] \in Nat
  /\ Total(prices) = f[Len(prices)]

LEMMA TotalIs ==
  ASSUME NEW prices \in Seq(Nat)
  PROVE  \E f : Sums(prices, f)
<1> DEFINE n == Len(prices)
<1> DEFINE f == CHOOSE f : f = [k \in 0..n |-> SumBody(prices, f, k)]
<1>0. n \in Nat /\ \A k \in 1..n : prices[k] \in Nat
    OBVIOUS
<1>1. f = [k \in 0..n |-> SumBody(prices, f, k)]
    BY <1>0, SumsExist
<1>2. Total(prices) = f[n]
    BY DEF Total, SumBody
<1> HIDE DEF f, n
<1>3. f[0] = 0 /\ \A k \in 1..n : f[k] = f[k - 1] + prices[k]
  <2>1. \A k \in 0..n : f[k] = SumBody(prices, f, k)
    BY <1>1
  <2> QED BY <1>0, <2>1 DEF SumBody
<1> DEFINE T == {k \in Nat : k <= n => f[k] \in Nat}
<1>4. 0 \in T
    BY <1>3
<1>5. ASSUME NEW k \in Nat, k \in T PROVE k + 1 \in T
  <2> SUFFICES ASSUME k + 1 <= n PROVE f[k + 1] \in Nat
    OBVIOUS
  <2>1. k + 1 \in 1..n /\ f[k] \in Nat /\ prices[k + 1] \in Nat
    BY <1>0, <1>5
  <2>2. f[k + 1] = f[k] + prices[k + 1]
    BY <1>3, <2>1
  <2> QED BY <2>1, <2>2
<1> HIDE DEF T
<1>6. Nat \subseteq T
    BY <1>4, <1>5, AllNumbers
<1>7. \A k \in 0..n : f[k] \in Nat
    BY <1>6, <1>0 DEF T
<1> QED BY <1>2, <1>3, <1>7 DEF Sums, n

LEMMA TotalNat ==
  ASSUME NEW prices \in Seq(Nat)
  PROVE  Total(prices) \in Nat
<1>1. PICK f : Sums(prices, f)
    BY TotalIs
<1> QED BY <1>1 DEF Sums

\* Two histories of the same length: the sum of their totals, and their order.
LEMMA TotalSum ==
  ASSUME NEW n \in Nat, NEW p \in [1..n -> Nat], NEW q \in [1..n -> Nat], NEW r \in [1..n -> Nat],
         \A k \in 1..n : r[k] <= p[k] + q[k]
  PROVE  Total(r) <= Total(p) + Total(q)
<1>1. p \in Seq(Nat) /\ q \in Seq(Nat) /\ r \in Seq(Nat) /\ Len(p) = n /\ Len(q) = n /\ Len(r) = n
    OBVIOUS
<1>2. PICK f : Sums(p, f)
    BY <1>1, TotalIs
<1>3. PICK g : Sums(q, g)
    BY <1>1, TotalIs
<1>4. PICK h : Sums(r, h)
    BY <1>1, TotalIs
<1> DEFINE T == {k \in Nat : k <= n => h[k] <= f[k] + g[k]}
<1>5. 0 \in T
    BY <1>1, <1>2, <1>3, <1>4 DEF Sums
<1>6. ASSUME NEW k \in Nat, k \in T PROVE k + 1 \in T
  <2> SUFFICES ASSUME k + 1 <= n PROVE h[k + 1] <= f[k + 1] + g[k + 1]
    OBVIOUS
  <2>1. k + 1 \in 1..n /\ k \in 0..n /\ (k + 1) - 1 = k /\ h[k] <= f[k] + g[k]
    BY <1>6
  <2>2. h[k + 1] = h[k] + r[k + 1] /\ f[k + 1] = f[k] + p[k + 1] /\ g[k + 1] = g[k] + q[k + 1]
    BY <1>1, <1>2, <1>3, <1>4, <2>1 DEF Sums
  <2>3. h[k] \in Nat /\ f[k] \in Nat /\ g[k] \in Nat
    BY <1>1, <1>2, <1>3, <1>4, <2>1 DEF Sums
  <2>4. r[k + 1] <= p[k + 1] + q[k + 1] /\ r[k + 1] \in Nat /\ p[k + 1] \in Nat /\ q[k + 1] \in Nat
    BY <2>1
  <2>5. h[k] + r[k + 1] <= (f[k] + p[k + 1]) + (g[k] + q[k + 1])
    <3>1. \A a, b, c, d, e, x \in Nat : a <= b + c /\ d <= e + x => a + d <= (b + e) + (c + x)
      OBVIOUS
    <3> QED BY <2>1, <2>3, <2>4, <3>1
  <2> QED BY <2>2, <2>5
<1> HIDE DEF T
<1>7. n \in T
    BY <1>5, <1>6, AllNumbers
<1>8. h[n] <= f[n] + g[n]
    BY <1>7 DEF T
<1> QED BY <1>1, <1>2, <1>3, <1>4, <1>8 DEF Sums

LEMMA TotalOf ==
  ASSUME NEW n \in Nat, NEW p \in [1..n -> Nat], NEW q \in [1..n -> Nat], NEW r \in [1..n -> Nat],
         \A k \in 1..n : r[k] >= p[k] + q[k]
  PROVE  Total(r) >= Total(p) + Total(q)
<1>1. p \in Seq(Nat) /\ q \in Seq(Nat) /\ r \in Seq(Nat) /\ Len(p) = n /\ Len(q) = n /\ Len(r) = n
    OBVIOUS
<1>2. PICK f : Sums(p, f)
    BY <1>1, TotalIs
<1>3. PICK g : Sums(q, g)
    BY <1>1, TotalIs
<1>4. PICK h : Sums(r, h)
    BY <1>1, TotalIs
<1> DEFINE T == {k \in Nat : k <= n => h[k] >= f[k] + g[k]}
<1>5. 0 \in T
    BY <1>1, <1>2, <1>3, <1>4 DEF Sums
<1>6. ASSUME NEW k \in Nat, k \in T PROVE k + 1 \in T
  <2> SUFFICES ASSUME k + 1 <= n PROVE h[k + 1] >= f[k + 1] + g[k + 1]
    OBVIOUS
  <2>1. k + 1 \in 1..n /\ k \in 0..n /\ (k + 1) - 1 = k /\ h[k] >= f[k] + g[k]
    BY <1>6
  <2>2. h[k + 1] = h[k] + r[k + 1] /\ f[k + 1] = f[k] + p[k + 1] /\ g[k + 1] = g[k] + q[k + 1]
    BY <1>1, <1>2, <1>3, <1>4, <2>1 DEF Sums
  <2>3. h[k] \in Nat /\ f[k] \in Nat /\ g[k] \in Nat
    BY <1>1, <1>2, <1>3, <1>4, <2>1 DEF Sums
  <2>4. r[k + 1] >= p[k + 1] + q[k + 1] /\ r[k + 1] \in Nat /\ p[k + 1] \in Nat /\ q[k + 1] \in Nat
    BY <2>1
  <2>5. h[k] + r[k + 1] >= (f[k] + p[k + 1]) + (g[k] + q[k + 1])
    <3>1. \A a, b, c, d, e, x \in Nat : a >= b + c /\ d >= e + x => a + d >= (b + e) + (c + x)
      OBVIOUS
    <3> QED BY <2>1, <2>3, <2>4, <3>1
  <2> QED BY <2>2, <2>5
<1> HIDE DEF T
<1>7. n \in T
    BY <1>5, <1>6, AllNumbers
<1>8. h[n] >= f[n] + g[n]
    BY <1>7 DEF T
<1> QED BY <1>1, <1>2, <1>3, <1>4, <1>8 DEF Sums

LEMMA TotalZero ==
  ASSUME NEW n \in Nat, NEW p \in [1..n -> Nat], \A k \in 1..n : p[k] = 0
  PROVE  Total(p) = 0
<1>1. p \in Seq(Nat)
    OBVIOUS
<1>2. Total(p) \in Nat
    BY <1>1, TotalNat
<1>3. \A k \in 1..n : p[k] >= p[k] + p[k]
    OBVIOUS
<1>4. Total(p) >= Total(p) + Total(p)
    BY <1>3, TotalOf
<1> QED BY <1>2, <1>4

LEMMA TotalAtMost ==
  ASSUME NEW n \in Nat, NEW p \in [1..n -> Nat], NEW q \in [1..n -> Nat],
         \A k \in 1..n : p[k] <= q[k]
  PROVE  Total(p) <= Total(q)
<1> DEFINE z == [k \in 1..n |-> 0]
<1>1. z \in [1..n -> Nat] /\ \A k \in 1..n : z[k] = 0
    OBVIOUS
<1> HIDE DEF z
<1>2. Total(z) = 0
    BY <1>1, TotalZero
<1>3. \A k \in 1..n : p[k] <= q[k] + z[k]
    BY <1>1
<1>4. Total(p) <= Total(q) + Total(z)
    BY <1>1, <1>3, TotalSum
<1>5. Total(q) \in Nat
  <2>1. q \in Seq(Nat)
    OBVIOUS
  <2> QED BY <2>1, TotalNat
<1> QED BY <1>2, <1>4, <1>5

LEMMA TotalMore ==
  ASSUME NEW prices \in Seq(Nat), NEW x \in Nat
  PROVE  Total(Append(prices, x)) = Total(prices) + x
<1> DEFINE n == Len(prices)
           longer == Append(prices, x)
<1>1. longer \in Seq(Nat) /\ Len(longer) = n + 1 /\ longer[n + 1] = x /\ n \in Nat
      /\ \A k \in 1..n : longer[k] = prices[k] /\ prices[k] \in Nat
    OBVIOUS
<1> HIDE DEF longer
<1>2. PICK f : Sums(prices, f)
    BY TotalIs
<1>3. PICK g : Sums(longer, g)
    BY <1>1, TotalIs
<1> HIDE DEF n
<1> DEFINE T == {k \in Nat : k <= n => g[k] = f[k]}
<1>4. 0 \in T
    BY <1>2, <1>3 DEF Sums
<1>5. ASSUME NEW k \in Nat, k \in T PROVE k + 1 \in T
  <2> SUFFICES ASSUME k + 1 <= n PROVE g[k + 1] = f[k + 1]
    OBVIOUS
  <2>1. k + 1 \in 1..n /\ k + 1 \in 1..(n + 1) /\ (k + 1) - 1 = k /\ g[k] = f[k]
    BY <1>1, <1>5
  <2>2. g[k + 1] = g[k] + longer[k + 1] /\ f[k + 1] = f[k] + prices[k + 1]
    BY <1>1, <1>2, <1>3, <2>1 DEF Sums, n
  <2> QED BY <1>1, <2>1, <2>2
<1> HIDE DEF T
<1>6. n \in T
    BY <1>1, <1>4, <1>5, AllNumbers
<1>7. g[n] = f[n]
    BY <1>1, <1>6 DEF T
<1>8. g[n + 1] = g[n] + x
  <2>1. n + 1 \in 1..(n + 1) /\ (n + 1) - 1 = n
    BY <1>1
  <2> QED BY <1>1, <1>3, <2>1 DEF Sums
<1> QED BY <1>1, <1>2, <1>3, <1>7, <1>8 DEF Sums, n, longer

-----------------------------------------------------------------------------
(* What a set of actions may cost.                                         *)

LEMMA Times ==
  ASSUME NEW l \in 1..2, NEW m \in 1..2, NEW n \in Nat, NEW k \in Nat
  PROVE  /\ l * n \in Nat /\ l * (n + 1) = l * n + l
         /\ l <= m /\ n <= k => l * n <= m * k
<1>1. (l = 1 \/ l = 2) /\ (m = 1 \/ m = 2)
    OBVIOUS
<1>2. 1 * n = n /\ 2 * n = n + n /\ 1 * (n + 1) = n + 1 /\ 2 * (n + 1) = n + n + 2
    OBVIOUS
<1>3. 1 * k = k /\ 2 * k = k + k
    OBVIOUS
<1>4. CASE l = 1 /\ m = 1
    BY <1>2, <1>3, <1>4
<1>5. CASE l = 1 /\ m = 2
    BY <1>2, <1>3, <1>5
<1>6. CASE l = 2 /\ m = 1
    BY <1>2, <1>3, <1>6
<1>7. CASE l = 2 /\ m = 2
    BY <1>2, <1>3, <1>7
<1> QED BY <1>1, <1>4, <1>5, <1>6, <1>7

Reports(S) == {a \in S : RoleFor(a) = "memory"}

LEMMA Counted ==
  ASSUME NEW S, IsFiniteSet(S)
  PROVE  /\ IsFiniteSet(Reports(S)) /\ IsFiniteSet(S \ Reports(S))
         /\ Cardinality(S) \in Nat /\ Cardinality(Reports(S)) \in Nat /\ Cardinality(S \ Reports(S)) \in Nat
<1>1. Reports(S) \subseteq S /\ S \ Reports(S) \subseteq S
    BY DEF Reports
<1>2. IsFiniteSet(Reports(S)) /\ IsFiniteSet(S \ Reports(S))
    BY <1>1, FS_Subset
<1> QED BY <1>2, FS_CardinalityType

LEMMA EstimateDef ==
  ASSUME NEW L, NEW S
  PROVE  EstimateCost(L, S) = L.input * Cardinality(S) + L.memory * Cardinality(Reports(S))
                                + L.others * Cardinality(S \ Reports(S))
BY DEF EstimateCost, Reports

LEMMA EstimateNat ==
  ASSUME NEW L \in Limits, NEW S, IsFiniteSet(S)
  PROVE  EstimateCost(L, S) \in Nat
<1>1. L.input \in 1..2 /\ L.memory \in 1..2 /\ L.others \in 1..2
    BY DEF Limits
<1>2. /\ Cardinality(S) \in Nat /\ Cardinality(Reports(S)) \in Nat /\ Cardinality(S \ Reports(S)) \in Nat
    BY Counted
<1>3. L.input * Cardinality(S) \in Nat
    BY <1>1, <1>2, Times
<1>4. L.memory * Cardinality(Reports(S)) \in Nat
    BY <1>1, <1>2, Times
<1>5. L.others * Cardinality(S \ Reports(S)) \in Nat
    BY <1>1, <1>2, Times
<1> QED BY <1>3, <1>4, <1>5, EstimateDef

LEMMA EstimateOne ==
  ASSUME NEW L \in Limits, NEW S, IsFiniteSet(S), NEW a, a \notin S
  PROVE  EstimateCost(L, S \cup {a}) = EstimateCost(L, S) + L.input + OutputOf(L, a)
<1> DEFINE T == S \cup {a}
           c == Cardinality(S)
           m == Cardinality(Reports(S))
           o == Cardinality(S \ Reports(S))
<1>1. L.input \in 1..2 /\ L.memory \in 1..2 /\ L.others \in 1..2
    BY DEF Limits
<1>2. /\ c \in Nat /\ m \in Nat /\ o \in Nat
      /\ IsFiniteSet(Reports(S)) /\ IsFiniteSet(S \ Reports(S))
    BY Counted
<1>3. Cardinality(T) = c + 1
    BY FS_AddElement
<1>4. L.input * (c + 1) = L.input * c + L.input /\ L.input * c \in Nat
    BY <1>1, <1>2, Times
<1>5. L.memory * (m + 1) = L.memory * m + L.memory /\ L.memory * m \in Nat
    BY <1>1, <1>2, Times
<1>6. L.others * (o + 1) = L.others * o + L.others /\ L.others * o \in Nat
    BY <1>1, <1>2, Times
<1>7. EstimateCost(L, S) = L.input * c + L.memory * m + L.others * o
    BY EstimateDef
<1>8. CASE RoleFor(a) = "memory"
  <2>1. Reports(T) = Reports(S) \cup {a} /\ a \notin Reports(S) /\ T \ Reports(T) = S \ Reports(S)
    BY <1>8 DEF Reports
  <2>2. Cardinality(Reports(T)) = m + 1
    BY <1>2, <2>1, FS_AddElement
  <2>3. EstimateCost(L, T) = L.input * (c + 1) + L.memory * (m + 1) + L.others * o
    BY <1>3, <2>1, <2>2, EstimateDef
  <2>4. OutputOf(L, a) = L.memory
    BY <1>8 DEF OutputOf
  <2> HIDE DEF T, c, m, o
  <2> QED BY <1>1, <1>4, <1>5, <1>6, <1>7, <2>3, <2>4 DEF T
<1>9. CASE RoleFor(a) # "memory"
  <2>1. Reports(T) = Reports(S) /\ a \notin S \ Reports(S) /\ T \ Reports(T) = (S \ Reports(S)) \cup {a}
    BY <1>9 DEF Reports
  <2>2. Cardinality(T \ Reports(T)) = o + 1
    BY <1>2, <2>1, FS_AddElement
  <2>3. EstimateCost(L, T) = L.input * (c + 1) + L.memory * m + L.others * (o + 1)
    BY <1>3, <2>1, <2>2, EstimateDef
  <2>4. OutputOf(L, a) = L.others
    BY <1>9 DEF OutputOf
  <2> HIDE DEF T, c, m, o
  <2> QED BY <1>1, <1>4, <1>5, <1>6, <1>7, <2>3, <2>4 DEF T
<1> QED BY <1>8, <1>9

NoMore(L, M) == L.input <= M.input /\ L.memory <= M.memory /\ L.others <= M.others

LEMMA EstimateMore ==
  ASSUME NEW L \in Limits, NEW M \in Limits, NoMore(L, M),
         NEW T, IsFiniteSet(T), NEW S \in SUBSET T
  PROVE  EstimateCost(L, S) <= EstimateCost(M, T)
<1>1. /\ L.input \in 1..2 /\ L.memory \in 1..2 /\ L.others \in 1..2
      /\ M.input \in 1..2 /\ M.memory \in 1..2 /\ M.others \in 1..2
    BY DEF Limits
<1>2. IsFiniteSet(S) /\ Cardinality(S) <= Cardinality(T)
    BY FS_Subset
<1>3. /\ Cardinality(S) \in Nat /\ Cardinality(Reports(S)) \in Nat /\ Cardinality(S \ Reports(S)) \in Nat
    BY <1>2, Counted
<1>4. /\ Cardinality(T) \in Nat /\ Cardinality(Reports(T)) \in Nat /\ Cardinality(T \ Reports(T)) \in Nat
      /\ IsFiniteSet(Reports(T)) /\ IsFiniteSet(T \ Reports(T))
    BY Counted
<1>5. Reports(S) \in SUBSET Reports(T) /\ S \ Reports(S) \in SUBSET (T \ Reports(T))
    BY DEF Reports
<1>6. Cardinality(Reports(S)) <= Cardinality(Reports(T)) /\ Cardinality(S \ Reports(S)) <= Cardinality(T \ Reports(T))
    BY <1>4, <1>5, FS_Subset
<1>7. L.input * Cardinality(S) <= M.input * Cardinality(T)
      /\ L.input * Cardinality(S) \in Nat /\ M.input * Cardinality(T) \in Nat
    BY <1>1, <1>2, <1>3, <1>4, Times DEF NoMore
<1>8. L.memory * Cardinality(Reports(S)) <= M.memory * Cardinality(Reports(T))
      /\ L.memory * Cardinality(Reports(S)) \in Nat /\ M.memory * Cardinality(Reports(T)) \in Nat
    BY <1>1, <1>3, <1>4, <1>6, Times DEF NoMore
<1>9. L.others * Cardinality(S \ Reports(S)) <= M.others * Cardinality(T \ Reports(T))
      /\ L.others * Cardinality(S \ Reports(S)) \in Nat /\ M.others * Cardinality(T \ Reports(T)) \in Nat
    BY <1>1, <1>3, <1>4, <1>6, Times DEF NoMore
<1>10. \A a, b, c, d, e, x \in Nat : a <= d /\ b <= e /\ c <= x => a + b + c <= d + e + x
    OBVIOUS
<1>11. L.input * Cardinality(S) + L.memory * Cardinality(Reports(S)) + L.others * Cardinality(S \ Reports(S))
         <= M.input * Cardinality(T) + M.memory * Cardinality(Reports(T)) + M.others * Cardinality(T \ Reports(T))
    BY <1>7, <1>8, <1>9, <1>10
<1> QED BY <1>11, EstimateDef

-----------------------------------------------------------------------------
(* Rows.                                                                   *)

Named == {"plan", "write", "memory", "chief", "checker", "reader", "reader_early"}
StageActions == Named \X Nat
Actions == StageActions \cup AmendmentActions

Progress ==
    [plan : Nat, planned : Nat, written : Nat, handed : Nat, text : Nat, partial : BOOLEAN,
     complete : BOOLEAN, chapter : BOOLEAN, early : BOOLEAN, compared : SUBSET Nat,
     comparedEarly : BOOLEAN, asked : BOOLEAN, held : BOOLEAN,
     input : Nat, memory : 0..1, amendment : 0..2, others : Nat]

Over == {"local_failure", "exhausted", "outcome_uncertain", "uncertain_closed", "failed",
         "not_dispatched"}

Calls ==
    [action : Actions, slot : Nat, status : Over \cup {"executing", "completed"}, cost : Int, input : 1..2, output : 1..2,
     amending : BOOLEAN, replaces : Nat, by : {"slot", "memory", "step"}]

InputGrants == [limits : Limits, max : Nat]
ReportGrants ==
    [action : Actions, amending : BOOLEAN, failed : Nat, slot : Nat, limits : Limits, max : Nat,
     previousMax : Nat, previousInput : 1..2, bindings : Nat \X Nat \X Nat \X Nat \X Nat \X Nat]
StepGrants ==
    [action : Actions, amending : BOOLEAN, failed : Nat, slot : Nat, restore : Progress, max : Nat]
AmendmentGrants == [slots : Seq(Actions), limits : Limits, max : Nat, text : Nat]

BudgetRows ==
    /\ design \in Designs
    /\ standing = Stage(standing.status, standing.next, standing.authorized)
    /\ progress \in Progress
    /\ sent \in Seq(Calls)
    /\ grants = [input |-> grants.input, memory |-> grants.memory, step |-> grants.step,
                 amendment |-> grants.amendment]
    /\ grants.input # <<>> => grants.input[1] \in InputGrants
    /\ grants.memory # <<>> => grants.memory[1] \in ReportGrants
    /\ grants.step # <<>> => grants.step[1] \in StepGrants
    /\ grants.amendment # <<>> => grants.amendment[1] \in AmendmentGrants
    /\ sent # <<>> /\ LastCall.status # "completed" => resume \in [before : Progress, after : Progress]

-----------------------------------------------------------------------------
(* The slots of a stage and of its amendment.                              *)

SlotsIn(amending) == IF amending THEN grants.amendment[1].slots ELSE SlotsFor(design)

SlotFor(a, amending) == PlaceOf(SlotsIn(amending), a) - 1 + (IF amending THEN 100 ELSE 0)

AmendmentFits ==
    grants.amendment # <<>> =>
        LET g == grants.amendment[1]
        IN  /\ \A i, j \in DOMAIN g.slots : g.slots[i] = g.slots[j] => i = j
            /\ g.slots # <<>>
            /\ ToSet(g.slots) \subseteq AmendmentActions
            /\ Only("memory_amend") \in ToSet(g.slots)
            /\ Only("amend") \in ToSet(g.slots)
                 => PlaceOf(g.slots, Only("memory_amend")) = PlaceOf(g.slots, Only("amend")) + 1
            /\ g.max = EstimateCost(g.limits, ToSet(g.slots))

(* Which authorizations were given is part of the progress.                *)
GrantsGiven ==
    /\ grants.memory # <<>> <=> progress.memory = 1
    /\ grants.amendment # <<>> <=> progress.amendment # 0
    /\ grants.memory # <<>> /\ grants.memory[1].amending => Amended
    /\ grants.step # <<>> /\ grants.step[1].amending => Amended

-----------------------------------------------------------------------------
(* The history of the calls: an action is sent in its slot once; a repeat  *)
(* follows the failed call it replaces.                                    *)

History ==
    \A i \in DOMAIN sent :
        LET c == sent[i]
        IN  /\ c.cost \in {Unpriced, MostOf(c)}
            /\ c.status \in Over \cup {"executing", "completed"}
            /\ c.status = "executing" => i = Len(sent) /\ Running /\ c.cost = Unpriced
            /\ c.amending <=> c.action \in AmendmentActions
            /\ c.amending => Amended
            /\ c.action \in ToSet(SlotsIn(c.amending))
            /\ c.by = "slot" => c.replaces = 0 /\ c.slot = SlotFor(c.action, c.amending)
            /\ c.by # "slot" => /\ i > 1 /\ c.replaces = i - 1
                                /\ sent[i - 1].action = c.action
            /\ \E j \in 1..i : sent[j].by = "slot" /\ sent[j].action = c.action
            /\ \A j \in DOMAIN sent : i < j /\ sent[j].action = c.action => c.status \in Over

InFlight ==
    Running => /\ sent # <<>> /\ LastCall.status = "executing"
               /\ LastCall.amending = Amended
               /\ progress = resume.before

(* How far the plan and the authorizations have come: only the replay of a *)
(* step takes this back.                                                   *)
Mark(w) == w.plan + w.memory + w.amendment

ResumeFits ==
    sent # <<>> /\ LastCall.status # "completed" =>
        /\ resume.before.plan = resume.after.plan
        /\ resume.before.memory = resume.after.memory
        /\ resume.before.amendment = resume.after.amendment
        /\ progress.memory = 0 => resume.after.memory = 0

-----------------------------------------------------------------------------
(* A repeat that was authorized can be claimed only while the call it      *)
(* replaces is the last one.                                               *)

StepStands ==
    grants.step # <<>> =>
        LET g == grants.step[1]
        IN  /\ g.failed \in DOMAIN sent /\ sent[g.failed].status \in Over
            /\ sent[g.failed].action = g.action /\ sent[g.failed].amending = g.amending
            /\ g.failed = Len(sent) => g.restore = resume.before
            /\ ~Taken(g.slot) =>
                 /\ Mark(progress) >= Mark(g.restore)
                 /\ g.failed # Len(sent) \/ g.amending # Amended \/ standing.next \notin {g.action, NoStep}
                      => Mark(progress) > Mark(g.restore)
                 /\ g.failed # Len(sent) /\ LastCall.status # "completed"
                      => Mark(resume.before) > Mark(g.restore)

ByReport ==
    \A i \in DOMAIN sent : sent[i].by = "memory" =>
        grants.memory # <<>> /\ sent[i].replaces = grants.memory[1].failed

Course(w)  == w.plan + w.amendment
BoundAt(b) == b[1] + b[5]

ReportStands ==
    grants.memory # <<>> =>
        LET g == grants.memory[1]
        IN  /\ g.failed \in DOMAIN sent /\ sent[g.failed].status \in Over
            /\ sent[g.failed].action = g.action /\ sent[g.failed].amending = g.amending
            /\ RoleFor(g.action) = "memory"
            /\ g.failed = Len(sent) => resume.after.memory = 0
            /\ ~Taken(g.slot) =>
                 /\ Course(progress) >= BoundAt(g.bindings)
                 /\ g.failed # Len(sent) \/ g.amending # Amended \/ standing.next \notin {g.action, NoStep}
                      => Course(progress) > BoundAt(g.bindings)
                 /\ g.failed # Len(sent) /\ LastCall.status # "completed"
                      => Course(resume.before) > BoundAt(g.bindings)

-----------------------------------------------------------------------------
(* The steps of an amendment are sent in the order they are listed, or a   *)
(* failure was passed over for good.                                       *)

Earlier(a) == {SlotsIn(TRUE)[j] : j \in 1..(PlaceOf(SlotsIn(TRUE), a) - 1)}

PassedOver ==
    \E k \in 1..(Len(sent) - 1) : sent[k].amending /\ sent[k].status \in Over /\ sent[k + 1].by = "slot"

InOrder ==
    Amended /\ ~PassedOver =>
        /\ \A i \in DOMAIN sent : sent[i].amending => Earlier(sent[i].action) \subseteq UsedActions(AllCalls)
        /\ standing.next \in ToSet(SlotsIn(TRUE)) =>
             \/ Earlier(standing.next) \subseteq UsedActions(AllCalls)
             \/ sent # <<>> /\ LastCall.status \in Over /\ LastCall.amending
                /\ standing.next # LastCall.action

-----------------------------------------------------------------------------
(* What was agreed to covers what was charged, what the remaining slots    *)
(* may cost and what an authorized repeat may cost.                        *)

InputsFit == \A i \in DOMAIN sent : sent[i].amending = Amended => sent[i].input <= SpecInForce.limits.input

Left == ToSet(ActiveSlots) \ UsedActions(ScopedCalls)

ReportOpen ==
    /\ grants.memory # <<>> /\ grants.memory[1].amending = Amended
    /\ ~Taken(grants.memory[1].slot) /\ grants.memory[1].failed = Len(sent)

StepOpen ==
    /\ grants.step # <<>> /\ grants.step[1].amending = Amended
    /\ ~Taken(grants.step[1].slot) /\ grants.step[1].failed = Len(sent)
    /\ Mark(progress) = Mark(grants.step[1].restore)
    /\ ~Amended => \A j \in 1..PlaceOf(ActiveSlots, grants.step[1].action) :
                      ActiveSlots[j] \in UsedActions(AllCalls)

OpenReport == IF ReportOpen THEN SpecInForce.limits.input + SpecInForce.limits.memory ELSE 0
OpenStep   == IF StepOpen THEN MostOf(LastCall) ELSE 0

Headroom ==
    SpecInForce.ok /\ ~ReplayedEarly =>
        Exposure + EstimateCost(SpecInForce.limits, Left) + OpenReport + OpenStep <= SpecInForce.max

\* The inductive invariant: only its last conjunct is about amounts, the others say which
\* calls and which authorized repeats those amounts are for.
BudgetInv ==
    /\ BudgetRows /\ AmendmentFits /\ GrantsGiven /\ History /\ InFlight /\ ResumeFits
    /\ StepStands /\ ReportStands /\ ByReport /\ InOrder /\ InputsFit /\ Headroom

-----------------------------------------------------------------------------
(* Slots.                                                                  *)

LEMMA StageSlots ==
  ASSUME NEW d \in Designs
  PROVE  SlotsFor(d) \in Seq(StageActions)
<1> USE DesignAssumption
<1>1. d.units \in Nat /\ d.units # 0
    OBVIOUS
<1>2. Only("plan") \in StageActions /\ Only("reader_early") \in StageActions
      /\ Only("checker") \in StageActions /\ Only("reader") \in StageActions
      /\ <<"chief", 1>> \in StageActions /\ <<"chief", 2>> \in StageActions
    BY DEF Only, StageActions, Named
<1>3. << Only("plan") >> \in Seq(StageActions)
    BY <1>2
<1>4. UnitSlots(d.units) \in Seq(StageActions)
  <2>1. 2 * d.units \in Nat
    BY <1>1
  <2>2. ASSUME NEW i \in 1..(2 * d.units)
        PROVE  (IF i % 2 = 1 THEN <<"write", (i + 1) \div 2>> ELSE <<"memory", i \div 2>>) \in StageActions
    <3>1. i \in Nat /\ (i + 1) \div 2 \in Nat /\ i \div 2 \in Nat
      BY <2>1
    <3> QED BY <3>1 DEF StageActions, Named
  <2> DEFINE m == 2 * d.units
             u == [i \in 1..m |-> IF i % 2 = 1 THEN <<"write", (i + 1) \div 2>> ELSE <<"memory", i \div 2>>]
  <2>3. u \in [1..m -> StageActions]
    BY <2>2
  <2>4. u = UnitSlots(d.units)
    BY DEF UnitSlots
  <2> HIDE DEF m, u
  <2>5. u \in Seq(StageActions)
    BY <2>1, <2>3 DEF m
  <2> QED BY <2>4, <2>5
<1>5. Checkpoints(d) \in Seq(StageActions)
  <2>1. <<>> \in Seq(StageActions) /\ << <<"chief", 1>> >> \in Seq(StageActions)
        /\ << Only("reader_early"), <<"chief", 1>>, <<"chief", 2>> >> \in Seq(StageActions)
    BY <1>2
  <2> QED BY <2>1 DEF Checkpoints
<1>6. Wanted(d, "checker") \in Seq(StageActions) /\ Wanted(d, "reader") \in Seq(StageActions)
    BY <1>2 DEF Wanted
<1>7. \A s, t \in Seq(StageActions) : s \o t \in Seq(StageActions)
    OBVIOUS
<1>8. << Only("plan") >> \o UnitSlots(d.units) \in Seq(StageActions)
    BY <1>3, <1>4, <1>7
<1>9. << Only("plan") >> \o UnitSlots(d.units) \o Checkpoints(d) \in Seq(StageActions)
    BY <1>5, <1>7, <1>8
<1>10. << Only("plan") >> \o UnitSlots(d.units) \o Checkpoints(d) \o Wanted(d, "checker") \in Seq(StageActions)
    BY <1>6, <1>7, <1>9
<1> QED BY <1>6, <1>7, <1>10 DEF SlotsFor

LEMMA NotAmending == StageActions \cap AmendmentActions = {}
BY DEF StageActions, Named, AmendmentActions, Only

LEMMA StageIsActions == StageActions \subseteq Actions /\ AmendmentActions \subseteq Actions
BY DEF Actions

LEMMA FiniteRange ==
  ASSUME NEW X, NEW s \in Seq(X)
  PROVE  IsFiniteSet(ToSet(s)) /\ ToSet(s) \subseteq X
<1>1. DOMAIN s = 1..Len(s) /\ Len(s) \in Nat
    OBVIOUS
<1>2. 1 \in Int /\ Len(s) \in Int
    BY <1>1
<1>3. IsFiniteSet(1..Len(s))
    BY <1>2, FS_Interval
<1> DEFINE T == {s[i] : i \in 1..Len(s)}
<1>4. IsFiniteSet(T)
  <2> DEFINE f == [i \in 1..Len(s) |-> s[i]]
  <2>1. f \in Surjection(1..Len(s), T)
    BY DEF Surjection
  <2> QED BY <1>3, <2>1, FS_Surjection
<1>5. ToSet(s) = T
    BY <1>1 DEF ToSet
<1> QED BY <1>1, <1>4, <1>5

\* Where an action stands in a list that names it.
LEMMA PlaceIs ==
  ASSUME NEW X, NEW s \in Seq(X), NEW a \in ToSet(s)
  PROVE  PlaceOf(s, a) \in 1..Len(s) /\ s[PlaceOf(s, a)] = a
<1>1. \E i \in DOMAIN s : s[i] = a
    BY DEF ToSet
<1>2. DOMAIN s = 1..Len(s)
    OBVIOUS
<1> QED BY <1>1, <1>2 DEF PlaceOf

LEMMA OnePlace ==
  ASSUME NEW X, NEW s \in Seq(X), \A i, j \in DOMAIN s : s[i] = s[j] => i = j, NEW i \in 1..Len(s)
  PROVE  PlaceOf(s, s[i]) = i /\ s[i] \in ToSet(s)
<1>1. DOMAIN s = 1..Len(s)
    OBVIOUS
<1>2. s[i] \in ToSet(s)
    BY <1>1 DEF ToSet
<1>3. PlaceOf(s, s[i]) \in 1..Len(s) /\ s[PlaceOf(s, s[i])] = s[i]
    BY <1>2, PlaceIs
<1> QED BY <1>1, <1>2, <1>3

-----------------------------------------------------------------------------
(* The slots of an amendment.                                              *)

Listed(e, c, r) == e \o << Only("memory_amend") >> \o c \o r

FitSlots(s) ==
    /\ s \in Seq(Actions)
    /\ \A i, j \in DOMAIN s : s[i] = s[j] => i = j
    /\ s # <<>>
    /\ ToSet(s) \subseteq AmendmentActions
    /\ Only("memory_amend") \in ToSet(s)
    /\ Only("amend") \in ToSet(s)
         => PlaceOf(s, Only("memory_amend")) = PlaceOf(s, Only("amend")) + 1

LEMMA Joined ==
  ASSUME NEW X, NEW s \in Seq(X), NEW t \in Seq(X)
  PROVE  /\ s \o t \in Seq(X) /\ Len(s \o t) = Len(s) + Len(t)
         /\ \A i \in 1..Len(s) : (s \o t)[i] = s[i]
         /\ \A i \in 1..Len(t) : (s \o t)[Len(s) + i] = t[i]
OBVIOUS

LEMMA ListedFits ==
  ASSUME NEW e \in {<<>>, << Only("amend") >>}, NEW c \in {<<>>, << Only("checker_amend") >>},
         NEW r \in {<<>>, << Only("reader_amend") >>}
  PROVE  FitSlots(Listed(e, c, r))
<1> DEFINE A == Only("amend")
           M == Only("memory_amend")
           C == Only("checker_amend")
           R == Only("reader_amend")
           p == e \o << M >>
           q == p \o c
           s == q \o r
<1>1. A # M /\ A # C /\ A # R /\ M # C /\ M # R /\ C # R
      /\ A \in Actions /\ M \in Actions /\ C \in Actions /\ R \in Actions
      /\ AmendmentActions = {A, M, C, R}
    BY DEF Only, Actions, AmendmentActions
<1> HIDE DEF A, M, C, R
<1>0. ASSUME NEW a \in Actions, NEW x \in {<<>>, << a >>}
      PROVE  x \in Seq(Actions) /\ Len(x) \in 0..1 /\ \A i \in 1..Len(x) : x[i] = a
  <2>1. << a >> \in Seq(Actions) /\ Len(<< a >>) = 1 /\ \A i \in 1..Len(<< a >>) : << a >>[i] = a
    OBVIOUS
  <2>2. CASE x = << a >>
    BY <2>1, <2>2
  <2>3. CASE x = <<>>
    BY <2>3
  <2> QED BY <2>2, <2>3
<1>2. /\ e \in Seq(Actions) /\ Len(e) \in 0..1 /\ \A i \in 1..Len(e) : e[i] = A
      /\ << M >> \in Seq(Actions) /\ Len(<< M >>) = 1 /\ << M >>[1] = M
      /\ c \in Seq(Actions) /\ Len(c) \in 0..1 /\ \A i \in 1..Len(c) : c[i] = C
      /\ r \in Seq(Actions) /\ Len(r) \in 0..1 /\ \A i \in 1..Len(r) : r[i] = R
  <2>1. e \in {<<>>, << A >>} /\ c \in {<<>>, << C >>} /\ r \in {<<>>, << R >>}
    BY DEF A, C, R
  <2>2. << M >> \in Seq(Actions) /\ Len(<< M >>) = 1 /\ << M >>[1] = M
    BY <1>1
  <2>3. e \in Seq(Actions) /\ Len(e) \in 0..1 /\ \A i \in 1..Len(e) : e[i] = A
    BY <1>0, <1>1, <2>1
  <2>4. c \in Seq(Actions) /\ Len(c) \in 0..1 /\ \A i \in 1..Len(c) : c[i] = C
    BY <1>0, <1>1, <2>1
  <2>5. r \in Seq(Actions) /\ Len(r) \in 0..1 /\ \A i \in 1..Len(r) : r[i] = R
    BY <1>0, <1>1, <2>1
  <2> QED BY <2>2, <2>3, <2>4, <2>5
<1>3. /\ p \in Seq(Actions) /\ Len(p) = Len(e) + 1
      /\ \A i \in 1..Len(e) : p[i] = e[i]
      /\ p[Len(e) + 1] = M
  <2>0. e \in Seq(Actions) /\ << M >> \in Seq(Actions)
    BY <1>2
  <2>1. /\ p \in Seq(Actions) /\ Len(p) = Len(e) + Len(<< M >>)
        /\ \A i \in 1..Len(e) : p[i] = e[i]
        /\ \A i \in 1..Len(<< M >>) : p[Len(e) + i] = << M >>[i]
    BY <2>0, Joined
  <2>2. 1 \in 1..Len(<< M >>)
    BY <1>2
  <2> QED BY <1>2, <2>1, <2>2
<1> HIDE DEF p
<1>4. /\ q \in Seq(Actions) /\ Len(q) = Len(p) + Len(c)
      /\ \A i \in 1..Len(p) : q[i] = p[i]
      /\ \A i \in 1..Len(c) : q[Len(p) + i] = c[i]
  <2>1. p \in Seq(Actions) /\ c \in Seq(Actions)
    BY <1>2, <1>3
  <2> QED BY <2>1, Joined
<1> HIDE DEF q
<1>5. /\ s \in Seq(Actions) /\ Len(s) = Len(q) + Len(r)
      /\ \A i \in 1..Len(q) : s[i] = q[i]
      /\ \A i \in 1..Len(r) : s[Len(q) + i] = r[i]
  <2>1. q \in Seq(Actions) /\ r \in Seq(Actions)
    BY <1>2, <1>4
  <2> QED BY <2>1, Joined
<1>6. Listed(e, c, r) = s
    BY DEF Listed, p, q, M
<1> HIDE DEF s
<1> DEFINE n == Len(e)
           k == Len(c)
<1>7. n \in 0..1 /\ k \in 0..1 /\ Len(r) \in 0..1 /\ Len(s) = n + 1 + k + Len(r) /\ DOMAIN s = 1..Len(s)
    BY <1>2, <1>3, <1>4, <1>5
<1>8. \A i \in 1..Len(s) : /\ i <= n => s[i] = A
                           /\ i = n + 1 => s[i] = M
                           /\ i > n + 1 /\ i <= n + 1 + k => s[i] = C
                           /\ i > n + 1 + k => s[i] = R
  <2> TAKE i \in 1..Len(s)
  <2>1. ASSUME i <= n PROVE s[i] = A
    <3>1. i \in 1..Len(e) /\ i \in 1..Len(p) /\ i \in 1..Len(q)
      BY <1>2, <1>3, <1>4, <1>7, <2>1
    <3>2. p[i] = e[i] /\ q[i] = p[i] /\ s[i] = q[i] /\ e[i] = A
      BY <1>2, <1>3, <1>4, <1>5, <3>1
    <3> QED BY <3>2
  <2>2. ASSUME i = n + 1 PROVE s[i] = M
    <3>1. i \in 1..Len(p) /\ i \in 1..Len(q) /\ i = Len(e) + 1
      BY <1>2, <1>3, <1>4, <1>7, <2>2
    <3>2. p[i] = M /\ q[i] = p[i] /\ s[i] = q[i]
      BY <1>3, <1>4, <1>5, <3>1
    <3> QED BY <3>2
  <2>3. ASSUME i > n + 1, i <= n + 1 + k PROVE s[i] = C
    <3>1. i \in 1..Len(q) /\ i - Len(p) \in 1..Len(c) /\ i = Len(p) + (i - Len(p))
      BY <1>2, <1>3, <1>4, <1>7, <2>3
    <3> QED BY <1>2, <1>4, <1>5, <3>1
  <2>4. ASSUME i > n + 1 + k PROVE s[i] = R
    <3>1. i - Len(q) \in 1..Len(r) /\ i = Len(q) + (i - Len(q))
      BY <1>2, <1>3, <1>4, <1>5, <1>7, <2>4
    <3> QED BY <1>2, <1>5, <3>1
  <2> QED BY <1>7, <2>1, <2>2, <2>3, <2>4
<1> HIDE DEF n, k
<1>16. \A i \in 1..Len(s) : \/ s[i] = A /\ i = 1
                            \/ s[i] = M /\ i = n + 1
                            \/ s[i] = C /\ i = n + 2
                            \/ s[i] = R /\ i = n + 2 + k
  <2> TAKE i \in 1..Len(s)
  <2>1. i \in Nat /\ i >= 1 /\ i <= n + 1 + k + Len(r)
    BY <1>7
  <2>2. CASE i <= n
    BY <1>7, <1>8, <2>1, <2>2
  <2>3. CASE i = n + 1
    BY <1>7, <1>8, <2>1, <2>3
  <2>4. CASE i > n + 1 /\ i <= n + 1 + k
    <3>1. i = n + 2
      BY <1>7, <2>1, <2>4
    <3> QED BY <1>8, <2>4, <3>1
  <2>5. CASE i > n + 1 + k
    <3>1. i = n + 2 + k
      <4> DEFINE t == Len(r)
      <4>1. n \in 0..1 /\ k \in 0..1 /\ t \in 0..1 /\ i \in Nat /\ i <= n + 1 + k + t /\ i > n + 1 + k
        BY <1>7, <2>1, <2>5
      <4> HIDE DEF t
      <4> QED BY <4>1
    <3> QED BY <1>8, <2>5, <3>1
  <2> QED BY <1>7, <2>1, <2>2, <2>3, <2>4, <2>5
<1>9. \A i, j \in DOMAIN s : s[i] = s[j] => i = j
    BY <1>1, <1>7, <1>16
<1>10. s # <<>> /\ n + 1 \in 1..Len(s)
    BY <1>7
<1>11. \A i \in 1..Len(s) : s[i] \in AmendmentActions
    BY <1>1, <1>16
<1>12. ToSet(s) \subseteq AmendmentActions
    BY <1>7, <1>11 DEF ToSet
<1>13. s[n + 1] = M
    BY <1>8, <1>10
<1>14. PlaceOf(s, M) = n + 1 /\ M \in ToSet(s)
    BY <1>5, <1>9, <1>10, <1>13, OnePlace
<1>15. ASSUME A \in ToSet(s) PROVE PlaceOf(s, M) = PlaceOf(s, A) + 1
  <2>1. PICK i \in 1..Len(s) : s[i] = A
    BY <1>7, <1>15 DEF ToSet
  <2>2. i = 1 /\ n = 1
    <3>1. i = 1
    BY <1>1, <1>16, <2>1
  <3>2. n # 0
    BY <1>1, <1>8, <2>1, <3>1
  <3> QED BY <1>7, <3>1, <3>2
  <2>3. PlaceOf(s, A) = 1
    BY <1>5, <1>9, <2>1, <2>2, OnePlace
  <2> QED BY <1>14, <2>2, <2>3
<1> QED BY <1>5, <1>6, <1>9, <1>10, <1>12, <1>14, <1>15 DEF FitSlots, A, M

-----------------------------------------------------------------------------
(* The limits and the budget in force.                                     *)

Specs == [limits : Limits, ok : BOOLEAN, max : Nat]

Agreed  == AmendmentSpec(EffectiveSpec)
Widened == MemorySpec(Agreed)

ReportInScope == grants.memory # <<>> /\ grants.memory[1].amending = Amended
StepInScope   == grants.step # <<>> /\ grants.step[1].amending = Amended

LEMMA SmallLimits ==
  /\ WithLimits(1, 1) \in Limits /\ WithLimits(2, 2) \in Limits
  /\ WithLimits(2, 2) = [input |-> 2, memory |-> 2, others |-> 2]
  /\ WithLimits(1, 1) = [input |-> 1, memory |-> 1, others |-> 1]
BY DEF WithLimits, Limits

ActiveFacts ==
    /\ ActiveSlots \in Seq(Actions) /\ IsFiniteSet(ToSet(ActiveSlots))
    /\ ~Amended => ToSet(ActiveSlots) \subseteq StageActions
    /\ Amended => ToSet(ActiveSlots) \subseteq AmendmentActions /\ grants.amendment # <<>>
    /\ SlotsIn(Amended) = ActiveSlots /\ Amended \in BOOLEAN

LEMMA ActiveTyped == BudgetRows /\ GrantsGiven /\ AmendmentFits => ActiveFacts
<1> SUFFICES ASSUME BudgetRows, GrantsGiven, AmendmentFits PROVE ActiveFacts
    OBVIOUS
<1> USE DEF ActiveFacts
<1>1. Amended \in BOOLEAN /\ SlotsIn(Amended) = ActiveSlots
    BY DEF Amended, SlotsIn, ActiveSlots
<1>2. CASE ~Amended
  <2>1. ActiveSlots \in Seq(StageActions)
    BY <1>2, StageSlots DEF ActiveSlots, BudgetRows
  <2>2. ActiveSlots \in Seq(Actions)
    BY <2>1 DEF Actions
  <2> QED BY <1>1, <1>2, <2>1, <2>2, FiniteRange
<1>3. CASE Amended
  <2>1. grants.amendment # <<>>
    BY <1>3 DEF GrantsGiven, Amended
  <2>2. grants.amendment[1].slots \in Seq(Actions) /\ ToSet(grants.amendment[1].slots) \subseteq AmendmentActions
    BY <2>1 DEF AmendmentFits, BudgetRows, AmendmentGrants
  <2> QED BY <1>1, <1>3, <2>1, <2>2, FiniteRange DEF ActiveSlots
<1> QED BY <1>2, <1>3

AgreedFacts ==
    /\ EffectiveSpec \in Specs /\ EffectiveSpec.ok
    /\ Agreed \in Specs /\ Agreed.ok
    /\ ~Amended => Agreed = EffectiveSpec
    /\ Amended => grants.amendment # <<>> /\ Agreed.limits = grants.amendment[1].limits
                  /\ Agreed.max = grants.amendment[1].max

LEMMA AgreedTyped == BudgetRows /\ GrantsGiven => AgreedFacts
<1> SUFFICES ASSUME BudgetRows, GrantsGiven PROVE AgreedFacts
    OBVIOUS
<1> USE DEF AgreedFacts
<1>1. IsFiniteSet(ToSet(SlotsFor(design)))
    BY StageSlots, FiniteRange DEF BudgetRows
<1>2. EstimateCost(WithLimits(1, 1), ToSet(SlotsFor(design))) \in Nat
    BY <1>1, SmallLimits, EstimateNat
<1>3. BaseSpec \in Specs /\ BaseSpec.ok
    BY <1>2, SmallLimits DEF BaseSpec, Specs
<1>4. EffectiveSpec \in Specs /\ EffectiveSpec.ok
    BY <1>3 DEF EffectiveSpec, BudgetRows, InputGrants, Specs
<1>5. CASE ~Amended
    BY <1>4, <1>5 DEF Agreed, AmendmentSpec
<1>6. CASE Amended
  <2>1. grants.amendment # <<>>
    BY <1>6 DEF GrantsGiven, Amended
  <2>2. grants.amendment[1].limits \in Limits /\ grants.amendment[1].max \in Nat
    BY <2>1 DEF BudgetRows, AmendmentGrants
  <2>3. Agreed = [EffectiveSpec EXCEPT !.limits = grants.amendment[1].limits, !.max = grants.amendment[1].max]
    BY <1>6 DEF Agreed, AmendmentSpec
  <2> QED BY <1>4, <1>6, <2>1, <2>2, <2>3 DEF Specs
<1> QED BY <1>4, <1>5, <1>6

WidenedFacts ==
    /\ Widened \in Specs
    /\ ~ReportInScope => Widened = Agreed
    /\ ReportInScope => /\ Widened.limits = grants.memory[1].limits
                        /\ Widened.max = grants.memory[1].max
                        /\ Widened.ok = (grants.memory[1].previousMax = Agreed.max
                                          /\ grants.memory[1].previousInput = Agreed.limits.input)

LEMMA WidenedTyped == BudgetRows /\ GrantsGiven => WidenedFacts
<1> SUFFICES ASSUME BudgetRows, GrantsGiven PROVE WidenedFacts
    OBVIOUS
<1> USE DEF WidenedFacts
<1>1. Agreed \in Specs /\ Agreed.ok
    BY AgreedTyped DEF AgreedFacts
<1>2. CASE ~ReportInScope
    BY <1>1, <1>2 DEF Widened, MemorySpec, ReportInScope
<1>3. CASE ReportInScope
  <2>1. grants.memory[1].limits \in Limits /\ grants.memory[1].max \in Nat
    BY <1>3 DEF BudgetRows, ReportGrants, ReportInScope
  <2> HIDE DEF Agreed
  <2>2. Widened = [limits |-> grants.memory[1].limits, max |-> grants.memory[1].max,
                   ok |-> Agreed.ok /\ grants.memory[1].previousMax = Agreed.max
                           /\ grants.memory[1].previousInput = Agreed.limits.input]
    BY <1>3 DEF Widened, MemorySpec, ReportInScope
  <2> QED BY <1>1, <1>3, <2>1, <2>2 DEF Specs
<1> QED BY <1>2, <1>3

InForceFacts ==
    /\ SpecInForce \in Specs
    /\ SpecInForce.limits = Widened.limits
    /\ ~StepInScope => SpecInForce = Widened
    /\ StepInScope => /\ SpecInForce.max = grants.step[1].max
                      /\ SpecInForce.ok = (Widened.ok /\ Widened.max <= grants.step[1].max)

LEMMA InForceTyped == BudgetRows /\ GrantsGiven => InForceFacts
<1> SUFFICES ASSUME BudgetRows, GrantsGiven PROVE InForceFacts
    OBVIOUS
<1> USE DEF InForceFacts
<1>1. Widened \in Specs
    BY WidenedTyped DEF WidenedFacts
<1>0. SpecInForce = StepSpec(Widened)
    BY DEF SpecInForce, Widened, Agreed
<1>2. CASE ~StepInScope
    BY <1>0, <1>1, <1>2 DEF StepSpec, StepInScope
<1>3. CASE StepInScope
  <2>1. grants.step[1].max \in Nat
    BY <1>3 DEF BudgetRows, StepGrants, StepInScope
  <2>2. SpecInForce = [Widened EXCEPT !.max = grants.step[1].max,
                                      !.ok = Widened.ok /\ Widened.max <= grants.step[1].max]
    BY <1>0, <1>3 DEF StepSpec, StepInScope
  <2> QED BY <1>1, <1>3, <2>1, <2>2 DEF Specs
<1> QED BY <1>2, <1>3

-----------------------------------------------------------------------------
(* What was charged.                                                       *)

Charge(c) == Paid(c) + Reserved(c)

Charges == [i \in DOMAIN sent |-> IF i \in ScopedCalls THEN Charge(sent[i]) ELSE 0]

LEMMA ChargeBound ==
  ASSUME NEW c \in Calls, c.cost \in {Unpriced, MostOf(c)}
  PROVE  /\ Paid(c) \in Nat /\ Reserved(c) \in Nat /\ Charge(c) \in Nat /\ MostOf(c) \in Nat
         /\ Charge(c) <= MostOf(c)
         /\ c.cost = Unpriced /\ c.status # "not_dispatched" => Charge(c) = MostOf(c)
         /\ c.cost # Unpriced => Reserved(c) = 0
<1>1. c.input \in 1..2 /\ c.output \in 1..2 /\ MostOf(c) = c.input + c.output
    BY DEF Calls, MostOf
<1> DEFINE a == c.input
           b == c.output
<1>2. a \in 1..2 /\ b \in 1..2 /\ MostOf(c) = a + b
    BY <1>1
<1> HIDE DEF a, b
<1>3. MostOf(c) \in Nat /\ MostOf(c) >= 2
    BY <1>2
<1> QED BY <1>3 DEF Paid, Reserved, Charge, Unpriced

ChargedFacts ==
    /\ Charges \in [1..Len(sent) -> Nat] /\ Len(sent) \in Nat /\ DOMAIN sent = 1..Len(sent)
    /\ Exposure = Total(Charges) /\ Exposure \in Nat
    /\ Exposure <= Committed /\ Committed \in Nat
    /\ (\A i \in ScopedCalls : sent[i].cost # Unpriced) => Exposure = KnownCost(ScopedCalls)

LEMMA Charged == BudgetRows /\ History => ChargedFacts
<1> SUFFICES ASSUME BudgetRows, History PROVE ChargedFacts
    OBVIOUS
<1> USE DEF ChargedFacts
<1> DEFINE n == Len(sent)
<1>1. n \in Nat /\ DOMAIN sent = 1..n /\ \A i \in 1..n : sent[i] \in Calls
    BY DEF BudgetRows
<1>2. \A i \in 1..n : sent[i].cost \in {Unpriced, MostOf(sent[i])}
    BY <1>1 DEF History
<1>3. \A i \in 1..n : Paid(sent[i]) \in Nat /\ Reserved(sent[i]) \in Nat /\ Charge(sent[i]) \in Nat
    BY <1>1, <1>2, ChargeBound
<1> DEFINE known == [i \in AllCalls |-> IF i \in ScopedCalls THEN Paid(sent[i]) ELSE 0]
           reserved == [i \in AllCalls |-> IF i \in ScopedCalls THEN Reserved(sent[i]) ELSE 0]
           allKnown == [i \in AllCalls |-> IF i \in AllCalls THEN Paid(sent[i]) ELSE 0]
           allReserved == [i \in AllCalls |-> IF i \in AllCalls THEN Reserved(sent[i]) ELSE 0]
<1>4. Exposure = Total(known) + Total(reserved) /\ Committed = Total(allKnown) + Total(allReserved)
      /\ KnownCost(ScopedCalls) = Total(known)
    BY DEF Exposure, Committed, KnownCost, Reserve
<1>5. /\ known \in [1..n -> Nat] /\ reserved \in [1..n -> Nat]
      /\ allKnown \in [1..n -> Nat] /\ allReserved \in [1..n -> Nat]
      /\ Charges \in [1..n -> Nat]
    BY <1>1, <1>3 DEF AllCalls, Charges
<1>6. \A i \in 1..n : Charges[i] = known[i] + reserved[i] /\ known[i] <= allKnown[i] /\ reserved[i] <= allReserved[i]
    BY <1>1, <1>3 DEF AllCalls, Charges, Charge
<1>7. (\A i \in ScopedCalls : sent[i].cost # Unpriced) => \A i \in 1..n : reserved[i] = 0
  <2> SUFFICES ASSUME \A i \in ScopedCalls : sent[i].cost # Unpriced, NEW i \in 1..n PROVE reserved[i] = 0
    OBVIOUS
  <2> QED BY <1>1, <1>2, ChargeBound DEF AllCalls
<1> HIDE DEF n, known, reserved, allKnown, allReserved
<1>15. \A k \in 1..n : Charges[k] <= known[k] + reserved[k] /\ Charges[k] >= known[k] + reserved[k]
  <2> TAKE k \in 1..n
  <2>1. Charges[k] \in Nat /\ Charges[k] = known[k] + reserved[k]
    BY <1>5, <1>6
  <2> QED BY <2>1
<1>8. Total(known) \in Nat /\ Total(reserved) \in Nat /\ Total(allKnown) \in Nat /\ Total(allReserved) \in Nat
      /\ Total(Charges) \in Nat
  <2>1. \A f \in [1..n -> Nat] : f \in Seq(Nat)
    BY <1>1
  <2> QED BY <1>5, <2>1, TotalNat
<1>9. Total(Charges) <= Total(known) + Total(reserved)
    BY <1>1, <1>5, <1>15, TotalSum
<1>10. Total(Charges) >= Total(known) + Total(reserved)
    BY <1>1, <1>5, <1>15, TotalOf
<1>11. Total(known) <= Total(allKnown) /\ Total(reserved) <= Total(allReserved)
    BY <1>1, <1>5, <1>6, TotalAtMost
<1>12. Exposure = Total(Charges) /\ Exposure \in Nat /\ Exposure <= Committed /\ Committed \in Nat
    BY <1>4, <1>8, <1>9, <1>10, <1>11
<1>13. (\A i \in ScopedCalls : sent[i].cost # Unpriced) => Total(reserved) = 0
    BY <1>1, <1>5, <1>7, TotalZero
<1>14. (\A i \in ScopedCalls : sent[i].cost # Unpriced) => Exposure = KnownCost(ScopedCalls)
    BY <1>4, <1>8, <1>13
<1> QED BY <1>1, <1>5, <1>12, <1>14 DEF n

-----------------------------------------------------------------------------
(* What follows from the rows of the budget.                               *)

Facts == ActiveFacts /\ AgreedFacts /\ WidenedFacts /\ InForceFacts /\ ChargedFacts

Ground == BudgetRows /\ AmendmentFits /\ GrantsGiven /\ History

LEMMA FactsNow == Ground => Facts
BY ActiveTyped, AgreedTyped, WidenedTyped, InForceTyped, Charged DEF Ground, Facts

LEMMA FactsNext == Ground' => Facts'
BY FactsNow, PTL

-----------------------------------------------------------------------------
(* The steps that leave the calls and the grants alone.                    *)

Quiet ==
    /\ sent' = sent /\ grants' = grants /\ resume' = resume /\ design' = design
    /\ ~Running /\ ~Running'
    /\ standing' = Stage(standing'.status, standing'.next, standing'.authorized)
    /\ progress' \in Progress
    /\ progress'.memory = progress.memory /\ progress'.amendment = progress.amendment
    /\ progress'.plan >= progress.plan
    /\ \/ standing'.next \in {standing.next, NoStep}
       \/ progress'.plan > progress.plan /\ standing'.next \notin AmendmentActions

SameBudget == grants' = grants /\ design' = design /\ Amended' = Amended

LEMMA SameInForce ==
  ASSUME SameBudget
  PROVE  /\ SpecInForce' = SpecInForce /\ ActiveSlots' = ActiveSlots
         /\ \A b \in BOOLEAN : SlotsIn(b)' = SlotsIn(b)
<1>1. BaseSpec' = BaseSpec
    BY DEF BaseSpec, SameBudget
<1>2. EffectiveSpec' = EffectiveSpec
    BY <1>1 DEF EffectiveSpec, SameBudget
<1>3. Agreed' = Agreed
    BY <1>2 DEF Agreed, AmendmentSpec, SameBudget
<1>4. Widened' = Widened
    BY <1>3 DEF Widened, MemorySpec, SameBudget
<1>5. SpecInForce' = StepSpec(Widened)' /\ SpecInForce = StepSpec(Widened)
    BY DEF SpecInForce, Widened, Agreed
<1>6. SpecInForce' = SpecInForce
    BY <1>4, <1>5 DEF StepSpec, SameBudget
<1>7. ActiveSlots' = ActiveSlots
    BY DEF ActiveSlots, SameBudget
<1>8. \A b \in BOOLEAN : SlotsIn(b)' = SlotsIn(b)
    BY DEF SlotsIn, SameBudget
<1> QED BY <1>6, <1>7, <1>8

LEMMA QuietGround ==
  ASSUME Ground, InFlight, ResumeFits, Quiet
  PROVE  Ground' /\ InFlight' /\ ResumeFits' /\ SameBudget
<1> USE DEF Quiet
<1>1. BudgetRows'
    BY DEF Ground, BudgetRows, LastCall
<1>2. AmendmentFits'
    BY DEF Ground, AmendmentFits
<1>3. SameBudget
    BY DEF SameBudget, Amended
<1>4. GrantsGiven'
    BY <1>3 DEF Ground, GrantsGiven, SameBudget
<1>5. History'
  <2>1. \A b \in BOOLEAN : SlotsIn(b)' = SlotsIn(b)
    BY <1>3, SameInForce
  <2>2. \A i \in DOMAIN sent : sent[i].amending \in BOOLEAN
    <3>1. \A i \in DOMAIN sent : sent[i] \in Calls
      BY DEF Ground, BudgetRows
    <3> QED BY <3>1 DEF Calls
  <2>3. \A i \in DOMAIN sent : sent[i].status # "executing"
    BY DEF Ground, History
  <2> SUFFICES ASSUME NEW i \in DOMAIN sent
               PROVE  /\ sent[i].cost \in {Unpriced, MostOf(sent[i])}
                      /\ sent[i].status \in Over \cup {"executing", "completed"}
                      /\ sent[i].amending <=> sent[i].action \in AmendmentActions
                      /\ sent[i].amending => Amended
                      /\ sent[i].action \in ToSet(SlotsIn(sent[i].amending))
                      /\ sent[i].by = "slot" => sent[i].replaces = 0 /\ sent[i].slot = SlotFor(sent[i].action, sent[i].amending)
                      /\ sent[i].by # "slot" => /\ i > 1 /\ sent[i].replaces = i - 1
                                          /\ sent[i - 1].action = sent[i].action
                      /\ \E j \in 1..i : sent[j].by = "slot" /\ sent[j].action = sent[i].action
                      /\ \A j \in DOMAIN sent : i < j /\ sent[j].action = sent[i].action => sent[i].status \in Over
    BY <1>3, <2>1, <2>2, <2>3 DEF History, SameBudget, SlotFor
  <2> QED BY DEF Ground, History
<1>6. InFlight'
    BY DEF InFlight
<1>7. ResumeFits'
    BY DEF ResumeFits, LastCall
<1> QED BY <1>1, <1>2, <1>3, <1>4, <1>5, <1>6, <1>7 DEF Ground

LEMMA MarkNat == \A w \in Progress : /\ Mark(w) \in Nat /\ Course(w) \in Nat
                                     /\ w.plan \in Nat /\ w.memory \in 0..1 /\ w.amendment \in 0..2
                                     /\ Mark(w) = w.plan + w.memory + w.amendment
                                     /\ Course(w) = w.plan + w.amendment
BY DEF Mark, Course, Progress

LEMMA BoundNat == BudgetRows => (grants.memory # <<>> => BoundAt(grants.memory[1].bindings) \in Nat)
<1> SUFFICES ASSUME BudgetRows, grants.memory # <<>> PROVE BoundAt(grants.memory[1].bindings) \in Nat
    OBVIOUS
<1>1. grants.memory[1].bindings \in Nat \X Nat \X Nat \X Nat \X Nat \X Nat
    BY DEF BudgetRows, ReportGrants
<1>2. grants.memory[1].bindings[1] \in Nat /\ grants.memory[1].bindings[5] \in Nat
    BY <1>1
<1> QED BY <1>2 DEF BoundAt

LEMMA QuietStands ==
  ASSUME Ground, StepStands, ReportStands, Quiet
  PROVE  StepStands' /\ ReportStands'
<1> USE DEF Quiet
<1>1. progress \in Progress /\ progress' \in Progress
    BY DEF Ground, BudgetRows
<1>2. /\ Mark(progress') >= Mark(progress) /\ Course(progress') >= Course(progress)
      /\ standing'.next \notin {standing.next, NoStep} => /\ Mark(progress') > Mark(progress)
                                                          /\ Course(progress') > Course(progress)
      /\ Mark(progress) \in Nat /\ Mark(progress') \in Nat /\ Course(progress) \in Nat /\ Course(progress') \in Nat
    BY <1>1, MarkNat
<1>3. Amended' = Amended
    BY DEF Amended
<1>4. StepStands'
  <2> SUFFICES ASSUME grants.step # <<>> PROVE StepStands'
    BY DEF StepStands
  <2> DEFINE g == grants.step[1]
  <2>1. Mark(g.restore) \in Nat /\ g.slot = (g.slot)'
    BY MarkNat DEF Ground, BudgetRows, StepGrants
  <2>2. Taken(g.slot)' = Taken(g.slot)
    BY DEF Taken
  <2> QED BY <1>2, <1>3, <2>1, <2>2 DEF StepStands, LastCall
<1>5. ReportStands'
  <2> SUFFICES ASSUME grants.memory # <<>> PROVE ReportStands'
    BY DEF ReportStands
  <2> DEFINE g == grants.memory[1]
  <2>1. BoundAt(g.bindings) \in Nat
    BY BoundNat DEF Ground
  <2>2. Taken(g.slot)' = Taken(g.slot)
    BY DEF Taken
  <2> QED BY <1>2, <1>3, <2>1, <2>2 DEF ReportStands, LastCall
<1> QED BY <1>4, <1>5

LEMMA QuietOrder ==
  ASSUME Ground, InOrder, Quiet
  PROVE  InOrder'
<1> USE DEF Quiet
<1>1. SameBudget
    BY DEF SameBudget, Amended
<1>2. SlotsIn(TRUE)' = SlotsIn(TRUE) /\ Amended' = Amended /\ (Amended => SlotsIn(TRUE) = ActiveSlots)
    BY <1>1, SameInForce DEF SameBudget, SlotsIn, ActiveSlots
<1>3. \A a : Earlier(a)' = Earlier(a)
    BY <1>2 DEF Earlier
<1>4. PassedOver' = PassedOver /\ UsedActions(AllCalls)' = UsedActions(AllCalls)
    BY DEF PassedOver, UsedActions, AllCalls
<1>5. Amended => ToSet(SlotsIn(TRUE)) \subseteq AmendmentActions /\ NoStep \notin ToSet(SlotsIn(TRUE))
  <2>1. NoStep \notin AmendmentActions
    BY DEF NoStep, AmendmentActions, Only
  <2> QED BY <1>2, <2>1, FactsNow DEF Facts, ActiveFacts
<1>6. LastCall' = LastCall
    BY DEF LastCall
<1> SUFFICES ASSUME Amended, ~PassedOver PROVE InOrder'
    BY <1>2, <1>4 DEF InOrder
<1>7. \A i \in DOMAIN sent : sent[i].amending => Earlier(sent[i].action) \subseteq UsedActions(AllCalls)
    BY DEF InOrder
<1>8. standing'.next \in ToSet(SlotsIn(TRUE)) => standing'.next = standing.next
    BY <1>5
<1>9. standing.next \in ToSet(SlotsIn(TRUE)) =>
             \/ Earlier(standing.next) \subseteq UsedActions(AllCalls)
             \/ sent # <<>> /\ LastCall.status \in Over /\ LastCall.amending
                /\ standing.next # LastCall.action
    BY DEF InOrder
<1> QED BY <1>2, <1>3, <1>4, <1>6, <1>7, <1>8, <1>9 DEF InOrder

-----------------------------------------------------------------------------
(* The amounts the headroom is made of.                                    *)

Price == EstimateCost(SpecInForce.limits, Left)

AmountFacts ==
    /\ Exposure \in Nat /\ Price \in Nat /\ OpenReport \in Nat /\ OpenStep \in Nat
    /\ SpecInForce.max \in Nat /\ SpecInForce.limits \in Limits
    /\ IsFiniteSet(Left)

LEMMA LastIsCall == BudgetRows /\ sent # <<>> => LastCall \in Calls /\ Len(sent) \in DOMAIN sent
<1> SUFFICES ASSUME BudgetRows, sent # <<>> PROVE LastCall \in Calls /\ Len(sent) \in DOMAIN sent
    OBVIOUS
<1>1. sent \in Seq(Calls)
    BY DEF BudgetRows
<1>2. Len(sent) \in 1..Len(sent) /\ DOMAIN sent = 1..Len(sent)
    BY <1>1
<1> QED BY <1>1, <1>2 DEF LastCall

LEMMA Amounts == Ground /\ StepStands => AmountFacts
<1> SUFFICES ASSUME Ground, StepStands PROVE AmountFacts
    OBVIOUS
<1>1. Exposure \in Nat
    BY FactsNow DEF Facts, ChargedFacts
<1>2. SpecInForce \in Specs
    BY FactsNow DEF Facts, InForceFacts
<1>3. SpecInForce.limits \in Limits /\ SpecInForce.max \in Nat
    BY <1>2 DEF Specs
<1>4. IsFiniteSet(Left)
  <2>1. IsFiniteSet(ToSet(ActiveSlots)) /\ Left \subseteq ToSet(ActiveSlots)
    BY FactsNow DEF Facts, ActiveFacts, Left
  <2> QED BY <2>1, FS_Subset
<1>5. Price \in Nat
    BY <1>3, <1>4, EstimateNat DEF Price
<1>6. OpenReport \in Nat
    BY <1>3 DEF OpenReport, Limits
<1>7. OpenStep \in Nat
  <2>1. CASE StepOpen
    <3>1. sent # <<>>
      BY <2>1 DEF StepOpen, StepStands
    <3>2. LastCall \in Calls
      BY <3>1, LastIsCall DEF Ground
    <3>3. LastCall.input \in 1..2 /\ LastCall.output \in 1..2
      BY <3>2 DEF Calls
    <3> QED BY <2>1, <3>3 DEF OpenStep, MostOf
  <2> QED BY <2>1 DEF OpenStep
<1> QED BY <1>1, <1>3, <1>4, <1>5, <1>6, <1>7 DEF AmountFacts

LEMMA AmountsNext == Ground' /\ StepStands' => AmountFacts'
BY Amounts, PTL

LEMMA QuietHeadroom ==
  ASSUME Ground, StepStands, InputsFit, Headroom, Quiet, Ground', StepStands'
  PROVE  InputsFit' /\ Headroom'
<1> USE DEF Quiet
<1>1. SameBudget
    BY DEF SameBudget, Amended
<1>2. SpecInForce' = SpecInForce /\ ActiveSlots' = ActiveSlots /\ Amended' = Amended
    BY <1>1, SameInForce DEF SameBudget
<1>3. InputsFit'
    BY <1>2 DEF InputsFit
<1>4. ScopedCalls' = ScopedCalls /\ AllCalls' = AllCalls
    BY <1>2 DEF ScopedCalls, AllCalls
<1>5. Exposure' = Exposure
    BY <1>4 DEF Exposure, KnownCost, Reserve
<1>6. Left' = Left
    BY <1>2, <1>4 DEF Left, UsedActions
<1>7. ReplayedEarly' = ReplayedEarly
    BY DEF ReplayedEarly, UsedActions
<1>8. OpenReport' = OpenReport
    BY <1>2 DEF OpenReport, ReportOpen, Taken
<1>9. StepOpen' => StepOpen
  <2> SUFFICES ASSUME StepOpen' PROVE StepOpen
    OBVIOUS
  <2>1. grants.step # <<>> /\ ~Taken(grants.step[1].slot) /\ grants.step[1].amending = Amended
        /\ grants.step[1].failed = Len(sent)
        /\ Mark(progress') = Mark(grants.step[1].restore)
        /\ (~Amended => \A j \in 1..PlaceOf(ActiveSlots, grants.step[1].action) :
                           ActiveSlots[j] \in UsedActions(AllCalls))
    BY <1>2, <1>4 DEF StepOpen, Taken, UsedActions
  <2>2. Mark(progress) >= Mark(grants.step[1].restore)
    BY <2>1 DEF StepStands
  <2>3. progress \in Progress /\ grants.step[1].restore \in Progress
    BY <2>1 DEF Ground, BudgetRows, StepGrants
  <2>4. Mark(progress') >= Mark(progress)
    BY <2>3, MarkNat
  <2>5. Mark(progress) = Mark(grants.step[1].restore)
    BY <2>1, <2>2, <2>3, <2>4, MarkNat
  <2> QED BY <2>1, <2>5 DEF StepOpen
<1>10. OpenStep' <= OpenStep
    BY <1>9, Amounts, AmountsNext DEF OpenStep, AmountFacts, LastCall
<1>11. Headroom'
  <2> SUFFICES ASSUME SpecInForce'.ok, ~ReplayedEarly'
               PROVE  Exposure' + Price' + OpenReport' + OpenStep' <= SpecInForce'.max
    BY DEF Headroom, Price
  <2>1. Price' = Price
    BY <1>2, <1>6 DEF Price
  <2>2. Exposure + Price + OpenReport + OpenStep <= SpecInForce.max
    BY <1>2, <1>7 DEF Headroom, Price
  <2>3. AmountFacts /\ AmountFacts'
    BY Amounts, AmountsNext
  <2>4. SpecInForce'.max = SpecInForce.max
    BY <1>2
  <2> QED BY <1>5, <1>8, <1>10, <2>1, <2>2, <2>3, <2>4 DEF AmountFacts
<1> QED BY <1>3, <1>11

LEMMA QuietKeeps ==
  ASSUME BudgetInv, Quiet
  PROVE  BudgetInv'
<1>1. Ground /\ InFlight /\ ResumeFits /\ StepStands /\ ReportStands /\ ByReport /\ InOrder /\ InputsFit /\ Headroom
    BY DEF BudgetInv, Ground
<1>2. Ground' /\ InFlight' /\ ResumeFits'
    BY <1>1, QuietGround
<1>3. StepStands' /\ ReportStands'
    BY <1>1, QuietStands
<1>4. InOrder'
    BY <1>1, QuietOrder
<1>5. InputsFit' /\ Headroom'
    BY <1>1, <1>2, <1>3, QuietHeadroom
<1>6. ByReport'
    BY <1>1 DEF ByReport, Quiet
<1> QED BY <1>2, <1>3, <1>4, <1>5, <1>6 DEF BudgetInv, Ground

-----------------------------------------------------------------------------
(* What the stage runs next.                                               *)

LEMMA FollowingIsPlain ==
  ASSUME BudgetRows, NEW w \in Progress
  PROVE  Following(w) \notin AmendmentActions /\ ChooseNext(w).next \notin AmendmentActions
<1>1. Finishing \in Seq(StageActions)
  <2>1. << Only("checker") >> \in Seq(StageActions) /\ << Only("reader") >> \in Seq(StageActions)
        /\ <<>> \in Seq(StageActions)
    <3>1. Only("checker") \in StageActions /\ Only("reader") \in StageActions
      BY DEF Only, StageActions, Named
    <3> QED BY <3>1
  <2>2. Wanted(design, "checker") \in Seq(StageActions) /\ Wanted(design, "reader") \in Seq(StageActions)
    BY <2>1 DEF Wanted
  <2> QED BY <2>2 DEF Finishing
<1>2. Finishing # <<>> => Finishing[1] \notin AmendmentActions
  <2>1. Finishing # <<>> => Finishing[1] \in StageActions
    BY <1>1
  <2> QED BY <2>1, NotAmending
<1>3. /\ NoStep \notin AmendmentActions /\ Only("reader_early") \notin AmendmentActions
      /\ \A x : <<"memory", x>> \notin AmendmentActions /\ <<"write", x>> \notin AmendmentActions
                /\ <<"chief", x>> \notin AmendmentActions
    BY DEF NoStep, Only, AmendmentActions
<1>4. Following(w) \notin AmendmentActions
    BY <1>2, <1>3 DEF Following
<1> QED BY <1>4 DEF ChooseNext, Stage

LEMMA RefusedQuiet ==
  ASSUME Ground, ClaimSlot, ~ClaimFits
  PROVE  Quiet
<1>1. progress \in Progress /\ progress' = progress
    BY DEF Ground, BudgetRows, ClaimSlot, LocalFailure
<1>2. progress' \in Progress /\ progress'.plan >= progress.plan
    BY <1>1, MarkNat
<1> QED BY <1>1, <1>2 DEF ClaimSlot, LocalFailure, Quiet, Stage, Running

LEMMA TooLongQuiet ==
  ASSUME Ground, InputTooLong
  PROVE  Quiet
<1>1. progress \in Progress /\ progress' = [progress EXCEPT !.others = 1]
    BY DEF Ground, BudgetRows, InputTooLong
<1>2. progress' \in Progress /\ progress'.memory = progress.memory /\ progress'.amendment = progress.amendment
      /\ progress'.plan = progress.plan /\ progress.plan \in Nat
    BY <1>1 DEF Progress
<1>3. standing' = [standing EXCEPT !.status = "needs_attention"] /\ standing.status = "queued"
      /\ standing = Stage(standing.status, standing.next, standing.authorized)
    BY DEF Ground, BudgetRows, InputTooLong
<1>4. standing' = Stage("needs_attention", standing.next, standing.authorized)
    BY <1>3 DEF Stage
<1> QED BY <1>2, <1>3, <1>4 DEF InputTooLong, Quiet, Stage, Running

LEMMA AuthorizeQuiet ==
  ASSUME Ground, AuthorizeStage \/ Pause
  PROVE  Quiet
<1>1. progress \in Progress /\ progress' = progress
    BY DEF Ground, BudgetRows, AuthorizeStage, Pause
<1>2. progress' \in Progress /\ progress'.plan >= progress.plan
    BY <1>1, MarkNat
<1>3. CASE AuthorizeStage
    BY <1>1, <1>2, <1>3 DEF AuthorizeStage, Start, Quiet, Stage, Running
<1>4. CASE Pause
  <2>1. standing' = [standing EXCEPT !.status = "paused"]
        /\ standing = Stage(standing.status, standing.next, standing.authorized)
    BY <1>4 DEF Ground, BudgetRows, Pause
  <2>2. standing' = Stage("paused", standing.next, standing.authorized)
    BY <2>1 DEF Stage
  <2> QED BY <1>1, <1>2, <1>4, <2>2 DEF Pause, Quiet, Stage, Running
<1> QED BY <1>3, <1>4

LEMMA EditPlanQuiet ==
  ASSUME Ground, EditStagePlan
  PROVE  Quiet
<1> DEFINE w == [progress EXCEPT !.plan = @ + 1, !.planned = design.units, !.asked = FALSE, !.held = FALSE]
           v == IF standing.status = "needs_attention" \/ progress.held
                THEN [w EXCEPT !.compared = @ \cup {w.written}, !.comparedEarly = w.early] ELSE w
<1>1. progress \in Progress /\ design.units \in Nat
    BY DesignAssumption DEF Ground, BudgetRows
<1>2. w \in Progress /\ w.memory = progress.memory /\ w.amendment = progress.amendment
      /\ w.plan = progress.plan + 1 /\ progress.plan \in Nat
  <2>1. progress.plan \in Nat /\ progress.plan + 1 \in Nat
    BY <1>1 DEF Progress
  <2>2. w.memory = progress.memory /\ w.amendment = progress.amendment /\ w.plan = progress.plan + 1
    BY <1>1 DEF Progress
  <2> DEFINE p == progress.plan + 1
             u == design.units
  <2>3. w = [progress EXCEPT !.plan = p, !.planned = u, !.asked = FALSE, !.held = FALSE]
    OBVIOUS
  <2>4. p \in Nat /\ u \in Nat
    BY <1>1, <2>1
  <2> HIDE DEF p, u, w
  <2>5. w \in Progress
    BY <1>1, <2>3, <2>4 DEF Progress
  <2> QED BY <2>1, <2>2, <2>5
<1> HIDE DEF w
<1>3. v \in Progress /\ v.memory = progress.memory /\ v.amendment = progress.amendment
      /\ v.plan = progress.plan + 1
    BY <1>2 DEF Progress
<1>4. progress' = v /\ standing' = [ChooseNext(v) EXCEPT !.status = "awaiting_plan"]
    BY DEF EditStagePlan, w
<1> HIDE DEF v
<1>5. standing' = Stage("awaiting_plan", Following(v), standing.authorized)
    BY <1>4 DEF ChooseNext, Stage
<1>6. Following(v) \notin AmendmentActions
    BY <1>3, FollowingIsPlain DEF Ground
<1>7. standing'.next \notin AmendmentActions /\ standing'.status = "awaiting_plan"
      /\ standing' = Stage(standing'.status, standing'.next, standing'.authorized)
    BY <1>5, <1>6 DEF Stage
<1>8. progress'.plan > progress.plan /\ progress'.plan >= progress.plan
    BY <1>2, <1>3, <1>4
<1> QED BY <1>3, <1>4, <1>7, <1>8 DEF EditStagePlan, Quiet, Running

LEMMA EditCandidateQuiet ==
  ASSUME Ground, EditCandidate
  PROVE  Quiet
<1>1. progress \in Progress /\ progress' = [Rewritten EXCEPT !.partial = FALSE]
    BY DEF Ground, BudgetRows, EditCandidate, Outcome
<1>2. Rewritten \in Progress /\ Rewritten.memory = progress.memory /\ Rewritten.amendment = progress.amendment
      /\ Rewritten.plan = progress.plan /\ progress.plan \in Nat
  <2>1. progress.plan \in Nat /\ progress.text \in Nat /\ progress.text + 1 \in Nat
    BY <1>1 DEF Progress
  <2>2. Rewritten.memory = progress.memory /\ Rewritten.amendment = progress.amendment
        /\ Rewritten.plan = progress.plan
    BY <1>1 DEF Progress, Rewritten
  <2> DEFINE t == progress.text + 1
  <2>3. Rewritten = [progress EXCEPT !.written = 0, !.handed = 0, !.early = FALSE, !.text = t]
    BY DEF Rewritten
  <2>4. t \in Nat
    BY <2>1
  <2> HIDE DEF t, Rewritten
  <2>5. Rewritten \in Progress
    BY <1>1, <2>3, <2>4 DEF Progress
  <2> QED BY <2>1, <2>2, <2>5
<1> HIDE DEF Rewritten
<1>3. progress' \in Progress /\ progress'.memory = progress.memory /\ progress'.amendment = progress.amendment
      /\ progress'.plan = progress.plan
    BY <1>1, <1>2 DEF Progress
<1> QED BY <1>2, <1>3 DEF EditCandidate, Outcome, Quiet, Stage, Running

-----------------------------------------------------------------------------
(* The end of a call.                                                      *)

Recorded(r) ==
    /\ r \in [before : Progress, after : Progress]
    /\ r.before.plan = r.after.plan /\ r.before.memory = r.after.memory
    /\ r.before.amendment = r.after.amendment

SettledAs(st, cost) ==
    /\ design' = design /\ grants' = grants /\ Running /\ ~Running'
    /\ standing' = Stage(standing'.status, standing'.next, standing'.authorized)
    /\ progress' \in Progress
    /\ progress'.memory = progress.memory /\ progress'.amendment = progress.amendment
    /\ progress'.plan >= progress.plan
    /\ Settle(st, cost)
    /\ st \in Over \cup {"completed"} /\ cost \in {MostOf(LastCall), Unpriced}
    /\ st \in Over => Recorded(resume') /\ resume'.before = resume.before
    /\ Amended => \/ standing'.next \notin AmendmentActions
                  \/ standing'.next = NextAction(ActiveSlots, LastCall.action)
                  \/ LastCall.action = Only("amend") /\ standing'.next = Only("memory_amend")
                  \/ st \in Over /\ standing'.next # LastCall.action

SettledHistory(st, cost) ==
    /\ sent # <<>> /\ Len(sent) \in DOMAIN sent /\ sent' \in Seq(Calls) /\ sent' # <<>>
    /\ Len(sent') = Len(sent) /\ DOMAIN sent' = DOMAIN sent /\ DOMAIN sent = 1..Len(sent)
    /\ \A i \in DOMAIN sent : i # Len(sent) => sent'[i] = sent[i]
    /\ sent'[Len(sent)] = [LastCall EXCEPT !.status = st, !.cost = cost] /\ LastCall' = sent'[Len(sent)]
    /\ LastCall \in Calls /\ LastCall = sent[Len(sent)]
    /\ LastCall.status = "executing" /\ LastCall.cost = Unpriced /\ LastCall.amending = Amended
    /\ LastCall'.status = st /\ LastCall'.cost = cost /\ MostOf(LastCall') = MostOf(LastCall)
    /\ \A i \in DOMAIN sent : /\ sent'[i].action = sent[i].action /\ sent'[i].by = sent[i].by
                              /\ sent'[i].slot = sent[i].slot /\ sent'[i].replaces = sent[i].replaces
                              /\ sent'[i].amending = sent[i].amending /\ sent'[i].input = sent[i].input

LEMMA SettledCalls ==
  ASSUME Ground, InFlight, NEW st, NEW cost, SettledAs(st, cost)
  PROVE  SettledHistory(st, cost)
<1> DEFINE n == Len(sent)
           c == [LastCall EXCEPT !.status = st, !.cost = cost]
<1>1. sent \in Seq(Calls)
    BY DEF Ground, BudgetRows
<1>2. sent # <<>> /\ LastCall.status = "executing" /\ LastCall.amending = Amended
    BY DEF SettledAs, InFlight
<1>3. LastCall \in Calls /\ n \in DOMAIN sent /\ DOMAIN sent = 1..n /\ n \in Nat
    BY <1>1, <1>2, LastIsCall DEF Ground
<1>4. LastCall = sent[n] /\ LastCall.cost = Unpriced
    BY <1>2, <1>3 DEF LastCall, Ground, History
<1>5. MostOf(LastCall) \in Int /\ Unpriced \in Int
    BY <1>3 DEF MostOf, Calls, Unpriced
<1>6. st \in Over \cup {"executing", "completed"} /\ cost \in Int
    BY <1>5 DEF SettledAs
<1>7. c \in Calls /\ c.status = st /\ c.cost = cost /\ c.action = LastCall.action /\ c.by = LastCall.by
      /\ c.slot = LastCall.slot /\ c.replaces = LastCall.replaces /\ c.amending = LastCall.amending
      /\ c.input = LastCall.input /\ c.output = LastCall.output
    BY <1>3, <1>6 DEF Calls
<1>8. sent' = [sent EXCEPT ![n] = c]
  <2>1. sent' = [sent EXCEPT ![n].status = st, ![n].cost = cost]
    BY DEF SettledAs, Settle
  <2> QED BY <1>1, <1>3, <1>4, <2>1
<1> HIDE DEF c
<1>9. sent' \in Seq(Calls) /\ Len(sent') = n /\ DOMAIN sent' = DOMAIN sent /\ sent'[n] = c
      /\ \A i \in DOMAIN sent : i # n => sent'[i] = sent[i]
    BY <1>1, <1>3, <1>7, <1>8
<1>10. sent' # <<>> /\ LastCall' = sent'[n]
    BY <1>3, <1>9 DEF LastCall
<1>11. MostOf(LastCall') = MostOf(LastCall)
    BY <1>7, <1>9, <1>10 DEF MostOf
<1>12. \A i \in DOMAIN sent : /\ sent'[i].action = sent[i].action /\ sent'[i].by = sent[i].by
                              /\ sent'[i].slot = sent[i].slot /\ sent'[i].replaces = sent[i].replaces
                              /\ sent'[i].amending = sent[i].amending /\ sent'[i].input = sent[i].input
    BY <1>4, <1>7, <1>9
<1> QED BY <1>2, <1>3, <1>4, <1>7, <1>9, <1>10, <1>11, <1>12 DEF SettledHistory, c

LEMMA SettledGround ==
  ASSUME Ground, InFlight, ResumeFits, NEW st, NEW cost, SettledAs(st, cost)
  PROVE  Ground' /\ InFlight' /\ ResumeFits' /\ SameBudget
<1>0. SettledHistory(st, cost)
    BY SettledCalls
<1>1. BudgetRows'
  <2>1. standing' = Stage(standing'.status, standing'.next, standing'.authorized) /\ progress' \in Progress
        /\ grants' = grants /\ design' = design
    BY DEF SettledAs
  <2>2. sent' \in Seq(Calls)
    BY <1>0 DEF SettledHistory
  <2>3. LastCall'.status # "completed" => resume' \in [before : Progress, after : Progress]
    BY <1>0 DEF SettledHistory, SettledAs, Recorded
  <2> QED BY <2>1, <2>2, <2>3 DEF Ground, BudgetRows
<1>2. AmendmentFits'
    BY DEF Ground, AmendmentFits, SettledAs
<1>3. SameBudget
    BY DEF SameBudget, Amended, SettledAs
<1>4. GrantsGiven'
    BY <1>3 DEF Ground, GrantsGiven, SameBudget, SettledAs
<1>5. History'
  <2>1. \A b \in BOOLEAN : SlotsIn(b)' = SlotsIn(b)
    BY <1>3, SameInForce
  <2>2. \A i \in DOMAIN sent : sent[i].amending \in BOOLEAN
    <3>1. \A i \in DOMAIN sent : sent[i] \in Calls
      BY DEF Ground, BudgetRows
    <3> QED BY <3>1 DEF Calls
  <2>3. \A i \in DOMAIN sent : sent'[i].status # "executing"
    BY <1>0 DEF Ground, History, SettledHistory, SettledAs, Over
  <2>4. \A i \in DOMAIN sent : /\ sent'[i].cost \in {Unpriced, MostOf(sent'[i])}
                               /\ sent'[i].status \in Over \cup {"executing", "completed"}
    <3>1. \A i \in DOMAIN sent : sent'[i].cost \in {Unpriced, MostOf(sent'[i])}
      <4> SUFFICES ASSUME NEW i \in DOMAIN sent PROVE sent'[i].cost \in {Unpriced, MostOf(sent'[i])}
        OBVIOUS
      <4>1. CASE i = Len(sent)
        BY <1>0, <4>1 DEF SettledHistory, SettledAs
      <4>2. CASE i # Len(sent)
        <5>1. sent'[i] = sent[i]
          BY <1>0, <4>2 DEF SettledHistory
        <5> QED BY <5>1 DEF Ground, History
      <4> QED BY <4>1, <4>2
    <3>2. \A i \in DOMAIN sent : sent'[i].status \in Over \cup {"executing", "completed"}
      <4>1. sent' \in Seq(Calls) /\ DOMAIN sent' = DOMAIN sent
        BY <1>0 DEF SettledHistory
      <4>2. \A i \in DOMAIN sent : sent'[i] \in Calls
        BY <4>1
      <4> QED BY <4>2 DEF Calls
    <3> QED BY <3>1, <3>2
  <2>5. \A i, j \in DOMAIN sent : i < j => sent'[i].status = sent[i].status
    BY <1>0 DEF SettledHistory
  <2> SUFFICES ASSUME NEW i \in DOMAIN sent
               PROVE  /\ sent'[i].amending <=> sent'[i].action \in AmendmentActions
                      /\ sent'[i].amending => Amended
                      /\ sent'[i].action \in ToSet(SlotsIn(sent[i].amending))
                      /\ sent'[i].by = "slot" => sent'[i].replaces = 0 /\ sent'[i].slot = SlotFor(sent[i].action, sent[i].amending)
                      /\ sent'[i].by # "slot" => /\ i > 1 /\ sent'[i].replaces = i - 1
                                          /\ sent'[i - 1].action = sent'[i].action
                      /\ \E j \in 1..i : sent'[j].by = "slot" /\ sent'[j].action = sent'[i].action
                      /\ \A j \in DOMAIN sent : i < j /\ sent'[j].action = sent'[i].action => sent'[i].status \in Over
    BY <1>0, <1>3, <2>1, <2>2, <2>3, <2>4 DEF History, SameBudget, SlotFor, SettledHistory
  <2>6. i \in 1..Len(sent) /\ 1..i \subseteq DOMAIN sent
    BY <1>0 DEF SettledHistory
  <2>7. sent[i].by # "slot" => i - 1 \in DOMAIN sent
    BY <1>0 DEF Ground, History, SettledHistory
  <2> QED BY <1>0, <2>5, <2>6, <2>7 DEF Ground, History, SettledHistory
<1>6. InFlight'
    BY DEF InFlight, SettledAs
<1>7. ResumeFits'
  <2> SUFFICES ASSUME LastCall'.status # "completed" PROVE ResumeFits'
    BY DEF ResumeFits
  <2>1. Recorded(resume') /\ resume'.before = resume.before
    BY <1>0 DEF SettledAs, SettledHistory
  <2>2. progress = resume.before /\ progress'.memory = progress.memory
    BY DEF SettledAs, InFlight
  <2> QED BY <2>1, <2>2 DEF ResumeFits, Recorded
<1> QED BY <1>1, <1>2, <1>3, <1>4, <1>5, <1>6, <1>7 DEF Ground

-----------------------------------------------------------------------------
(* The grants that stand at the end of a call.                             *)

LEMMA SettledStands ==
  ASSUME Ground, InFlight, StepStands, ReportStands, NEW st, NEW cost, SettledAs(st, cost)
  PROVE  StepStands' /\ ReportStands'
<1>0. SettledHistory(st, cost)
    BY SettledCalls
<1>1. progress \in Progress /\ progress' \in Progress
    BY DEF Ground, BudgetRows, SettledAs
<1>2. /\ Mark(progress') >= Mark(progress) /\ Course(progress') >= Course(progress)
      /\ Mark(progress) \in Nat /\ Mark(progress') \in Nat /\ Course(progress) \in Nat /\ Course(progress') \in Nat
    BY <1>1, MarkNat DEF SettledAs
<1>3. Amended' = Amended /\ grants' = grants
    BY DEF Amended, SettledAs
<1>4. \A x : Taken(x)' = Taken(x)
    BY <1>0 DEF Taken, SettledHistory
<1>5. LastCall.status \notin Over
    BY <1>0 DEF SettledHistory, Over
<1>6. LastCall'.status # "completed" => resume'.before = resume.before
    BY <1>0 DEF SettledHistory, SettledAs
<1>7. StepStands'
  <2> SUFFICES ASSUME grants.step # <<>> PROVE StepStands'
    BY <1>3 DEF StepStands
  <2> DEFINE g == grants.step[1]
  <2>1. Mark(g.restore) \in Nat
    BY MarkNat DEF Ground, BudgetRows, StepGrants
  <2>2. /\ g.failed \in DOMAIN sent /\ sent[g.failed].status \in Over
        /\ sent[g.failed].action = g.action /\ sent[g.failed].amending = g.amending
        /\ g.failed # Len(sent)
    BY <1>0, <1>5 DEF StepStands, SettledHistory
  <2>3. g.failed \in DOMAIN sent' /\ sent'[g.failed] = sent[g.failed] /\ Len(sent') = Len(sent)
    BY <1>0, <2>2 DEF SettledHistory
  <2>4. ~Taken(g.slot) => Mark(progress) > Mark(g.restore) /\ Mark(resume.before) > Mark(g.restore)
    BY <1>0, <2>2 DEF StepStands, SettledHistory
  <2>5. ~Taken(g.slot) => Mark(progress') > Mark(g.restore)
    BY <1>2, <2>1, <2>4
  <2>6. /\ g.failed \in DOMAIN sent' /\ sent'[g.failed].status \in Over
        /\ sent'[g.failed].action = g.action /\ sent'[g.failed].amending = g.amending
        /\ g.failed # Len(sent')
        /\ ~Taken(g.slot)' => /\ Mark(progress') > Mark(g.restore)
                              /\ LastCall'.status # "completed" => Mark(resume'.before) > Mark(g.restore)
    <3>1. Taken(g.slot)' = Taken(g.slot)
      BY <1>0, <1>3 DEF Taken, SettledHistory
    <3> QED BY <1>6, <2>2, <2>3, <2>4, <2>5, <3>1
  <2>7. Mark(progress') >= Mark(g.restore) <=> (Mark(progress') > Mark(g.restore) \/ Mark(progress') = Mark(g.restore))
    BY <1>2, <2>1
  <2> QED BY <1>3, <2>6, <2>7 DEF StepStands
<1>8. ReportStands'
  <2> SUFFICES ASSUME grants.memory # <<>> PROVE ReportStands'
    BY <1>3 DEF ReportStands
  <2> DEFINE g == grants.memory[1]
  <2>1. BoundAt(g.bindings) \in Nat
    BY BoundNat DEF Ground
  <2>2. /\ g.failed \in DOMAIN sent /\ sent[g.failed].status \in Over
        /\ sent[g.failed].action = g.action /\ sent[g.failed].amending = g.amending
        /\ g.failed # Len(sent) /\ RoleFor(g.action) = "memory"
    BY <1>0, <1>5 DEF ReportStands, SettledHistory
  <2>3. g.failed \in DOMAIN sent' /\ sent'[g.failed] = sent[g.failed] /\ Len(sent') = Len(sent)
    BY <1>0, <2>2 DEF SettledHistory
  <2>4. ~Taken(g.slot) => Course(progress) > BoundAt(g.bindings) /\ Course(resume.before) > BoundAt(g.bindings)
    BY <1>0, <2>2 DEF ReportStands, SettledHistory
  <2>5. ~Taken(g.slot) => Course(progress') > BoundAt(g.bindings)
    BY <1>2, <2>1, <2>4
  <2>6. /\ g.failed \in DOMAIN sent' /\ sent'[g.failed].status \in Over
        /\ sent'[g.failed].action = g.action /\ sent'[g.failed].amending = g.amending
        /\ g.failed # Len(sent')
        /\ ~Taken(g.slot)' => /\ Course(progress') > BoundAt(g.bindings)
                              /\ LastCall'.status # "completed" => Course(resume'.before) > BoundAt(g.bindings)
    <3>1. Taken(g.slot)' = Taken(g.slot)
      BY <1>0, <1>3 DEF Taken, SettledHistory
    <3> QED BY <1>6, <2>2, <2>3, <2>4, <2>5, <3>1
  <2>7. Course(progress') >= BoundAt(g.bindings)
           <=> (Course(progress') > BoundAt(g.bindings) \/ Course(progress') = BoundAt(g.bindings))
    BY <1>2, <2>1
  <2> QED BY <1>3, <2>2, <2>6, <2>7 DEF ReportStands
<1> QED BY <1>7, <1>8

LEMMA SettledOrder ==
  ASSUME Ground, InFlight, InOrder, NEW st, NEW cost, SettledAs(st, cost)
  PROVE  InOrder'
<1>0. SettledHistory(st, cost)
    BY SettledCalls
<1>1. SameBudget
    BY DEF SameBudget, Amended, SettledAs
<1>2. SlotsIn(TRUE)' = SlotsIn(TRUE) /\ Amended' = Amended /\ (Amended => SlotsIn(TRUE) = ActiveSlots)
    BY <1>1, SameInForce DEF SameBudget, SlotsIn, ActiveSlots
<1>3. \A a : Earlier(a)' = Earlier(a)
    BY <1>2 DEF Earlier
<1>4. UsedActions(AllCalls)' = UsedActions(AllCalls)
    BY <1>0 DEF UsedActions, AllCalls, SettledHistory
<1>5. PassedOver => PassedOver'
  <2> SUFFICES ASSUME NEW k \in 1..(Len(sent) - 1),
                      sent[k].amending, sent[k].status \in Over, sent[k + 1].by = "slot"
               PROVE  PassedOver'
    BY DEF PassedOver
  <2>1. k \in DOMAIN sent /\ k + 1 \in DOMAIN sent /\ k # Len(sent)
    BY <1>0 DEF SettledHistory
  <2>2. sent'[k] = sent[k] /\ sent'[k + 1].by = sent[k + 1].by /\ k \in 1..(Len(sent') - 1)
    BY <1>0, <2>1 DEF SettledHistory
  <2> QED BY <2>2 DEF PassedOver
<1> SUFFICES ASSUME Amended, ~PassedOver PROVE InOrder'
    BY <1>2, <1>5 DEF InOrder
<1> DEFINE s == SlotsIn(TRUE)
<1>6. /\ s \in Seq(Actions) /\ ToSet(s) \subseteq AmendmentActions
      /\ grants.amendment # <<>> /\ s = grants.amendment[1].slots
    BY <1>2, FactsNow DEF Facts, ActiveFacts, SlotsIn
<1>7. /\ \A i, j \in DOMAIN s : s[i] = s[j] => i = j
      /\ Only("amend") \in ToSet(s) => PlaceOf(s, Only("memory_amend")) = PlaceOf(s, Only("amend")) + 1
      /\ Only("memory_amend") \in ToSet(s)
    BY <1>6 DEF Ground, AmendmentFits
<1>8. /\ \A i \in DOMAIN sent : sent[i].amending => Earlier(sent[i].action) \subseteq UsedActions(AllCalls)
      /\ LastCall.amending /\ LastCall.action \in ToSet(s) /\ LastCall.action \in UsedActions(AllCalls)
      /\ Earlier(LastCall.action) \subseteq UsedActions(AllCalls)
  <2>1. \A i \in DOMAIN sent : sent[i].amending => Earlier(sent[i].action) \subseteq UsedActions(AllCalls)
    BY DEF InOrder
  <2>2. LastCall.amending /\ Len(sent) \in DOMAIN sent /\ LastCall = sent[Len(sent)]
    BY <1>0 DEF SettledHistory
  <2>3. LastCall.action \in ToSet(s)
    <3>1. LastCall.action \in ToSet(SlotsIn(LastCall.amending))
      BY <2>2 DEF Ground, History
    <3>2. LastCall.amending = TRUE
      BY <1>0 DEF SettledHistory, Amended
    <3> QED BY <3>1, <3>2
  <2>4. LastCall.action \in UsedActions(AllCalls)
    BY <2>2 DEF UsedActions, AllCalls
  <2> QED BY <2>1, <2>2, <2>3, <2>4
<1> DEFINE p == PlaceOf(s, LastCall.action)
<1>9. p \in 1..Len(s) /\ s[p] = LastCall.action /\ DOMAIN s = 1..Len(s) /\ Len(s) \in Nat
  <2>1. s \in Seq(Actions) /\ LastCall.action \in ToSet(s)
    BY <1>6, <1>8
  <2> HIDE DEF s
  <2>2. PlaceOf(s, LastCall.action) \in 1..Len(s) /\ s[PlaceOf(s, LastCall.action)] = LastCall.action
    BY <2>1, PlaceIs
  <2>3. DOMAIN s = 1..Len(s) /\ Len(s) \in Nat
    BY <2>1
  <2> QED BY <2>2, <2>3
<1> HIDE DEF p, s
<1>10. ASSUME NEW a \in ToSet(s), PlaceOf(s, a) = p + 1
       PROVE  Earlier(a) \subseteq UsedActions(AllCalls)
  <2>1. \A j \in 1..(PlaceOf(s, a) - 1) : s[j] \in Earlier(LastCall.action) \/ s[j] = LastCall.action
    <3> TAKE j \in 1..(PlaceOf(s, a) - 1)
    <3>1. j \in 1..(p - 1) \/ j = p
      BY <1>9, <1>10
    <3>2. CASE j = p
      BY <1>9, <3>2
    <3>3. CASE j \in 1..(p - 1)
      BY <3>3 DEF Earlier, p, s
    <3> QED BY <3>1, <3>2, <3>3
  <2>2. \A j \in 1..(PlaceOf(s, a) - 1) : s[j] \in UsedActions(AllCalls)
    BY <1>8, <2>1
  <2> QED BY <2>2 DEF Earlier, s
<1>11. ASSUME standing'.next \in ToSet(s), ~(st \in Over /\ standing'.next # LastCall.action)
       PROVE  Earlier(standing'.next) \subseteq UsedActions(AllCalls)
  <2>1. standing'.next \in AmendmentActions
    BY <1>6, <1>11
  <2>2. CASE standing'.next = NextAction(ActiveSlots, LastCall.action)
    <3>1. NoStep \notin AmendmentActions
      BY DEF NoStep, AmendmentActions, Only
    <3>2. standing'.next = s[p + 1] /\ p # Len(s)
      BY <1>2, <2>1, <2>2, <3>1 DEF NextAction, p, s
    <3>3. p + 1 \in 1..Len(s)
      BY <1>9, <3>2
    <3>4. PlaceOf(s, standing'.next) = p + 1
      <4>1. s \in Seq(Actions) /\ \A i, j \in DOMAIN s : s[i] = s[j] => i = j
        BY <1>6, <1>7
      <4> QED BY <3>2, <3>3, <4>1, OnePlace
    <3> QED BY <1>10, <1>11, <3>4
  <2>3. CASE LastCall.action = Only("amend") /\ standing'.next = Only("memory_amend")
    <3>1. PlaceOf(s, standing'.next) = p + 1
      BY <1>7, <1>8, <2>3 DEF p
    <3> QED BY <1>10, <1>11, <3>1
  <2> QED BY <1>11, <2>1, <2>2, <2>3 DEF SettledAs
<1>12. \A i \in DOMAIN sent' : sent'[i].amending => Earlier(sent[i].action)' \subseteq UsedActions(AllCalls)'
  <2> SUFFICES ASSUME NEW i \in DOMAIN sent', sent'[i].amending
               PROVE  Earlier(sent[i].action)' \subseteq UsedActions(AllCalls)'
    OBVIOUS
  <2>1. i \in DOMAIN sent /\ sent[i].amending /\ sent'[i].action = sent[i].action
    BY <1>0 DEF SettledHistory
  <2>2. Earlier(sent[i].action)' = Earlier(sent'[i].action)
    BY <1>2 DEF Earlier
  <2> QED BY <1>4, <1>8, <2>1, <2>2
<1>13. st \in Over => sent' # <<>> /\ LastCall'.status \in Over /\ LastCall'.amending /\ LastCall'.action = LastCall.action
    BY <1>0, <1>8 DEF SettledHistory
<1>14. Earlier(standing.next)' = Earlier(standing'.next)
    BY <1>2 DEF Earlier
<1>15. standing'.next \in ToSet(SlotsIn(TRUE)') =>
             \/ Earlier(standing.next)' \subseteq UsedActions(AllCalls)'
             \/ sent' # <<>> /\ LastCall'.status \in Over /\ LastCall'.amending
                /\ standing'.next # LastCall'.action
    BY <1>2, <1>4, <1>11, <1>13, <1>14 DEF s
<1> QED BY <1>12, <1>15 DEF InOrder

LEMMA SettledHeadroom ==
  ASSUME Ground, InFlight, StepStands, ReportStands, InputsFit, Headroom, NEW st, NEW cost, SettledAs(st, cost),
         Ground', StepStands'
  PROVE  InputsFit' /\ Headroom'
<1>0. SettledHistory(st, cost)
    BY SettledCalls
<1>1. SameBudget
    BY DEF SameBudget, Amended, SettledAs
<1>2. SpecInForce' = SpecInForce /\ ActiveSlots' = ActiveSlots /\ Amended' = Amended /\ grants' = grants /\ design' = design
    BY <1>1, SameInForce DEF SameBudget
<1>3. InputsFit'
    BY <1>0, <1>2 DEF InputsFit, SettledHistory
<1>4. ScopedCalls' = ScopedCalls /\ AllCalls' = AllCalls
    BY <1>0, <1>2 DEF ScopedCalls, AllCalls, SettledHistory
<1>5. Exposure' <= Exposure
  <2>1. /\ Charges \in [1..Len(sent) -> Nat] /\ Len(sent) \in Nat /\ DOMAIN sent = 1..Len(sent)
        /\ Exposure = Total(Charges)
    BY FactsNow DEF Facts, ChargedFacts
  <2>2. Charges' \in [1..Len(sent') -> Nat] /\ Exposure' = Total(Charges')
    BY FactsNext DEF Facts, ChargedFacts
  <2>3. Len(sent') = Len(sent)
    BY <1>0 DEF SettledHistory
  <2>4. \A k \in 1..Len(sent) : Charges'[k] <= Charges[k]
    <3> TAKE k \in 1..Len(sent)
    <3>1. Charges'[k] = IF k \in ScopedCalls THEN Charge(sent'[k]) ELSE 0
      BY <1>0, <1>4 DEF Charges, SettledHistory
    <3>2. Charges[k] = IF k \in ScopedCalls THEN Charge(sent[k]) ELSE 0
      BY <2>1 DEF Charges
    <3>3. Charges[k] \in Nat /\ Charges'[k] \in Nat
      BY <2>1, <2>2, <2>3
    <3>4. CASE k # Len(sent)
      BY <1>0, <2>1, <3>1, <3>2, <3>3, <3>4 DEF SettledHistory
    <3>5. CASE k = Len(sent)
      <4>1. sent'[k] \in Calls /\ sent'[k] = LastCall' /\ sent[k] = LastCall /\ LastCall \in Calls
        BY <1>0, <2>1, <3>5 DEF SettledHistory
      <4>2. sent'[k].cost \in {Unpriced, MostOf(sent'[k])} /\ sent[k].cost \in {Unpriced, MostOf(sent[k])}
        BY <1>0, <4>1 DEF SettledHistory, SettledAs
      <4>3. Charge(sent'[k]) <= MostOf(sent'[k])
        BY <4>1, <4>2, ChargeBound
      <4>4. sent[k].cost = Unpriced /\ sent[k].status # "not_dispatched" /\ MostOf(sent'[k]) = MostOf(sent[k])
        BY <1>0, <4>1 DEF SettledHistory
      <4>5. Charge(sent[k]) = MostOf(sent[k])
        BY <4>1, <4>2, <4>4, ChargeBound
      <4> QED BY <3>1, <3>2, <3>3, <4>3, <4>4, <4>5
    <3> QED BY <3>4, <3>5
  <2> QED BY <2>1, <2>2, <2>3, <2>4, TotalAtMost
<1>6. Left' = Left
  <2>1. UsedActions(ScopedCalls)' = UsedActions(ScopedCalls)
    <3>1. ScopedCalls \subseteq DOMAIN sent
      BY DEF ScopedCalls, AllCalls
    <3> QED BY <1>0, <1>4, <3>1 DEF UsedActions, SettledHistory
  <2> QED BY <1>2, <2>1 DEF Left
<1>7. ReplayedEarly => ReplayedEarly'
  <2> SUFFICES ASSUME NEW i \in DOMAIN sent, sent[i].by = "step", ~sent[i].amending,
                      NEW j \in 1..PlaceOf(SlotsFor(design), sent[i].action),
                      SlotsFor(design)[j] \notin UsedActions(1..(i - 1))
               PROVE  ReplayedEarly'
    BY DEF ReplayedEarly
  <2>1. 1..(i - 1) \subseteq DOMAIN sent
    BY <1>0 DEF SettledHistory
  <2>2. UsedActions(1..(i - 1))' = UsedActions(1..(i - 1))
    BY <1>0, <2>1 DEF UsedActions, SettledHistory
  <2>3. sent'[i].by = "step" /\ ~sent'[i].amending /\ sent'[i].action = sent[i].action /\ i \in DOMAIN sent'
    BY <1>0 DEF SettledHistory
  <2> QED BY <1>2, <2>2, <2>3 DEF ReplayedEarly
<1>8. ~ReportOpen' /\ ~StepOpen'
  <2>1. LastCall.status \notin Over /\ Len(sent') = Len(sent) /\ LastCall = sent[Len(sent)]
    BY <1>0 DEF SettledHistory, Over
  <2> QED BY <1>2, <2>1 DEF ReportOpen, StepOpen, StepStands, ReportStands
<1>9. OpenReport' = 0 /\ OpenStep' = 0
    BY <1>8 DEF OpenReport, OpenStep
<1>10. Headroom'
  <2> SUFFICES ASSUME SpecInForce'.ok, ~ReplayedEarly'
               PROVE  Exposure' + Price' + OpenReport' + OpenStep' <= SpecInForce'.max
    BY DEF Headroom, Price
  <2>1. Price' = Price
    BY <1>2, <1>6 DEF Price
  <2>2. Exposure + Price + OpenReport + OpenStep <= SpecInForce.max
    BY <1>2, <1>7 DEF Headroom, Price
  <2>3. AmountFacts /\ AmountFacts'
    BY Amounts, AmountsNext
  <2>4. SpecInForce'.max = SpecInForce.max
    BY <1>2
  <2> QED BY <1>5, <1>9, <2>1, <2>2, <2>3, <2>4 DEF AmountFacts
<1> QED BY <1>3, <1>10

LEMMA SettledKeeps ==
  ASSUME BudgetInv, NEW st, NEW cost, SettledAs(st, cost)
  PROVE  BudgetInv'
<1>1. Ground /\ InFlight /\ ResumeFits /\ StepStands /\ ReportStands /\ ByReport /\ InOrder /\ InputsFit /\ Headroom
    BY DEF BudgetInv, Ground
<1>2. Ground' /\ InFlight' /\ ResumeFits'
    BY <1>1, SettledGround
<1>3. StepStands' /\ ReportStands'
    BY <1>1, SettledStands
<1>4. InOrder'
    BY <1>1, SettledOrder
<1>5. InputsFit' /\ Headroom'
    BY <1>1, <1>2, <1>3, SettledHeadroom
<1>6. ByReport'
  <2>1. SettledHistory(st, cost) /\ grants' = grants
    BY <1>1, SettledCalls DEF SettledAs
  <2> QED BY <1>1, <2>1 DEF ByReport, SettledHistory
<1> QED BY <1>2, <1>3, <1>4, <1>5, <1>6 DEF BudgetInv, Ground

-----------------------------------------------------------------------------
(* Every answer, and every failure, is such an end.                        *)

Onward(w) ==
    /\ w \in Progress /\ w.memory = progress.memory /\ w.amendment = progress.amendment
    /\ w.plan >= progress.plan

LEMMA OnwardNow ==
  ASSUME progress \in Progress
  PROVE  /\ Onward(progress)
         /\ \A n \in Nat : Onward([progress EXCEPT !.plan = @ + 1, !.planned = n])
         /\ Onward([progress EXCEPT !.written = progress.written + 1, !.text = @ + 1])
         /\ Onward([progress EXCEPT !.written = 1, !.handed = 1, !.complete = TRUE])
         /\ Onward([progress EXCEPT !.early = TRUE])
         /\ Onward([progress EXCEPT !.others = @ + 1])
         /\ Onward(Rewritten) /\ Onward(Partial)
<1>1. /\ progress.plan \in Nat /\ progress.written \in Nat /\ progress.text \in Nat /\ progress.others \in Nat
    BY DEF Progress
<1>2. Onward(progress)
    BY <1>1 DEF Onward
<1> DEFINE p == progress.plan + 1
           n1 == progress.written + 1
           t == progress.text + 1
           o == progress.others + 1
<1>3. p \in Nat /\ n1 \in Nat /\ t \in Nat /\ o \in Nat /\ p >= progress.plan
    BY <1>1
<1>4. /\ \A n \in Nat : [progress EXCEPT !.plan = @ + 1, !.planned = n] = [progress EXCEPT !.plan = p, !.planned = n]
      /\ [progress EXCEPT !.written = progress.written + 1, !.text = @ + 1]
            = [progress EXCEPT !.written = n1, !.text = t]
      /\ [progress EXCEPT !.others = @ + 1] = [progress EXCEPT !.others = o]
      /\ Rewritten = [progress EXCEPT !.written = 0, !.handed = 0, !.early = FALSE, !.text = t]
      /\ Partial = [progress EXCEPT !.written = n1, !.text = t, !.partial = TRUE]
    BY DEF Rewritten, Partial
<1> HIDE DEF p, n1, t, o
<1>5. \A n \in Nat : Onward([progress EXCEPT !.plan = p, !.planned = n])
    BY <1>3 DEF Onward, Progress
<1>6. Onward([progress EXCEPT !.written = n1, !.text = t])
  <2> DEFINE w == [progress EXCEPT !.written = n1, !.text = t]
  <2>1. w \in Progress
    BY <1>1, <1>3 DEF Progress
  <2>2. w.plan = progress.plan /\ w.memory = progress.memory /\ w.amendment = progress.amendment
    BY DEF Progress
  <2> HIDE DEF w
  <2>3. Onward(w)
    BY <1>1, <2>1, <2>2 DEF Onward
  <2> QED BY <2>3 DEF w
<1>7. Onward([progress EXCEPT !.written = 1, !.handed = 1, !.complete = TRUE])
  <2> DEFINE w == [progress EXCEPT !.written = 1, !.handed = 1, !.complete = TRUE]
  <2>1. w \in Progress
    BY <1>1 DEF Progress
  <2>2. w.plan = progress.plan /\ w.memory = progress.memory /\ w.amendment = progress.amendment
    BY DEF Progress
  <2> HIDE DEF w
  <2>3. Onward(w)
    BY <1>1, <2>1, <2>2 DEF Onward
  <2> QED BY <2>3 DEF w
<1>8. Onward([progress EXCEPT !.early = TRUE])
  <2> DEFINE w == [progress EXCEPT !.early = TRUE]
  <2>1. w \in Progress
    BY <1>1 DEF Progress
  <2>2. w.plan = progress.plan /\ w.memory = progress.memory /\ w.amendment = progress.amendment
    BY DEF Progress
  <2> HIDE DEF w
  <2>3. Onward(w)
    BY <1>1, <2>1, <2>2 DEF Onward
  <2> QED BY <2>3 DEF w
<1>9. Onward([progress EXCEPT !.others = o])
    BY <1>1, <1>3 DEF Onward, Progress
<1>10. Onward([progress EXCEPT !.written = 0, !.handed = 0, !.early = FALSE, !.text = t])
  <2> DEFINE w == [progress EXCEPT !.written = 0, !.handed = 0, !.early = FALSE, !.text = t]
  <2>1. w \in Progress
    BY <1>1, <1>3 DEF Progress
  <2>2. w.plan = progress.plan /\ w.memory = progress.memory /\ w.amendment = progress.amendment
    BY DEF Progress
  <2> HIDE DEF w
  <2>3. Onward(w)
    BY <1>1, <2>1, <2>2 DEF Onward
  <2> QED BY <2>3 DEF w
<1>11. Onward([progress EXCEPT !.written = n1, !.text = t, !.partial = TRUE])
  <2> DEFINE w == [progress EXCEPT !.written = n1, !.text = t, !.partial = TRUE]
  <2>1. w \in Progress
    BY <1>1, <1>3 DEF Progress
  <2>2. w.plan = progress.plan /\ w.memory = progress.memory /\ w.amendment = progress.amendment
    BY DEF Progress
  <2> HIDE DEF w
  <2>3. Onward(w)
    BY <1>1, <2>1, <2>2 DEF Onward
  <2> QED BY <2>3 DEF w
<1> QED BY <1>2, <1>4, <1>5, <1>6, <1>7, <1>8, <1>9, <1>10, <1>11

LEMMA OnwardMore ==
  ASSUME progress \in Progress, NEW w, Onward(w)
  PROVE  /\ Onward([w EXCEPT !.asked = TRUE]) /\ Onward([w EXCEPT !.held = TRUE])
         /\ Onward([w EXCEPT !.plan = @ + 1])
         /\ Onward([w EXCEPT !.compared = @ \cup {progress.handed}, !.comparedEarly = progress.early])
         /\ \A complete, chapter \in BOOLEAN :
              Onward([w EXCEPT !.handed = progress.written, !.complete = complete, !.chapter = @ \/ chapter])
<1>1. /\ w.plan \in Nat /\ progress.plan \in Nat /\ progress.handed \in Nat /\ progress.written \in Nat
      /\ progress.early \in BOOLEAN /\ w.compared \in SUBSET Nat /\ w.chapter \in BOOLEAN /\ w \in Progress
      /\ w.plan >= progress.plan
    BY DEF Progress, Onward
<1>2. Onward([w EXCEPT !.asked = TRUE]) /\ Onward([w EXCEPT !.held = TRUE])
    BY <1>1 DEF Onward, Progress
<1>3. Onward([w EXCEPT !.plan = @ + 1])
  <2> DEFINE p == w.plan + 1
  <2>1. p \in Nat /\ p >= progress.plan /\ [w EXCEPT !.plan = @ + 1] = [w EXCEPT !.plan = p]
    BY <1>1
  <2> HIDE DEF p
  <2>2. Onward([w EXCEPT !.plan = p])
    BY <1>1, <2>1 DEF Onward, Progress
  <2> QED BY <2>1, <2>2
<1>4. Onward([w EXCEPT !.compared = @ \cup {progress.handed}, !.comparedEarly = progress.early])
  <2> DEFINE c == w.compared \cup {progress.handed}
             e == progress.early
  <2>1. c \in SUBSET Nat /\ e \in BOOLEAN
        /\ [w EXCEPT !.compared = @ \cup {progress.handed}, !.comparedEarly = progress.early]
             = [w EXCEPT !.compared = c, !.comparedEarly = e]
    BY <1>1
  <2> HIDE DEF c, e
  <2>2. Onward([w EXCEPT !.compared = c, !.comparedEarly = e])
    BY <1>1, <2>1 DEF Onward, Progress
  <2> QED BY <2>1, <2>2
<1>5. ASSUME NEW complete \in BOOLEAN, NEW chapter \in BOOLEAN
      PROVE  Onward([w EXCEPT !.handed = progress.written, !.complete = complete, !.chapter = @ \/ chapter])
  <2> DEFINE h == progress.written
             c == w.chapter \/ chapter
  <2>1. h \in Nat /\ c \in BOOLEAN
        /\ [w EXCEPT !.handed = progress.written, !.complete = complete, !.chapter = @ \/ chapter]
             = [w EXCEPT !.handed = h, !.complete = complete, !.chapter = c]
    BY <1>1
  <2> HIDE DEF h, c
  <2>2. Onward([w EXCEPT !.handed = h, !.complete = complete, !.chapter = c])
    BY <1>1, <2>1 DEF Onward, Progress
  <2> QED BY <2>1, <2>2
<1> QED BY <1>2, <1>3, <1>4, <1>5

-----------------------------------------------------------------------------
(* Where a stage stands after a call.                                      *)

NextFits(st) ==
    /\ ~Running' /\ standing' = Stage(standing'.status, standing'.next, standing'.authorized)
    /\ Amended => \/ standing'.next \notin AmendmentActions
                  \/ standing'.next = NextAction(ActiveSlots, LastCall.action)
                  \/ LastCall.action = Only("amend") /\ standing'.next = Only("memory_amend")
                  \/ st \in Over /\ standing'.next # LastCall.action

LEMMA EndsIn ==
  ASSUME NEW w, NEW status, status # "running", NEW a, NEW b, NEW st, Outcome(w, Stage(status, a, b)),
         Amended => \/ a \notin AmendmentActions
                    \/ a = NextAction(ActiveSlots, LastCall.action)
                    \/ LastCall.action = Only("amend") /\ a = Only("memory_amend")
                    \/ st \in Over /\ a # LastCall.action
  PROVE  progress' = w /\ NextFits(st)
<1>1. progress' = w /\ standing' = Stage(status, a, b)
    BY DEF Outcome
<1>2. standing'.status = status /\ standing'.next = a /\ standing'.authorized = b
    BY <1>1 DEF Stage
<1> QED BY <1>1, <1>2 DEF NextFits, Running

LEMMA ThenEnds ==
  ASSUME NEW w, NEW a, NEW st, Outcome(w, Then(a)),
         Amended => \/ a \notin AmendmentActions
                    \/ a = NextAction(ActiveSlots, LastCall.action)
                    \/ LastCall.action = Only("amend") /\ a = Only("memory_amend")
                    \/ st \in Over /\ a # LastCall.action
  PROVE  progress' = w /\ NextFits(st)
<1> DEFINE s == IF a = NoStep THEN "needs_attention" ELSE "queued"
<1>1. Then(a) = Stage(s, a, standing.authorized) /\ s # "running"
    BY DEF Then
<1> HIDE DEF s
<1> QED BY <1>1, EndsIn

LEMMA ChooseEnds ==
  ASSUME NEW w, NEW st, Outcome(w, ChooseNext(w)), ~Amended
  PROVE  progress' = w /\ NextFits(st)
<1> DEFINE a == Following(w)
           s == IF a = NoStep THEN "needs_attention" ELSE "queued"
<1>1. ChooseNext(w) = Stage(s, a, standing.authorized) /\ s # "running"
    BY DEF ChooseNext
<1> HIDE DEF s, a
<1> QED BY <1>1, EndsIn

LEMMA ByAction ==
  ASSUME Ground, InFlight, Running
  PROVE  /\ Amended <=> LastCall.action \in AmendmentActions
         /\ LastCall \in Calls /\ LastCall.action \in Actions /\ LastCall.action \in ToSet(ActiveSlots)
         /\ progress \in Progress
<1>1. sent # <<>> /\ LastCall.amending = Amended
    BY DEF InFlight
<1>2. LastCall \in Calls /\ Len(sent) \in DOMAIN sent
    BY <1>1, LastIsCall DEF Ground
<1>3. LastCall = sent[Len(sent)]
    BY DEF LastCall
<1>4. LastCall.amending <=> LastCall.action \in AmendmentActions
    BY <1>2, <1>3 DEF Ground, History
<1>5. LastCall.action \in ToSet(SlotsIn(LastCall.amending))
    BY <1>2, <1>3 DEF Ground, History
<1>6. SlotsIn(Amended) = ActiveSlots
    BY FactsNow DEF Facts, ActiveFacts
<1> QED BY <1>1, <1>2, <1>4, <1>5, <1>6 DEF Calls, Ground, BudgetRows

LEMMA AnswerEnds ==
  ASSUME Ground, InFlight, Running,
         PlanDone \/ ChiefDone \/ WriterDone \/ MemoryDone \/ Rebuilt \/ EarlyReadDone \/ ReportDone \/ AmendDone
  PROVE  Onward(progress') /\ NextFits("completed")
<1>1. /\ Amended <=> LastCall.action \in AmendmentActions
      /\ progress \in Progress
    BY ByAction
<1>2. /\ Only("plan") \notin AmendmentActions /\ Only("reader_early") \notin AmendmentActions
      /\ \A a \in AmendmentActions : a[1] \notin {"chief", "write", "memory"}
    BY DEF AmendmentActions, Only
<1>3. CASE PlanDone
  <2>1. ~Amended
    BY <1>1, <1>2, <1>3 DEF PlanDone
  <2>2. PICK n \in {design.units - 1, design.units} \ {0} :
         LET w == [progress EXCEPT !.plan = @ + 1, !.planned = n]
         IN  \/ Outcome([w EXCEPT !.asked = TRUE], Stage("awaiting_plan", NoStep, standing.authorized))
             \/ Outcome(w, Stage("awaiting_plan", <<"write", 1>>, standing.authorized))
             \/ Outcome(w, ChooseNext(w))
    BY <1>3 DEF PlanDone
  <2>3. design.units \in Nat /\ n \in Nat
    <3>1. design.units \in Nat \ {0}
      BY DesignAssumption DEF Ground, BudgetRows
    <3> QED BY <3>1
  <2> DEFINE w == [progress EXCEPT !.plan = @ + 1, !.planned = n]
  <2>4. Onward(w)
    BY <1>1, <2>3, OnwardNow
  <2>5. /\ \/ Outcome([w EXCEPT !.asked = TRUE], Stage("awaiting_plan", NoStep, standing.authorized))
           \/ Outcome(w, Stage("awaiting_plan", <<"write", 1>>, standing.authorized))
           \/ Outcome(w, ChooseNext(w))
    BY <2>2
  <2> HIDE DEF w
  <2>6. Onward([w EXCEPT !.asked = TRUE])
    BY <1>1, <2>4, OnwardMore
  <2>7. CASE Outcome([w EXCEPT !.asked = TRUE], Stage("awaiting_plan", NoStep, standing.authorized))
    BY <2>1, <2>6, <2>7, EndsIn
  <2>8. CASE Outcome(w, Stage("awaiting_plan", <<"write", 1>>, standing.authorized))
    BY <2>1, <2>4, <2>8, EndsIn
  <2>9. CASE Outcome(w, ChooseNext(w))
    BY <2>1, <2>4, <2>9, ChooseEnds
  <2> QED BY <2>5, <2>7, <2>8, <2>9
<1>4. CASE ChiefDone
  <2>1. ~Amended
    BY <1>1, <1>2, <1>4 DEF ChiefDone
  <2> DEFINE w == [progress EXCEPT !.compared = @ \cup {progress.handed}, !.comparedEarly = progress.early]
             v == [w EXCEPT !.plan = @ + 1]
             u == [w EXCEPT !.held = TRUE]
  <2>2. Outcome(u, Stage("awaiting_plan", NoStep, standing.authorized)) \/ Outcome(v, ChooseNext(v))
    BY <1>4 DEF ChiefDone
  <2>3. Onward(w)
    BY <1>1, OnwardNow, OnwardMore
  <2> HIDE DEF w
  <2>4. Onward(u) /\ Onward(v)
    BY <1>1, <2>3, OnwardMore
  <2> HIDE DEF u, v
  <2>5. CASE Outcome(u, Stage("awaiting_plan", NoStep, standing.authorized))
    BY <2>1, <2>4, <2>5, EndsIn
  <2>6. CASE Outcome(v, ChooseNext(v))
    BY <2>1, <2>4, <2>6, ChooseEnds
  <2> QED BY <2>2, <2>5, <2>6
<1>5. CASE WriterDone
  <2>1. ~Amended
    BY <1>1, <1>2, <1>5 DEF WriterDone
  <2> DEFINE n == progress.written + 1
             w == [progress EXCEPT !.written = n, !.text = @ + 1]
  <2>2. Outcome(w, Then(<<"memory", n>>))
    BY <1>5 DEF WriterDone
  <2>3. Onward(w)
    BY <1>1, OnwardNow
  <2> HIDE DEF w, n
  <2> QED BY <2>1, <2>2, <2>3, ThenEnds
<1>6. CASE MemoryDone
  <2>1. ~Amended
    BY <1>1, <1>2, <1>6 DEF MemoryDone
  <2>2. PICK complete, chapter \in BOOLEAN :
         LET w == [progress EXCEPT !.handed = progress.written, !.complete = complete, !.chapter = @ \/ chapter]
         IN  Outcome(w, ChooseNext(w))
    BY <1>6 DEF MemoryDone
  <2> DEFINE w == [progress EXCEPT !.handed = progress.written, !.complete = complete, !.chapter = @ \/ chapter]
  <2>3. Outcome(w, ChooseNext(w))
    BY <2>2
  <2>4. Onward(w)
    BY <1>1, OnwardNow, OnwardMore
  <2> HIDE DEF w
  <2> QED BY <2>1, <2>3, <2>4, ChooseEnds
<1>7. CASE Rebuilt
  <2> DEFINE w == [progress EXCEPT !.written = 1, !.handed = 1, !.complete = TRUE]
             a == NextAction(ActiveSlots, LastCall.action)
  <2>1. Outcome(w, Then(a))
    BY <1>7 DEF Rebuilt
  <2>2. Onward(w)
    BY <1>1, OnwardNow
  <2> HIDE DEF w
  <2>3. progress' = w /\ NextFits("completed")
    BY <2>1, ThenEnds
  <2> QED BY <2>2, <2>3
<1>8. CASE EarlyReadDone
  <2>1. ~Amended
    BY <1>1, <1>2, <1>8 DEF EarlyReadDone
  <2> DEFINE w == [progress EXCEPT !.early = TRUE]
  <2>2. Outcome(w, ChooseNext(w))
    BY <1>8 DEF EarlyReadDone
  <2>3. Onward(w)
    BY <1>1, OnwardNow
  <2> HIDE DEF w
  <2> QED BY <2>1, <2>2, <2>3, ChooseEnds
<1>9. CASE ReportDone
  <2>1. Outcome(progress, Then(NextAction(ActiveSlots, LastCall.action)))
    BY <1>9 DEF ReportDone
  <2>2. progress' = progress /\ NextFits("completed")
    BY <2>1, ThenEnds
  <2> QED BY <1>1, <2>2, OnwardNow
<1>10. CASE AmendDone
  <2>1. PICK w \in {progress, Rewritten} : Outcome(w, Then(Only("memory_amend")))
    BY <1>10 DEF AmendDone
  <2>2. LastCall.action = Only("amend")
    BY <1>10 DEF AmendDone
  <2>3. progress' = w /\ NextFits("completed")
    BY <2>1, <2>2, ThenEnds
  <2> QED BY <1>1, <2>1, <2>3, OnwardNow
<1> QED BY <1>3, <1>4, <1>5, <1>6, <1>7, <1>8, <1>9, <1>10

LEMMA AnswerSettles ==
  ASSUME Ground, InFlight, Answer
  PROVE  \E cost : SettledAs("completed", cost)
<1>1. PICK cost \in {MostOf(LastCall), Unpriced} : Complete(cost)
    BY DEF Answer
<1>2. Onward(progress') /\ NextFits("completed") /\ Running
    BY <1>1, AnswerEnds DEF Answer, Complete
<1>3. "completed" \notin Over
    BY DEF Over
<1>4. SettledAs("completed", cost)
    BY <1>1, <1>2, <1>3 DEF SettledAs, Answer, Complete, Onward, NextFits
<1> QED BY <1>4

LEMMA FailureSettles ==
  ASSUME Ground, InFlight, ResumeFits, CallFails
  PROVE  \E st, cost : SettledAs(st, cost)
<1>1. Running /\ design' = design /\ grants' = grants
    BY DEF CallFails
<1>2. /\ Amended <=> LastCall.action \in AmendmentActions
      /\ progress \in Progress /\ sent # <<>> /\ LastCall.status = "executing" /\ progress = resume.before
    BY <1>1, ByAction DEF InFlight
<1>3. resume \in [before : Progress, after : Progress]
      /\ resume.before.plan = resume.after.plan /\ resume.before.memory = resume.after.memory
      /\ resume.before.amendment = resume.after.amendment
    BY <1>2 DEF Ground, BudgetRows, ResumeFits
<1>4. Recorded(resume)
    BY <1>3 DEF Recorded
<1>5. ASSUME NEW w, Onward(w), w.plan = progress.plan, progress' = w, resume' = [resume EXCEPT !.after = w]
      PROVE  Recorded(resume') /\ resume'.before = resume.before
  <2>1. w \in Progress /\ w.memory = progress.memory /\ w.amendment = progress.amendment
    BY <1>5 DEF Onward
  <2>2. resume'.before = progress /\ resume'.after = w /\ resume' \in [before : Progress, after : Progress]
    BY <1>2, <1>3, <1>5, <2>1
  <2> QED BY <1>2, <1>5, <2>1, <2>2 DEF Recorded
<1>6. /\ Onward(progress) /\ Onward(Partial) /\ Partial.plan = progress.plan
      /\ Onward([progress EXCEPT !.others = @ + 1]) /\ [progress EXCEPT !.others = @ + 1].plan = progress.plan
    BY <1>2, OnwardNow DEF Partial, Progress
<1>7. NoStep \notin AmendmentActions
    BY DEF NoStep, AmendmentActions, Only
<1>8. /\ \A x \in {"local_failure", "exhausted", "outcome_uncertain", "failed", "not_dispatched"} : x \in Over
    BY DEF Over
<1>9. ASSUME NEW cost \in {MostOf(LastCall), Unpriced}, Invalid(cost)
      PROVE  SettledAs("local_failure", cost)
  <2>1. Settle("local_failure", cost) /\ resume' = [resume EXCEPT !.after = progress']
    BY <1>9 DEF Invalid
  <2>2. CASE ReaderContinues(LastCall)
    <3> DEFINE w == [progress EXCEPT !.others = @ + 1]
    <3>1. Outcome(w, Then(Reader))
      BY <1>9, <2>2 DEF Invalid
    <3>2. Reader # LastCall.action
      BY <2>2 DEF ReaderContinues, Reader, RoleFor, Only
    <3>3. Onward(w) /\ w.plan = progress.plan
      BY <1>6
    <3> HIDE DEF w
    <3>4. progress' = w /\ NextFits("local_failure")
      BY <1>8, <3>1, <3>2, ThenEnds
    <3>5. Recorded(resume') /\ resume'.before = resume.before
      BY <1>5, <2>1, <3>3, <3>4
    <3> QED BY <1>1, <1>8, <2>1, <3>3, <3>4, <3>5 DEF SettledAs, Onward, NextFits
  <2>3. CASE ~ReaderContinues(LastCall)
    <3>1. Outcome(progress, Stage("needs_attention", NoStep, standing.authorized))
      BY <1>9, <2>3 DEF Invalid, LocalFailure, Outcome
    <3>2. progress' = progress /\ NextFits("local_failure")
      BY <1>7, <3>1, EndsIn
    <3>3. Recorded(resume') /\ resume'.before = resume.before
      BY <1>5, <1>6, <2>1, <3>2
    <3> QED BY <1>1, <1>6, <1>8, <2>1, <3>2, <3>3 DEF SettledAs, Onward, NextFits
  <2> QED BY <2>2, <2>3
<1>10. ASSUME NEW cost \in {MostOf(LastCall), Unpriced}, Exhaust(cost)
       PROVE  SettledAs("exhausted", cost)
  <2>1. Settle("exhausted", cost) /\ resume' = [resume EXCEPT !.after = progress']
    BY <1>10 DEF Exhaust
  <2>2. PICK w \in {progress, Partial} : Outcome(w, Stage("needs_attention", NoStep, standing.authorized))
    BY <1>10 DEF Exhaust, LocalFailure, Outcome
  <2>3. progress' = w /\ NextFits("exhausted") /\ Onward(w) /\ w.plan = progress.plan
    BY <1>6, <1>7, <2>2, EndsIn
  <2>4. Recorded(resume') /\ resume'.before = resume.before
    BY <1>5, <2>1, <2>3
  <2> QED BY <1>1, <1>8, <2>1, <2>3, <2>4 DEF SettledAs, Onward, NextFits
<1>11. ASSUME LoseAnswer
       PROVE  SettledAs("outcome_uncertain", Unpriced)
  <2>1. Settle("outcome_uncertain", Unpriced) /\ resume' = [resume EXCEPT !.after = progress']
    BY <1>11 DEF LoseAnswer
  <2>2. PICK w \in {progress, Partial} : Outcome(w, Stage("outcome_uncertain", NoStep, standing.authorized))
    <3>1. progress' \in {progress, Partial} /\ standing' = Stage("outcome_uncertain", NoStep, standing.authorized)
      BY <1>11 DEF LoseAnswer
    <3> QED BY <3>1 DEF Outcome
  <2>3. progress' = w /\ NextFits("outcome_uncertain") /\ Onward(w) /\ w.plan = progress.plan
    BY <1>6, <1>7, <2>2, EndsIn
  <2>4. Recorded(resume') /\ resume'.before = resume.before
    BY <1>5, <2>1, <2>3
  <2> QED BY <1>1, <1>8, <2>1, <2>3, <2>4 DEF SettledAs, Onward, NextFits
<1>12. ASSUME FinishError
       PROVE  \E st : SettledAs(st, Unpriced)
  <2>1. PICK st \in {"failed", "not_dispatched"} : Settle(st, Unpriced)
    BY <1>12 DEF FinishError
  <2>2. Outcome(progress, Stage("failed", NoStep, standing.authorized)) /\ resume' = resume
    BY <1>12 DEF FinishError
  <2>3. progress' = progress /\ NextFits(st)
    BY <1>7, <2>2, EndsIn
  <2>4. Recorded(resume') /\ resume'.before = resume.before
    BY <1>4, <2>2
  <2>5. SettledAs(st, Unpriced)
    BY <1>1, <1>6, <1>8, <2>1, <2>3, <2>4 DEF SettledAs, Onward, NextFits
  <2> QED BY <2>5
<1> QED BY <1>9, <1>10, <1>11, <1>12 DEF CallFails

-----------------------------------------------------------------------------
(* A claim sends an action in its slot for the first time, or repeats the  *)
(* last call by the authorization for it.                                  *)

FirstCall(c) ==
    /\ c.by = "slot" /\ c.replaces = 0 /\ c.slot = SlotFor(c.action, Amended)
    /\ c.action \notin UsedActions(AllCalls)
    /\ c.input = SpecInForce.limits.input /\ c.output = OutputOf(SpecInForce.limits, c.action)
    /\ ~RecoverySlot /\ ~ReplayPending

Repeats(c) ==
    /\ sent # <<>> /\ c.replaces = Len(sent) /\ LastCall.action = c.action /\ LastCall.status \in Over
    /\ LastCall.amending = Amended

ReportCall(c) ==
    /\ c.by = "memory" /\ ReportOpen /\ Repeats(c) /\ ~ReplayPending
    /\ c.slot = grants.memory[1].slot
    /\ c.input = SpecInForce.limits.input /\ c.output = SpecInForce.limits.memory

StepCall(c) ==
    /\ c.by = "step" /\ Repeats(c) /\ ReplayPending
    /\ ~Taken(grants.step[1].slot) /\ grants.step[1].failed = Len(sent)
    /\ c.slot = grants.step[1].slot
    /\ progress = grants.step[1].restore
    /\ c.input = LastCall.input /\ c.output = LastCall.output

Claims(c) ==
    /\ Push(c) /\ UNCHANGED <<design, grants>> /\ ~Running
    /\ c \in Calls /\ c.status = "executing" /\ c.cost = Unpriced /\ c.amending = Amended
    /\ c.action = standing.next /\ c.action \in ToSet(ActiveSlots) /\ standing.next # NoStep
    /\ FirstCall(c) \/ ReportCall(c) \/ StepCall(c)

LEMMA UsedInSlot ==
  ASSUME Ground, NEW a \in UsedActions(AllCalls)
  PROVE  Taken(SlotFor(a, a \in AmendmentActions))
<1>1. PICK i \in DOMAIN sent : sent[i].action = a
    BY DEF UsedActions, AllCalls
<1>2. PICK j \in 1..i : sent[j].by = "slot" /\ sent[j].action = sent[i].action
    BY DEF Ground, History
<1>3. DOMAIN sent = 1..Len(sent) /\ Len(sent) \in Nat
    BY DEF Ground, BudgetRows
<1>4. j \in DOMAIN sent
    BY <1>3
<1>5. sent[j].slot = SlotFor(sent[j].action, sent[j].amending) /\ (sent[j].amending <=> sent[j].action \in AmendmentActions)
    BY <1>2, <1>4 DEF Ground, History
<1>6. sent[j].amending \in BOOLEAN
  <2>1. sent[j] \in Calls
    BY <1>4 DEF Ground, BudgetRows
  <2> QED BY <2>1 DEF Calls
<1>7. sent[j].slot = SlotFor(a, a \in AmendmentActions)
    BY <1>1, <1>2, <1>5, <1>6
<1> QED BY <1>4, <1>7 DEF Taken

LEMMA ActiveAmending ==
  ASSUME Ground, NEW a \in ToSet(ActiveSlots)
  PROVE  (a \in AmendmentActions) = Amended /\ a \in Actions
<1>1. (~Amended => ToSet(ActiveSlots) \subseteq StageActions)
      /\ (Amended => ToSet(ActiveSlots) \subseteq AmendmentActions) /\ Amended \in BOOLEAN
    BY FactsNow DEF Facts, ActiveFacts
<1> QED BY <1>1, NotAmending, StageIsActions

LEMMA PlaceInNat ==
  ASSUME Ground, NEW a \in ToSet(ActiveSlots)
  PROVE  PlaceOf(ActiveSlots, a) \in 1..Len(ActiveSlots) /\ Len(ActiveSlots) \in Nat
         /\ SlotFor(a, Amended) \in Nat
         /\ SlotFor(a, Amended) = PlaceOf(ActiveSlots, a) - 1 + (IF Amended THEN 100 ELSE 0)
<1>1. ActiveSlots \in Seq(Actions)
    BY FactsNow DEF Facts, ActiveFacts
<1>2. SlotsIn(Amended) = ActiveSlots
    BY FactsNow DEF Facts, ActiveFacts
<1> HIDE DEF ActiveSlots
<1>3. PlaceOf(ActiveSlots, a) \in 1..Len(ActiveSlots) /\ Len(ActiveSlots) \in Nat
    BY <1>1, PlaceIs
<1>4. SlotFor(a, Amended) = PlaceOf(ActiveSlots, a) - 1 + (IF Amended THEN 100 ELSE 0)
    BY <1>2 DEF SlotFor
<1> QED BY <1>3, <1>4

LEMMA SendClaims ==
  ASSUME Ground, ReportStands, ClaimSlot, ClaimFits, ~ReplayPending
  PROVE  \E c : Claims(c)
<1> DEFINE a == standing.next
           c == [action |-> a, slot |-> SlotOf(a), status |-> "executing", cost |-> Unpriced,
          input |-> SpecInForce.limits.input, output |-> OutputOf(SpecInForce.limits, a),
          amending |-> Amended,
          replaces |-> IF RecoverySlot THEN grants.memory[1].failed ELSE 0,
          by |-> IF RecoverySlot THEN "memory" ELSE "slot"]
<1>1. Push(c) /\ UNCHANGED <<design, grants>> /\ ~Running /\ a # NoStep
    BY DEF ClaimSlot, Send, Running
<1>2. a \in ToSet(ActiveSlots) /\ ~Taken(SlotOf(a)) /\ (RecoverySlot => grants.memory[1].bindings = Bindings(progress))
    BY DEF ClaimFits
<1>3. SpecInForce.limits \in Limits
    BY FactsNow DEF Facts, InForceFacts, Specs
<1>4. SpecInForce.limits.input \in 1..2 /\ SpecInForce.limits.memory \in 1..2
      /\ OutputOf(SpecInForce.limits, a) \in 1..2
    BY <1>3 DEF Limits, OutputOf
<1>5. a \in Actions /\ (a \in AmendmentActions) = Amended /\ Amended \in BOOLEAN
    BY <1>2, ActiveAmending DEF Amended
<1>6. c.action = a /\ c.slot = SlotOf(a) /\ c.status = "executing" /\ c.cost = Unpriced
      /\ c.input = SpecInForce.limits.input /\ c.output = OutputOf(SpecInForce.limits, a) /\ c.amending = Amended
      /\ c.replaces = (IF RecoverySlot THEN grants.memory[1].failed ELSE 0)
      /\ c.by = IF RecoverySlot THEN "memory" ELSE "slot"
    OBVIOUS
<1>7. CASE ~RecoverySlot
  <2>1. SlotOf(a) = SlotFor(a, Amended) /\ SlotOf(a) \in Nat
    BY <1>2, <1>7, PlaceInNat DEF SlotOf
  <2>2. a \notin UsedActions(AllCalls)
    BY <1>2, <1>5, <2>1, UsedInSlot
  <2>3. c \in Calls
    BY <1>4, <1>5, <1>7, <2>1 DEF Calls, Unpriced
  <2> HIDE DEF c
  <2>4. FirstCall(c)
    BY <1>6, <1>7, <2>1, <2>2 DEF FirstCall
  <2> QED BY <1>1, <1>2, <1>6, <2>3, <2>4 DEF Claims
<1>8. CASE RecoverySlot
  <2> DEFINE g == grants.memory[1]
  <2>1. grants.memory # <<>> /\ g.action = a /\ SlotOf(a) = g.slot /\ ~Taken(g.slot)
    BY <1>2, <1>8 DEF RecoverySlot, SlotOf
  <2>2. g \in ReportGrants
    BY <2>1 DEF Ground, BudgetRows
  <2>3. g.slot \in Nat /\ g.failed \in Nat
    BY <2>2 DEF ReportGrants
  <2>4. /\ g.failed \in DOMAIN sent /\ sent[g.failed].status \in Over
        /\ sent[g.failed].action = g.action /\ sent[g.failed].amending = g.amending
        /\ RoleFor(g.action) = "memory"
        /\ Course(progress) > BoundAt(g.bindings) \/ g.failed = Len(sent)
    BY <2>1 DEF ReportStands
  <2>5. Course(progress) = BoundAt(g.bindings) /\ Course(progress) \in Nat
    <3>1. g.bindings = <<progress.plan, progress.written, progress.handed, progress.input, progress.amendment, progress.text>>
      BY <1>2, <1>8 DEF Bindings
    <3>2. progress \in Progress
      BY DEF Ground, BudgetRows
    <3> QED BY <3>1, <3>2, MarkNat DEF Course, BoundAt
  <2>6. g.failed = Len(sent) /\ LastCall = sent[g.failed]
    BY <2>4, <2>5 DEF LastCall
  <2>7. g.amending = Amended
    <3>1. sent[g.failed] \in Calls /\ (sent[g.failed].amending <=> sent[g.failed].action \in AmendmentActions)
      BY <2>4 DEF Ground, BudgetRows, History
    <3>2. sent[g.failed].amending \in BOOLEAN
      BY <3>1 DEF Calls
    <3> QED BY <1>5, <2>1, <2>4, <3>1, <3>2
  <2>8. c \in Calls
    BY <1>4, <1>5, <1>8, <2>1, <2>3 DEF Calls, Unpriced
  <2> HIDE DEF c
  <2>9. ReportOpen
    BY <2>1, <2>6, <2>7 DEF ReportOpen
  <2>10. Repeats(c)
    BY <1>6, <1>8, <2>1, <2>4, <2>6, <2>7 DEF Repeats
  <2>11. OutputOf(SpecInForce.limits, a) = SpecInForce.limits.memory
    BY <2>1, <2>4 DEF OutputOf
  <2>12. ReportCall(c)
    BY <1>6, <1>8, <2>1, <2>9, <2>10, <2>11 DEF ReportCall
  <2> QED BY <1>1, <1>2, <1>6, <2>8, <2>12 DEF Claims
<1> QED BY <1>7, <1>8

LEMMA ReplayClaims ==
  ASSUME Ground, StepStands, ClaimSlot, ClaimFits, ReplayPending
  PROVE  \E c : Claims(c)
<1> DEFINE g == grants.step[1]
           f == sent[g.failed]
           c == [f EXCEPT !.slot = g.slot, !.status = "executing",
             !.cost = Unpriced, !.replaces = g.failed, !.by = "step"]
<1>1. Push(c) /\ UNCHANGED <<design, grants>> /\ ~Running /\ standing.next # NoStep
    BY DEF ClaimSlot, Replay, Running
<1>2. standing.next \in ToSet(ActiveSlots) /\ ~Taken(g.slot) /\ progress = g.restore
    BY DEF ClaimFits, ReplayFits
<1>3. grants.step # <<>> /\ g.action = standing.next /\ g.amending = Amended
    BY DEF ReplayPending
<1>4. g \in StepGrants /\ g.slot \in Nat /\ g.failed \in Nat
    BY <1>3 DEF Ground, BudgetRows, StepGrants
<1>5. /\ g.failed \in DOMAIN sent /\ sent[g.failed].status \in Over
      /\ sent[g.failed].action = g.action /\ sent[g.failed].amending = g.amending
      /\ g.failed = Len(sent)
  <2>1. progress \in Progress
    BY DEF Ground, BudgetRows
  <2>2. Mark(progress) = Mark(g.restore) /\ Mark(progress) \in Nat
    BY <1>2, <2>1, MarkNat
  <2> QED BY <1>2, <1>3, <2>2 DEF StepStands
<1>6. f \in Calls /\ f = LastCall
    BY <1>5 DEF Ground, BudgetRows, LastCall
<1>7. c.action = f.action /\ c.slot = g.slot /\ c.status = "executing" /\ c.cost = Unpriced
      /\ c.input = f.input /\ c.output = f.output /\ c.amending = f.amending
      /\ c.replaces = g.failed /\ c.by = "step"
    BY <1>6 DEF Calls
<1>8. c \in Calls
  <2> DEFINE x == g.slot
             y == g.failed
  <2>1. c = [f EXCEPT !.slot = x, !.status = "executing", !.cost = Unpriced, !.replaces = y, !.by = "step"]
    OBVIOUS
  <2>2. x \in Nat /\ y \in Nat /\ Unpriced \in Int
    BY <1>4 DEF Unpriced
  <2> HIDE DEF c, f, x, y
  <2> QED BY <1>6, <2>1, <2>2 DEF Calls
<1> HIDE DEF c, f
<1>9. Repeats(c)
    BY <1>3, <1>5, <1>6, <1>7 DEF Repeats, f
<1>10. StepCall(c)
    BY <1>2, <1>5, <1>6, <1>7, <1>9 DEF StepCall
<1> QED BY <1>1, <1>2, <1>3, <1>5, <1>7, <1>8, <1>10 DEF Claims, f

LEMMA ClaimClaims ==
  ASSUME Ground, StepStands, ReportStands, ClaimSlot, ClaimFits
  PROVE  \E c : Claims(c)
BY SendClaims, ReplayClaims

-----------------------------------------------------------------------------
(* What stands after a claim.                                              *)

LongerFacts(c) ==
    /\ sent \in Seq(Calls) /\ Len(sent) \in Nat /\ DOMAIN sent = 1..Len(sent)
    /\ sent' = Append(sent, c) /\ sent' \in Seq(Calls) /\ sent' # <<>>
    /\ Len(sent') = Len(sent) + 1 /\ DOMAIN sent' = 1..(Len(sent) + 1)
    /\ DOMAIN sent' = DOMAIN sent \cup {Len(sent) + 1} /\ Len(sent) + 1 \notin DOMAIN sent
    /\ \A i \in DOMAIN sent : sent'[i] = sent[i] /\ i # Len(sent') /\ i < Len(sent')
    /\ sent'[Len(sent) + 1] = c /\ LastCall' = c

LEMMA ClaimLonger ==
  ASSUME Ground, NEW c, Claims(c)
  PROVE  LongerFacts(c) /\ SameBudget /\ progress' = progress /\ progress \in Progress
         /\ Running' /\ standing'.next = standing.next
         /\ standing' = Stage(standing'.status, standing'.next, standing'.authorized)
         /\ resume' = [before |-> progress, after |-> progress]
<1>1. sent \in Seq(Calls) /\ c \in Calls /\ sent' = Append(sent, c)
    BY DEF Ground, BudgetRows, Claims, Push
<1>2. Len(sent) \in Nat /\ DOMAIN sent = 1..Len(sent) /\ sent' \in Seq(Calls) /\ Len(sent') = Len(sent) + 1
      /\ sent'[Len(sent) + 1] = c /\ \A i \in 1..Len(sent) : sent'[i] = sent[i]
    BY <1>1
<1>3. sent' # <<>> /\ DOMAIN sent' = 1..(Len(sent) + 1) /\ LastCall' = c
    BY <1>2 DEF LastCall
<1>4. LongerFacts(c)
    BY <1>1, <1>2, <1>3 DEF LongerFacts
<1>5. standing' = [standing EXCEPT !.status = "running"]
      /\ standing = Stage(standing.status, standing.next, standing.authorized)
    BY DEF Claims, Push, Ground, BudgetRows
<1>6. standing' = Stage("running", standing.next, standing.authorized)
    BY <1>5 DEF Stage
<1>7. standing'.status = "running" /\ standing'.next = standing.next /\ standing'.authorized = standing.authorized
    BY <1>6 DEF Stage
<1>8. SameBudget /\ progress' = progress /\ progress \in Progress
    BY DEF SameBudget, Amended, Claims, Push, Ground, BudgetRows
<1> QED BY <1>4, <1>6, <1>7, <1>8 DEF Claims, Push, Running

LEMMA RepeatOnly ==
  ASSUME Ground, NEW c, Claims(c)
  PROVE  /\ \A i \in DOMAIN sent : sent[i].action = c.action => sent[i].status \in Over
         /\ c.by # "slot" => Repeats(c)
         /\ c.by = "slot" => FirstCall(c)
         /\ Repeats(c) => \E j \in 1..Len(sent) : sent[j].by = "slot" /\ sent[j].action = c.action
<1>1. DOMAIN sent = 1..Len(sent) /\ Len(sent) \in Nat
    BY DEF Ground, BudgetRows
<1>2. c.by # "slot" => Repeats(c)
    BY DEF Claims, FirstCall, ReportCall, StepCall
<1>3. c.by = "slot" => FirstCall(c)
    BY DEF Claims, FirstCall, ReportCall, StepCall
<1>4. ASSUME Repeats(c)
      PROVE  Len(sent) \in DOMAIN sent /\ LastCall = sent[Len(sent)]
    BY <1>4, LastIsCall DEF Repeats, Ground, LastCall
<1>5. ASSUME NEW i \in DOMAIN sent, sent[i].action = c.action
      PROVE  sent[i].status \in Over
  <2>1. c.action \in UsedActions(AllCalls)
    BY <1>5 DEF UsedActions, AllCalls
  <2>2. Repeats(c)
    BY <1>2, <1>3, <2>1 DEF FirstCall
  <2>3. Len(sent) \in DOMAIN sent /\ sent[Len(sent)].action = c.action /\ sent[Len(sent)].status \in Over
    BY <1>4, <2>2 DEF Repeats
  <2>4. CASE i = Len(sent)
    BY <2>3, <2>4
  <2>5. CASE i < Len(sent)
    BY <1>5, <2>3, <2>5 DEF Ground, History
  <2> QED BY <1>1, <2>4, <2>5
<1>6. ASSUME Repeats(c)
      PROVE  \E j \in 1..Len(sent) : sent[j].by = "slot" /\ sent[j].action = c.action
    BY <1>4, <1>6 DEF Ground, History, Repeats
<1> QED BY <1>2, <1>3, <1>5, <1>6

LEMMA ClaimGround ==
  ASSUME Ground, InFlight, ResumeFits, NEW c, Claims(c)
  PROVE  Ground' /\ InFlight' /\ ResumeFits'
<1>0. LongerFacts(c) /\ SameBudget /\ progress' = progress /\ progress \in Progress
      /\ Running' /\ standing'.next = standing.next
      /\ standing' = Stage(standing'.status, standing'.next, standing'.authorized)
      /\ resume' = [before |-> progress, after |-> progress]
    BY ClaimLonger
<1>1. c \in Calls /\ c.status = "executing" /\ c.cost = Unpriced /\ c.amending = Amended /\ c.action \in ToSet(ActiveSlots)
      /\ grants' = grants /\ design' = design
    BY DEF Claims
<1>2. BudgetRows'
    BY <1>0, <1>1 DEF Ground, BudgetRows, LongerFacts
<1>3. AmendmentFits'
    BY <1>1 DEF Ground, AmendmentFits
<1>4. GrantsGiven'
    BY <1>0, <1>1 DEF Ground, GrantsGiven, SameBudget
<1>5. History'
  <2>1. \A b \in BOOLEAN : SlotsIn(b)' = SlotsIn(b)
    BY <1>0, SameInForce
  <2>2. \A i \in DOMAIN sent : sent[i].amending \in BOOLEAN
    <3>1. \A i \in DOMAIN sent : sent[i] \in Calls
      BY DEF Ground, BudgetRows
    <3> QED BY <3>1 DEF Calls
  <2>3. Amended' = Amended /\ Amended \in BOOLEAN
    BY <1>0 DEF SameBudget, Amended
  <2>4. \A i \in DOMAIN sent : sent[i].action = c.action => sent[i].status \in Over
    BY RepeatOnly
  <2>5. ASSUME NEW i \in DOMAIN sent
        PROVE  /\ sent'[i].cost \in {Unpriced, MostOf(sent'[i])}
               /\ sent'[i].status \in Over \cup {"executing", "completed"}
               /\ sent'[i].status # "executing"
               /\ sent'[i].amending <=> sent'[i].action \in AmendmentActions
               /\ sent'[i].amending => Amended'
               /\ sent'[i].action \in ToSet(SlotsIn(sent[i].amending)')
               /\ sent'[i].by = "slot" => sent'[i].replaces = 0 /\ sent'[i].slot = SlotFor(sent[i].action, sent[i].amending)'
               /\ sent'[i].by # "slot" => /\ i > 1 /\ sent'[i].replaces = i - 1
                                   /\ sent'[i - 1].action = sent'[i].action
               /\ \E j \in 1..i : sent'[j].by = "slot" /\ sent'[j].action = sent'[i].action
               /\ \A j \in DOMAIN sent' : i < j /\ sent'[j].action = sent'[i].action => sent'[i].status \in Over
    <3>1. sent'[i] = sent[i]
      BY <1>0 DEF LongerFacts
    <3>2. /\ sent[i].cost \in {Unpriced, MostOf(sent[i])}
          /\ sent[i].status \in Over \cup {"executing", "completed"}
          /\ sent[i].status # "executing"
          /\ sent[i].amending <=> sent[i].action \in AmendmentActions
          /\ sent[i].amending => Amended
          /\ sent[i].action \in ToSet(SlotsIn(sent[i].amending))
          /\ sent[i].by = "slot" => sent[i].replaces = 0 /\ sent[i].slot = SlotFor(sent[i].action, sent[i].amending)
          /\ sent[i].by # "slot" => i > 1 /\ sent[i].replaces = i - 1 /\ sent[i - 1].action = sent[i].action
          /\ \E j \in 1..i : sent[j].by = "slot" /\ sent[j].action = sent[i].action
      BY DEF Ground, History, Claims
    <3>3. SlotsIn(sent[i].amending)' = SlotsIn(sent[i].amending)
      <4>1. sent[i].amending \in BOOLEAN
        BY <2>2
      <4>2. sent'[i].amending = sent[i].amending
        BY <3>1
      <4> QED BY <2>1, <4>1, <4>2 DEF SlotsIn
    <3>4. SlotFor(sent[i].action, sent[i].amending)' = SlotFor(sent[i].action, sent[i].amending)
      BY <3>1, <3>3 DEF SlotFor
    <3>5. i \in 1..Len(sent) /\ \A j \in 1..i : sent'[j] = sent[j]
      BY <1>0 DEF LongerFacts
    <3>6. sent[i].by # "slot" => sent'[i - 1] = sent[i - 1]
      BY <1>0, <3>2, <3>5
    <3>7. \A j \in DOMAIN sent' : i < j /\ sent'[j].action = sent'[i].action => sent'[i].status \in Over
      <4> SUFFICES ASSUME NEW j \in DOMAIN sent', i < j, sent'[j].action = sent'[i].action
                   PROVE  sent'[i].status \in Over
        OBVIOUS
      <4>1. CASE j \in DOMAIN sent
        BY <1>0, <3>1, <4>1 DEF Ground, History, LongerFacts
      <4>2. CASE j = Len(sent) + 1
        BY <1>0, <2>4, <3>1, <4>2 DEF LongerFacts
      <4> QED BY <1>0, <4>1, <4>2 DEF LongerFacts
    <3> QED BY <2>3, <3>1, <3>2, <3>3, <3>4, <3>5, <3>6, <3>7
  <2>6. /\ (c.amending <=> c.action \in AmendmentActions) /\ (c.amending => Amended')
        /\ c.action \in ToSet(SlotsIn(c.amending)')
        /\ c.by = "slot" => c.replaces = 0 /\ c.slot = SlotFor(c.action, c.amending)'
        /\ c.by # "slot" => /\ Len(sent) + 1 > 1 /\ c.replaces = Len(sent)
                            /\ sent'[Len(sent)].action = c.action
        /\ \E j \in 1..(Len(sent) + 1) : sent'[j].by = "slot" /\ sent'[j].action = c.action
    <3>1. (c.action \in AmendmentActions) = Amended
      BY <1>1, ActiveAmending
    <3>2. SlotsIn(Amended) = ActiveSlots
      BY FactsNow DEF Facts, ActiveFacts
    <3>3. SlotsIn(c.amending)' = ActiveSlots
      <4>1. SlotsIn(TRUE)' = SlotsIn(TRUE) /\ SlotsIn(FALSE)' = SlotsIn(FALSE)
        BY <2>1
      <4>2. CASE Amended = TRUE
        BY <1>1, <2>3, <3>2, <4>1, <4>2 DEF SlotsIn
      <4>3. CASE Amended = FALSE
        BY <1>1, <2>3, <3>2, <4>1, <4>3 DEF SlotsIn
      <4> QED BY <2>3, <4>2, <4>3
    <3>4. c.by = "slot" => c.replaces = 0 /\ c.slot = SlotFor(c.action, c.amending)'
      <4> SUFFICES ASSUME c.by = "slot" PROVE c.replaces = 0 /\ c.slot = SlotFor(c.action, c.amending)'
        OBVIOUS
      <4>1. c.replaces = 0 /\ c.slot = SlotFor(c.action, Amended)
        BY RepeatOnly DEF FirstCall
      <4>2. SlotFor(c.action, Amended) = SlotFor(c.action, c.amending)'
        BY <1>1, <2>3, <3>2, <3>3 DEF SlotFor
      <4> QED BY <4>1, <4>2
    <3>5. ASSUME c.by # "slot"
          PROVE  /\ Len(sent) + 1 > 1 /\ c.replaces = Len(sent) /\ sent'[Len(sent)].action = c.action
                 /\ \E j \in 1..(Len(sent) + 1) : sent'[j].by = "slot" /\ sent'[j].action = c.action
      <4>1. Repeats(c)
        BY <3>5, RepeatOnly
      <4>2. Len(sent) \in DOMAIN sent /\ LastCall = sent[Len(sent)]
        BY <4>1, LastIsCall DEF Repeats, Ground, LastCall
      <4>3. \E j \in 1..Len(sent) : sent[j].by = "slot" /\ sent[j].action = c.action
        BY <4>1, RepeatOnly
      <4> QED BY <1>0, <4>1, <4>2, <4>3 DEF Repeats, LongerFacts
    <3>6. c.by = "slot" => \E j \in 1..(Len(sent) + 1) : sent'[j].by = "slot" /\ sent'[j].action = c.action
      BY <1>0 DEF LongerFacts
    <3> QED BY <1>1, <2>3, <3>1, <3>3, <3>4, <3>5, <3>6
  <2>7. /\ sent'[Len(sent) + 1] = c /\ Len(sent') = Len(sent) + 1 /\ DOMAIN sent' = DOMAIN sent \cup {Len(sent) + 1}
        /\ ~(\E j \in DOMAIN sent' : Len(sent) + 1 < j)
    BY <1>0 DEF LongerFacts
  <2> SUFFICES ASSUME NEW i \in DOMAIN sent'
               PROVE  /\ sent'[i].cost \in {Unpriced, MostOf(sent'[i])}
                      /\ sent'[i].status \in Over \cup {"executing", "completed"}
                      /\ sent'[i].status = "executing" => i = Len(sent') /\ Running' /\ sent'[i].cost = Unpriced
                      /\ sent'[i].amending <=> sent'[i].action \in AmendmentActions
                      /\ sent'[i].amending => Amended'
                      /\ sent'[i].action \in ToSet(SlotsIn(sent[i].amending)')
                      /\ sent'[i].by = "slot" => sent'[i].replaces = 0 /\ sent'[i].slot = SlotFor(sent[i].action, sent[i].amending)'
                      /\ sent'[i].by # "slot" => /\ i > 1 /\ sent'[i].replaces = i - 1
                                          /\ sent'[i - 1].action = sent'[i].action
                      /\ \E j \in 1..i : sent'[j].by = "slot" /\ sent'[j].action = sent'[i].action
                      /\ \A j \in DOMAIN sent' : i < j /\ sent'[j].action = sent'[i].action => sent'[i].status \in Over
    BY DEF History
  <2>8. CASE i \in DOMAIN sent
    BY <2>5, <2>8
  <2>9. CASE i = Len(sent) + 1
    <3>1. sent'[i] = c /\ i - 1 = Len(sent) /\ i = Len(sent')
      BY <1>0, <2>7, <2>9 DEF LongerFacts
    <3>2. /\ c.cost \in {Unpriced, MostOf(c)} /\ c.status \in Over \cup {"executing", "completed"}
          /\ Running' /\ c.cost = Unpriced
      BY <1>0, <1>1
    <3>3. SlotsIn(sent[i].amending)' = SlotsIn(c.amending)'
          /\ SlotFor(sent[i].action, sent[i].amending)' = SlotFor(c.action, c.amending)'
      BY <3>1 DEF SlotsIn, SlotFor
    <3> QED BY <2>6, <2>7, <2>9, <3>1, <3>2, <3>3
  <2> QED BY <2>7, <2>8, <2>9
<1>6. InFlight'
    BY <1>0, <1>1 DEF InFlight, LongerFacts, SameBudget
<1>7. ResumeFits'
    BY <1>0, <1>1 DEF ResumeFits, LongerFacts
<1> QED BY <1>2, <1>3, <1>4, <1>5, <1>6, <1>7 DEF Ground

-----------------------------------------------------------------------------
(* The grants that stand after a claim.                                    *)

LEMMA ClaimStands ==
  ASSUME Ground, ResumeFits, StepStands, ReportStands, NEW c, Claims(c)
  PROVE  StepStands' /\ ReportStands'
<1>0. LongerFacts(c) /\ Amended' = Amended /\ progress' = progress /\ progress \in Progress
      /\ resume' = [before |-> progress, after |-> progress]
    BY ClaimLonger DEF SameBudget
<1>1. grants' = grants /\ standing.next = c.action /\ standing.next # NoStep /\ resume'.before = progress
    BY <1>0 DEF Claims
<1>2. \A x : Taken(x)' <=> Taken(x) \/ x = c.slot
    BY <1>0 DEF Taken, LongerFacts
<1>3. StepStands'
  <2> SUFFICES ASSUME grants.step # <<>> PROVE StepStands'
    BY <1>1 DEF StepStands
  <2> DEFINE g == grants.step[1]
  <2>1. /\ g.failed \in DOMAIN sent /\ sent[g.failed].status \in Over
        /\ sent[g.failed].action = g.action /\ sent[g.failed].amending = g.amending
    BY DEF StepStands
  <2>2. g.failed \in DOMAIN sent' /\ sent'[g.failed] = sent[g.failed] /\ g.failed # Len(sent')
    BY <1>0, <2>1 DEF LongerFacts
  <2>3. Taken(g.slot)' <=> Taken(g.slot) \/ g.slot = c.slot
    BY <1>0, <1>1 DEF Taken, LongerFacts
  <2>4. ASSUME ~Taken(g.slot)'
        PROVE  Mark(progress) > Mark(g.restore)
    <3>1. ~Taken(g.slot) /\ g.slot # c.slot
      BY <2>3, <2>4
    <3>2. CASE g.failed = Len(sent) /\ g.amending = Amended /\ standing.next = g.action
      <4>1. ReplayPending
        BY <3>2 DEF ReplayPending
      <4>2. c.slot = g.slot
        BY <4>1 DEF Claims, FirstCall, ReportCall, StepCall
      <4> QED BY <3>1, <4>2
    <3>3. CASE ~(g.failed = Len(sent) /\ g.amending = Amended /\ standing.next = g.action)
      BY <1>1, <3>1, <3>3 DEF StepStands
    <3> QED BY <3>2, <3>3
  <2>5. Mark(progress) \in Nat /\ Mark(g.restore) \in Nat
    BY <1>0, MarkNat DEF Ground, BudgetRows, StepGrants
  <2>6. Mark(progress) > Mark(g.restore) => Mark(progress) >= Mark(g.restore)
    BY <2>5
  <2> QED BY <1>0, <1>1, <2>1, <2>2, <2>4, <2>6 DEF StepStands
<1>4. ReportStands'
  <2> SUFFICES ASSUME grants.memory # <<>> PROVE ReportStands'
    BY <1>1 DEF ReportStands
  <2> DEFINE g == grants.memory[1]
  <2>1. /\ g.failed \in DOMAIN sent /\ sent[g.failed].status \in Over
        /\ sent[g.failed].action = g.action /\ sent[g.failed].amending = g.amending
        /\ RoleFor(g.action) = "memory"
    BY DEF ReportStands
  <2>2. g.failed \in DOMAIN sent' /\ sent'[g.failed] = sent[g.failed] /\ g.failed # Len(sent')
    BY <1>0, <2>1 DEF LongerFacts
  <2>3. Taken(g.slot)' <=> Taken(g.slot) \/ g.slot = c.slot
    BY <1>0, <1>1 DEF Taken, LongerFacts
  <2>4. ASSUME ~Taken(g.slot)'
        PROVE  Course(progress) > BoundAt(g.bindings)
    <3>1. ~Taken(g.slot) /\ g.slot # c.slot
      BY <2>3, <2>4
    <3>2. CASE g.failed = Len(sent) /\ g.amending = Amended /\ standing.next = g.action
      <4>1. RecoverySlot
        BY <3>2 DEF RecoverySlot
      <4>2. StepCall(c)
        BY <3>1, <4>1 DEF Claims, FirstCall, ReportCall
      <4>3. grants.step # <<>> /\ grants.step[1].failed = Len(sent) /\ progress = grants.step[1].restore
        BY <4>2 DEF StepCall, ReplayPending
      <4>4. progress = resume.before
        BY <4>3 DEF StepStands
      <4>5. sent # <<>> /\ LastCall.status \in Over /\ LastCall.status # "completed"
        BY <4>2 DEF StepCall, Repeats, Over
      <4>6. resume.before.memory = resume.after.memory
        BY <4>5 DEF ResumeFits
      <4>7. resume.after.memory = 0
        BY <3>2 DEF ReportStands
      <4>8. progress.memory = 1
        BY DEF Ground, GrantsGiven
      <4> QED BY <4>4, <4>6, <4>7, <4>8
    <3>3. CASE ~(g.failed = Len(sent) /\ g.amending = Amended /\ standing.next = g.action)
      BY <1>1, <3>1, <3>3 DEF ReportStands
    <3> QED BY <3>2, <3>3
  <2>5. Course(progress) \in Nat /\ BoundAt(g.bindings) \in Nat
    BY <1>0, MarkNat, BoundNat DEF Ground
  <2>6. Course(progress) > BoundAt(g.bindings) => Course(progress) >= BoundAt(g.bindings)
    BY <2>5
  <2> QED BY <1>0, <1>1, <2>1, <2>2, <2>4, <2>6 DEF ReportStands
<1> QED BY <1>3, <1>4

LEMMA ClaimOrder ==
  ASSUME Ground, InOrder, NEW c, Claims(c)
  PROVE  InOrder'
<1>0. LongerFacts(c) /\ SameBudget /\ standing'.next = standing.next
    BY ClaimLonger
<1>1. c.action = standing.next /\ c.amending = Amended /\ c.action \in ToSet(ActiveSlots)
    BY DEF Claims
<1>2. SlotsIn(TRUE)' = SlotsIn(TRUE) /\ Amended' = Amended /\ (Amended => SlotsIn(TRUE) = ActiveSlots)
    BY <1>0, SameInForce DEF SameBudget, SlotsIn, ActiveSlots
<1>3. UsedActions(AllCalls) \subseteq UsedActions(AllCalls)'
    BY <1>0 DEF UsedActions, AllCalls, LongerFacts
<1>4. PassedOver => PassedOver'
  <2> SUFFICES ASSUME NEW k \in 1..(Len(sent) - 1),
                      sent[k].amending, sent[k].status \in Over, sent[k + 1].by = "slot"
               PROVE  PassedOver'
    BY DEF PassedOver
  <2>1. k \in DOMAIN sent /\ k + 1 \in DOMAIN sent /\ k \in 1..(Len(sent') - 1)
    BY <1>0 DEF LongerFacts
  <2>2. sent'[k] = sent[k] /\ sent'[k + 1] = sent[k + 1]
    BY <1>0, <2>1 DEF LongerFacts
  <2> QED BY <2>1, <2>2 DEF PassedOver
<1> SUFFICES ASSUME Amended, ~PassedOver' PROVE InOrder'
    BY <1>2 DEF InOrder
<1>5. \A i \in DOMAIN sent : sent[i].amending => Earlier(sent[i].action) \subseteq UsedActions(AllCalls)
    BY <1>4 DEF InOrder
<1>6. Earlier(c.action) \subseteq UsedActions(AllCalls)
  <2>1. \/ Earlier(standing.next) \subseteq UsedActions(AllCalls)
        \/ sent # <<>> /\ LastCall.status \in Over /\ LastCall.amending
                /\ standing.next # LastCall.action
    BY <1>1, <1>2, <1>4 DEF InOrder
  <2>2. CASE sent # <<>> /\ LastCall.status \in Over /\ LastCall.amending /\ standing.next # LastCall.action
    <3>1. c.by = "slot"
      BY <1>1, <2>2, RepeatOnly DEF Repeats
    <3>2. Len(sent) \in DOMAIN sent /\ LastCall = sent[Len(sent)]
      BY <2>2, LastIsCall DEF Ground, LastCall
    <3>3. Len(sent) \in 1..(Len(sent') - 1) /\ sent'[Len(sent)] = LastCall /\ sent'[Len(sent) + 1] = c
      BY <1>0, <3>2 DEF LongerFacts
    <3>4. PassedOver'
      BY <2>2, <3>1, <3>3 DEF PassedOver
    <3> QED BY <3>4
  <2> QED BY <1>1, <2>1, <2>2
<1>7. ASSUME NEW i \in DOMAIN sent', sent'[i].amending
      PROVE  Earlier(sent[i].action)' \subseteq UsedActions(AllCalls)'
  <2>1. Earlier(sent[i].action)' = Earlier(sent'[i].action)
    BY <1>2 DEF Earlier
  <2>2. CASE i \in DOMAIN sent
    BY <1>0, <1>3, <1>5, <1>7, <2>1, <2>2 DEF LongerFacts
  <2>3. CASE i = Len(sent) + 1
    BY <1>0, <1>3, <1>6, <2>1, <2>3 DEF LongerFacts
  <2> QED BY <1>0, <2>2, <2>3 DEF LongerFacts
<1>8. Earlier(standing.next)' = Earlier(c.action)
    BY <1>0, <1>1, <1>2 DEF Earlier
<1> QED BY <1>3, <1>6, <1>7, <1>8 DEF InOrder

LEMMA Lengthened ==
  ASSUME NEW X, NEW s \in Seq(X), NEW x \in X
  PROVE  /\ Append(s, x) \in [1..(Len(s) + 1) -> X] /\ Append(s, x)[Len(s) + 1] = x
         /\ \A i \in 1..Len(s) : Append(s, x)[i] = s[i]
<1>1. Append(s, x) \in Seq(X) /\ Len(Append(s, x)) = Len(s) + 1
      /\ Append(s, x)[Len(s) + 1] = x /\ \A i \in 1..Len(s) : Append(s, x)[i] = s[i]
    OBVIOUS
<1> DEFINE t == Append(s, x)
<1>2. t \in Seq(X) /\ Len(t) = Len(s) + 1
    BY <1>1
<1> HIDE DEF t
<1>3. t \in [1..Len(t) -> X]
    BY <1>2
<1> QED BY <1>1, <1>2, <1>3 DEF t

LEMMA SameList ==
  ASSUME NEW X, NEW D, NEW f \in [D -> X], NEW h \in [D -> X], \A i \in D : f[i] = h[i]
  PROVE  f = h
OBVIOUS

LEMMA ClaimExposure ==
  ASSUME Ground, Ground', NEW c, Claims(c)
  PROVE  /\ Exposure' = Exposure + MostOf(c) /\ MostOf(c) \in Nat
         /\ ScopedCalls' = ScopedCalls \cup {Len(sent) + 1} /\ ScopedCalls \subseteq DOMAIN sent
<1>0. LongerFacts(c) /\ SameBudget
    BY ClaimLonger
<1>1. c.status = "executing" /\ c.cost = Unpriced /\ c \in Calls /\ c.action \in ToSet(ActiveSlots)
    BY DEF Claims
<1>2. (c.action \in AmendmentActions) = Amended /\ Amended \in BOOLEAN
    BY <1>1, ActiveAmending DEF Amended
<1>3. ScopedCalls \subseteq DOMAIN sent /\ ScopedCalls' = ScopedCalls \cup {Len(sent) + 1}
    BY <1>0, <1>2 DEF ScopedCalls, AllCalls, LongerFacts, SameBudget
<1>4. Charge(c) = MostOf(c) /\ MostOf(c) \in Nat /\ Charge(c) \in Nat
    BY <1>1, ChargeBound
<1>5. /\ Charges \in [1..Len(sent) -> Nat] /\ Exposure = Total(Charges) /\ Len(sent) \in Nat
    BY FactsNow DEF Facts, ChargedFacts
<1>6. /\ Charges' \in [1..Len(sent') -> Nat] /\ Exposure' = Total(Charges')
    BY FactsNext DEF Facts, ChargedFacts
<1>7. Charges' = Append(Charges, MostOf(c))
  <2>1. Charges \in Seq(Nat) /\ Len(Charges) = Len(sent)
    BY <1>5
  <2>2. Append(Charges, MostOf(c)) \in [1..(Len(sent) + 1) -> Nat]
        /\ Append(Charges, MostOf(c))[Len(sent) + 1] = MostOf(c)
        /\ \A i \in 1..Len(sent) : Append(Charges, MostOf(c))[i] = Charges[i]
    <3> DEFINE s == Charges
               x == MostOf(c)
               n == Len(sent)
    <3>1. s \in Seq(Nat) /\ Len(s) = n /\ x \in Nat
      BY <1>4, <2>1
    <3> HIDE DEF s, x, n
    <3>2. /\ Append(s, x) \in [1..(n + 1) -> Nat] /\ Append(s, x)[n + 1] = x
          /\ \A i \in 1..n : Append(s, x)[i] = s[i]
      BY <3>1, Lengthened
    <3> QED BY <3>2 DEF s, x, n
  <2>3. Charges' \in [1..(Len(sent) + 1) -> Nat]
    BY <1>0, <1>6 DEF LongerFacts
  <2>4. \A i \in 1..(Len(sent) + 1) : Charges'[i] = Append(Charges, MostOf(c))[i]
    <3> TAKE i \in 1..(Len(sent) + 1)
    <3>1. Charges'[i] = IF i \in ScopedCalls \cup {Len(sent) + 1} THEN Charge(sent'[i]) ELSE 0
      BY <1>0, <1>3 DEF Charges, LongerFacts
    <3>2. CASE i = Len(sent) + 1
      BY <1>0, <1>4, <2>2, <3>1, <3>2 DEF LongerFacts
    <3>3. CASE i \in 1..Len(sent)
      <4>1. Charges[i] = IF i \in ScopedCalls THEN Charge(sent[i]) ELSE 0
        BY <1>0, <3>3 DEF Charges, LongerFacts
      <4>2. i # Len(sent) + 1 /\ sent'[i] = sent[i]
        BY <1>0, <3>3 DEF LongerFacts
      <4> QED BY <2>2, <3>1, <3>3, <4>1, <4>2
    <3> QED BY <1>5, <3>2, <3>3
  <2> DEFINE f == Charges'
             h == Append(Charges, MostOf(c))
             D == 1..(Len(sent) + 1)
  <2>5. f \in [D -> Nat] /\ h \in [D -> Nat] /\ \A i \in D : f[i] = h[i]
    BY <2>2, <2>3, <2>4
  <2> HIDE DEF f, h, D
  <2>6. f = h
    BY <2>5, SameList
  <2> QED BY <2>6 DEF f, h
<1>8. Total(Append(Charges, MostOf(c))) = Total(Charges) + MostOf(c)
  <2>1. Charges \in Seq(Nat)
    BY <1>5
  <2> QED BY <1>4, <2>1, TotalMore
<1> QED BY <1>3, <1>4, <1>5, <1>6, <1>7, <1>8

LEMMA ClaimHeadroom ==
  ASSUME Ground, InFlight, StepStands, ReportStands, InOrder, InputsFit, Headroom, NEW c, Claims(c), Ground', StepStands'
  PROVE  InputsFit' /\ Headroom'
<1>0. LongerFacts(c) /\ SameBudget /\ progress' = progress
    BY ClaimLonger
<1>1. SpecInForce' = SpecInForce /\ ActiveSlots' = ActiveSlots /\ Amended' = Amended /\ grants' = grants /\ design' = design
      /\ Amended \in BOOLEAN
    BY <1>0, SameInForce DEF SameBudget, Amended
<1>2. c.action \in ToSet(ActiveSlots) /\ c.amending = Amended /\ c \in Calls
      /\ (FirstCall(c) \/ ReportCall(c) \/ StepCall(c))
    BY DEF Claims
<1>3. Repeats(c) => Len(sent) \in DOMAIN sent /\ LastCall = sent[Len(sent)] /\ LastCall \in Calls
    BY LastIsCall DEF Repeats, Ground, LastCall
<1>4. AmountFacts /\ AmountFacts'
    BY Amounts, AmountsNext
<1>5. InputsFit'
  <2>1. SpecInForce.limits.input \in 1..2
    BY <1>4 DEF AmountFacts, Limits
  <2>2. StepCall(c) => LastCall.input <= SpecInForce.limits.input
    BY <1>3 DEF StepCall, Repeats, InputsFit
  <2>3. c.input <= SpecInForce.limits.input
    BY <1>2, <2>1, <2>2 DEF FirstCall, ReportCall, StepCall
  <2> QED BY <1>0, <1>1, <2>3 DEF InputsFit, LongerFacts
<1>6. /\ Exposure' = Exposure + MostOf(c) /\ MostOf(c) \in Nat
      /\ ScopedCalls' = ScopedCalls \cup {Len(sent) + 1} /\ ScopedCalls \subseteq DOMAIN sent
    BY ClaimExposure
<1>7. UsedActions(ScopedCalls)' = UsedActions(ScopedCalls) \cup {c.action}
    BY <1>0, <1>6 DEF UsedActions, LongerFacts
<1>8. Left' = Left \ {c.action}
    BY <1>1, <1>7 DEF Left
<1>9. OpenReport' = 0 /\ OpenStep' = 0
  <2>1. ~ReportOpen' /\ ~StepOpen'
    BY <1>0, <1>1 DEF ReportOpen, StepOpen, StepStands, ReportStands, LongerFacts
  <2> QED BY <2>1 DEF OpenReport, OpenStep
<1>10. ReplayedEarly => ReplayedEarly'
  <2> SUFFICES ASSUME NEW i \in DOMAIN sent, sent[i].by = "step", ~sent[i].amending,
                      NEW j \in 1..PlaceOf(SlotsFor(design), sent[i].action),
                      SlotsFor(design)[j] \notin UsedActions(1..(i - 1))
               PROVE  ReplayedEarly'
    BY DEF ReplayedEarly
  <2>1. 1..(i - 1) \subseteq DOMAIN sent
    BY <1>0 DEF LongerFacts
  <2>2. UsedActions(1..(i - 1))' = UsedActions(1..(i - 1))
    BY <1>0, <2>1 DEF UsedActions, LongerFacts
  <2>3. sent'[i] = sent[i] /\ i \in DOMAIN sent'
    BY <1>0 DEF LongerFacts
  <2> QED BY <1>1, <2>2, <2>3 DEF ReplayedEarly
<1>11. Price' <= Price
  <2>1. SpecInForce.limits \in Limits /\ IsFiniteSet(Left) /\ Left' \in SUBSET Left
    BY <1>4, <1>8 DEF AmountFacts
  <2>2. NoMore(SpecInForce.limits, SpecInForce.limits)
    BY <2>1 DEF NoMore, Limits
  <2> QED BY <1>1, <2>1, <2>2, EstimateMore DEF Price
<1>12. ASSUME FirstCall(c)
       PROVE  Price = Price' + MostOf(c)
  <2>1. c.action \in Left
    <3>1. UsedActions(ScopedCalls) \subseteq UsedActions(AllCalls)
      BY <1>6 DEF UsedActions, AllCalls
    <3> QED BY <1>2, <1>12, <3>1 DEF FirstCall, Left
  <2>2. Left = Left' \cup {c.action} /\ c.action \notin Left' /\ IsFiniteSet(Left')
    BY <1>4, <1>8, <2>1 DEF AmountFacts
  <2>3. EstimateCost(SpecInForce.limits, Left' \cup {c.action})
          = EstimateCost(SpecInForce.limits, Left') + SpecInForce.limits.input + OutputOf(SpecInForce.limits, c.action)
    BY <1>4, <2>2, EstimateOne DEF AmountFacts
  <2>4. Price = EstimateCost(SpecInForce.limits, Left' \cup {c.action}) /\ Price' = EstimateCost(SpecInForce.limits, Left')
    BY <1>1, <2>2 DEF Price
  <2>5. MostOf(c) = SpecInForce.limits.input + OutputOf(SpecInForce.limits, c.action)
    BY <1>12 DEF MostOf, FirstCall
  <2>6. c.input \in 1..2 /\ c.output \in 1..2 /\ Price' \in Nat
    BY <1>2, <1>4 DEF Calls, AmountFacts
  <2>7. c.input = SpecInForce.limits.input /\ c.output = OutputOf(SpecInForce.limits, c.action) /\ MostOf(c) = c.input + c.output
    BY <1>12 DEF FirstCall, MostOf
  <2>8. Price = Price' + c.input + c.output
    BY <2>3, <2>4, <2>7
  <2> QED BY <2>6, <2>7, <2>8
<1>13. ASSUME ReportCall(c)
       PROVE  OpenReport = MostOf(c)
    BY <1>13 DEF ReportCall, OpenReport, MostOf
<1>14. ASSUME StepCall(c), ~ReplayedEarly'
       PROVE  OpenStep = MostOf(c)
  <2>1. MostOf(c) = MostOf(LastCall)
    BY <1>14 DEF StepCall, MostOf
  <2>2. ~Amended => \A j \in 1..PlaceOf(ActiveSlots, grants.step[1].action) : ActiveSlots[j] \in UsedActions(AllCalls)
    <3> SUFFICES ASSUME ~Amended, NEW j \in 1..PlaceOf(ActiveSlots, grants.step[1].action),
                        ActiveSlots[j] \notin UsedActions(AllCalls)
                 PROVE  FALSE
      OBVIOUS
    <3>1. ActiveSlots = SlotsFor(design)
      BY DEF ActiveSlots
    <3>2. grants.step[1].action = c.action
      BY <1>14 DEF StepCall, ReplayPending, Claims
    <3> PICK i \in Nat : i = Len(sent) + 1
      BY <1>0 DEF LongerFacts
    <3>3. sent'[i] = c /\ i \in DOMAIN sent' /\ c.by = "step" /\ ~c.amending
      BY <1>0, <1>2, <1>14 DEF LongerFacts, StepCall
    <3>4. UsedActions(1..(i - 1))' = UsedActions(AllCalls)
      <4>1. 1..(i - 1) = DOMAIN sent
        BY <1>0 DEF LongerFacts
      <4> QED BY <1>0, <4>1 DEF UsedActions, AllCalls, LongerFacts
    <3>5. j \in 1..PlaceOf(SlotsFor(design), c.action) /\ SlotsFor(design)[j] \notin UsedActions(1..(i - 1))'
      BY <3>1, <3>2, <3>4
    <3>6. ReplayedEarly'
      BY <1>1, <3>3, <3>5 DEF ReplayedEarly
    <3> QED BY <1>14, <3>6
  <2>3. StepOpen
    <3>1. progress = grants.step[1].restore /\ ~Taken(grants.step[1].slot) /\ grants.step[1].failed = Len(sent)
          /\ grants.step # <<>> /\ grants.step[1].amending = Amended
      BY <1>14 DEF StepCall, ReplayPending
    <3> QED BY <2>2, <3>1 DEF StepOpen
  <2> QED BY <2>1, <2>3 DEF OpenStep
<1>15. Headroom'
  <2> SUFFICES ASSUME SpecInForce'.ok, ~ReplayedEarly'
               PROVE  Exposure' + Price' + OpenReport' + OpenStep' <= SpecInForce'.max
    BY DEF Headroom, Price
  <2>1. Exposure + Price + OpenReport + OpenStep <= SpecInForce.max
    BY <1>1, <1>10 DEF Headroom, Price
  <2>2. SpecInForce'.max = SpecInForce.max
    BY <1>1
  <2>3. MostOf(c) + Price' <= Price + OpenReport + OpenStep
    <3>1. /\ MostOf(c) \in Nat /\ Price' \in Nat /\ Price' <= Price
          /\ Price \in Nat /\ OpenReport \in Nat /\ OpenStep \in Nat
      BY <1>4, <1>6, <1>11 DEF AmountFacts
    <3>2. CASE FirstCall(c)
      BY <1>12, <3>1, <3>2
    <3>3. CASE ReportCall(c)
      BY <1>13, <3>1, <3>3
    <3>4. CASE StepCall(c)
      <4>1. OpenStep = MostOf(c)
        BY <1>14, <3>4
      <4> QED BY <3>1, <4>1
    <3> QED BY <1>2, <3>2, <3>3, <3>4
  <2> QED BY <1>4, <1>6, <1>9, <2>1, <2>2, <2>3 DEF AmountFacts
<1> QED BY <1>5, <1>15

LEMMA ClaimKeeps ==
  ASSUME BudgetInv, ClaimSlot
  PROVE  BudgetInv'
<1>1. Ground /\ InFlight /\ ResumeFits /\ StepStands /\ ReportStands /\ ByReport /\ InOrder /\ InputsFit /\ Headroom
    BY DEF BudgetInv, Ground
<1>2. CASE ~ClaimFits
    BY <1>1, <1>2, RefusedQuiet, QuietKeeps
<1>3. CASE ClaimFits
  <2>1. PICK c : Claims(c)
    BY <1>1, <1>3, ClaimClaims
  <2>2. Ground' /\ InFlight' /\ ResumeFits'
    BY <1>1, <2>1, ClaimGround
  <2>3. StepStands' /\ ReportStands'
    BY <1>1, <2>1, ClaimStands
  <2>4. InOrder'
    BY <1>1, <2>1, ClaimOrder
  <2>5. InputsFit' /\ Headroom'
    BY <1>1, <2>1, <2>2, <2>3, ClaimHeadroom
  <2>6. ByReport'
    <3>1. LongerFacts(c) /\ grants' = grants
      BY <1>1, <2>1, ClaimLonger DEF Claims
    <3>2. c.by = "memory" => grants.memory # <<>> /\ c.replaces = grants.memory[1].failed
      BY <2>1 DEF Claims, FirstCall, ReportCall, StepCall, ReportOpen, Repeats
    <3> QED BY <1>1, <3>1, <3>2 DEF ByReport, LongerFacts
  <2> QED BY <2>2, <2>3, <2>4, <2>5, <2>6 DEF BudgetInv, Ground
<1> QED BY <1>2, <1>3

-----------------------------------------------------------------------------
(* Closing an unknown call changes nothing that is counted.                *)

CloseUnknown(c) == IF c.status = "outcome_uncertain" THEN [c EXCEPT !.status = "uncertain_closed"] ELSE c

ClosedCalls ==
    /\ sent' \in Seq(Calls) /\ DOMAIN sent' = DOMAIN sent /\ Len(sent') = Len(sent)
    /\ \A i \in DOMAIN sent : sent'[i] \in {sent[i], CloseUnknown(sent[i])}

Alike(c, d) ==
    /\ d.action = c.action /\ d.slot = c.slot /\ d.cost = c.cost /\ d.input = c.input /\ d.output = c.output
    /\ d.amending = c.amending /\ d.replaces = c.replaces /\ d.by = c.by
    /\ d.status \in Over <=> c.status \in Over
    /\ \A x \in {"executing", "completed", "not_dispatched"} : d.status = x <=> c.status = x

LEMMA CloseAlike ==
  ASSUME NEW c \in Calls
  PROVE  Alike(c, CloseUnknown(c)) /\ Alike(c, c) /\ CloseUnknown(c) \in Calls
<1>1. CASE c.status = "outcome_uncertain"
  <2> DEFINE d == [c EXCEPT !.status = "uncertain_closed"]
  <2>1. CloseUnknown(c) = d
    BY <1>1 DEF CloseUnknown
  <2>2. d \in Calls /\ d.status = "uncertain_closed"
    BY DEF Calls, Over
  <2>3. /\ d.action = c.action /\ d.slot = c.slot /\ d.cost = c.cost /\ d.input = c.input /\ d.output = c.output
        /\ d.amending = c.amending /\ d.replaces = c.replaces /\ d.by = c.by
    BY DEF Calls
  <2> HIDE DEF d
  <2>4. d.status \in Over /\ c.status \in Over
    BY <1>1, <2>2 DEF Over
  <2>5. \A x \in {"executing", "completed", "not_dispatched"} : d.status = x <=> c.status = x
    BY <1>1, <2>2
  <2> QED BY <2>1, <2>2, <2>3, <2>4, <2>5 DEF Alike
<1>2. CASE c.status # "outcome_uncertain"
    BY <1>2 DEF CloseUnknown, Alike
<1> QED BY <1>1, <1>2 DEF Alike

AlikeCalls ==
    /\ sent \in Seq(Calls) /\ DOMAIN sent = 1..Len(sent) /\ Len(sent) \in Nat
    /\ sent' \in Seq(Calls) /\ DOMAIN sent' = DOMAIN sent /\ Len(sent') = Len(sent)
    /\ \A i \in DOMAIN sent : Alike(sent[i], sent'[i])
    /\ (sent' = <<>>) = (sent = <<>>)
    /\ sent # <<>> => Alike(LastCall, LastCall')

LEMMA ClosedAlike ==
  ASSUME BudgetRows, ClosedCalls
  PROVE  AlikeCalls
<1>1. sent \in Seq(Calls) /\ sent' \in Seq(Calls) /\ DOMAIN sent' = DOMAIN sent /\ Len(sent') = Len(sent)
    BY DEF BudgetRows, ClosedCalls
<1>2. DOMAIN sent = 1..Len(sent) /\ Len(sent) \in Nat /\ \A i \in DOMAIN sent : sent[i] \in Calls
    BY <1>1
<1>3. \A i \in DOMAIN sent : Alike(sent[i], sent'[i])
    BY <1>2, CloseAlike DEF ClosedCalls
<1>4. (sent' = <<>>) = (sent = <<>>)
    BY <1>1
<1>5. sent # <<>> => Len(sent) \in DOMAIN sent
    BY <1>1, <1>2
<1>6. sent # <<>> => Alike(LastCall, LastCall')
    BY <1>1, <1>3, <1>5 DEF LastCall
<1> QED BY <1>1, <1>2, <1>3, <1>4, <1>6 DEF AlikeCalls

LEMMA AlikeCounts ==
  ASSUME AlikeCalls, Amended' = Amended, design' = design, ActiveSlots' = ActiveSlots
  PROVE  /\ \A x : Taken(x)' = Taken(x)
         /\ AllCalls' = AllCalls /\ ScopedCalls' = ScopedCalls
         /\ UsedActions(AllCalls)' = UsedActions(AllCalls) /\ UsedActions(ScopedCalls)' = UsedActions(ScopedCalls)
         /\ Left' = Left /\ PassedOver' = PassedOver /\ ReplayedEarly' = ReplayedEarly
         /\ Exposure' = Exposure
<1>1. DOMAIN sent' = DOMAIN sent /\ Len(sent') = Len(sent) /\ DOMAIN sent = 1..Len(sent) /\ Len(sent) \in Nat
    BY DEF AlikeCalls
<1>2. \A i \in DOMAIN sent : /\ sent'[i].action = sent[i].action /\ sent'[i].slot = sent[i].slot
                             /\ sent'[i].by = sent[i].by /\ sent'[i].amending = sent[i].amending
                             /\ sent'[i].status \in Over <=> sent[i].status \in Over
    BY DEF AlikeCalls, Alike
<1>3. \A i \in DOMAIN sent : Paid(sent'[i]) = Paid(sent[i]) /\ Reserved(sent'[i]) = Reserved(sent[i])
    BY DEF AlikeCalls, Alike, Paid, Reserved, MostOf
<1>4. \A x : Taken(x)' = Taken(x)
    BY <1>1, <1>2 DEF Taken
<1>5. AllCalls' = AllCalls /\ ScopedCalls' = ScopedCalls
    BY <1>1, <1>2 DEF AllCalls, ScopedCalls
<1>6. \A S \in SUBSET DOMAIN sent : {sent'[i].action : i \in S} = {sent[i].action : i \in S}
    BY <1>2
<1>7. UsedActions(AllCalls)' = UsedActions(AllCalls)
    BY <1>1, <1>2, <1>5 DEF UsedActions, AllCalls
<1>8. UsedActions(ScopedCalls)' = UsedActions(ScopedCalls)
  <2>1. ScopedCalls \subseteq DOMAIN sent
    BY DEF ScopedCalls, AllCalls
  <2> QED BY <1>2, <1>5, <2>1 DEF UsedActions
<1>9. Left' = Left
    BY <1>8 DEF Left
<1>10. PassedOver' = PassedOver
  <2>1. \A k \in 1..(Len(sent) - 1) : k \in DOMAIN sent /\ k + 1 \in DOMAIN sent
    BY <1>1
  <2>2. PassedOver' <=> \E k \in 1..(Len(sent) - 1) : sent'[k].amending /\ sent'[k].status \in Over /\ sent'[k + 1].by = "slot"
    BY <1>1 DEF PassedOver
  <2>3. PassedOver' <=> PassedOver
    BY <1>2, <2>1, <2>2 DEF PassedOver
  <2> QED BY <2>3 DEF PassedOver
<1>11. ReplayedEarly' = ReplayedEarly
  <2>1. \A i \in DOMAIN sent : 1..(i - 1) \subseteq DOMAIN sent
    BY <1>1
  <2>2. \A i \in DOMAIN sent : UsedActions(1..(i - 1))' = UsedActions(1..(i - 1))
    BY <1>2, <2>1 DEF UsedActions
  <2>3. ReplayedEarly' <=>
          \E i \in DOMAIN sent :
            /\ sent'[i].by = "step" /\ ~sent'[i].amending
            /\ \E j \in 1..PlaceOf(SlotsFor(design), sent'[i].action) :
                  SlotsFor(design)[j] \notin UsedActions(1..(i - 1))'
    BY <1>1 DEF ReplayedEarly
  <2>4. ReplayedEarly' <=> ReplayedEarly
    BY <1>2, <2>2, <2>3 DEF ReplayedEarly
  <2> QED BY <2>4 DEF ReplayedEarly
<1>12. Exposure' = Exposure
  <2>1. ScopedCalls \subseteq DOMAIN sent
    BY DEF ScopedCalls, AllCalls
  <2>2. [i \in AllCalls |-> IF i \in ScopedCalls THEN Paid(sent'[i]) ELSE 0]
          = [i \in AllCalls |-> IF i \in ScopedCalls THEN Paid(sent[i]) ELSE 0]
    BY <1>3 DEF AllCalls
  <2>3. [i \in AllCalls |-> IF i \in ScopedCalls THEN Reserved(sent'[i]) ELSE 0]
          = [i \in AllCalls |-> IF i \in ScopedCalls THEN Reserved(sent[i]) ELSE 0]
    BY <1>3 DEF AllCalls
  <2>4. KnownCost(ScopedCalls)' = KnownCost(ScopedCalls) /\ Reserve(ScopedCalls)' = Reserve(ScopedCalls)
    BY <1>5, <2>2, <2>3 DEF KnownCost, Reserve
  <2> QED BY <2>4 DEF Exposure
<1> QED BY <1>4, <1>5, <1>7, <1>8, <1>9, <1>10, <1>11, <1>12

\* A history whose calls are closed stays one.
LEMMA AlikeHistory ==
  ASSUME Ground, AlikeCalls, Amended' = Amended, \A b \in BOOLEAN : SlotsIn(b)' = SlotsIn(b),
         \A i \in DOMAIN sent : sent[i].status # "executing"
  PROVE  History'
<1>1. DOMAIN sent' = DOMAIN sent /\ Len(sent') = Len(sent) /\ DOMAIN sent = 1..Len(sent) /\ Len(sent) \in Nat
    BY DEF AlikeCalls
<1>2. \A i \in DOMAIN sent : /\ sent'[i].action = sent[i].action /\ sent'[i].slot = sent[i].slot
                             /\ sent'[i].by = sent[i].by /\ sent'[i].amending = sent[i].amending
                             /\ sent'[i].replaces = sent[i].replaces /\ sent'[i].cost = sent[i].cost
                             /\ MostOf(sent'[i]) = MostOf(sent[i])
                             /\ sent'[i].status \in Over <=> sent[i].status \in Over
                             /\ sent'[i].status # "executing"
                             /\ sent'[i].status = "completed" <=> sent[i].status = "completed"
    BY DEF AlikeCalls, Alike, MostOf
<1>3. \A i \in DOMAIN sent : sent[i].amending \in BOOLEAN
  <2>1. \A i \in DOMAIN sent : sent[i] \in Calls
    BY DEF Ground, BudgetRows
  <2> QED BY <2>1 DEF Calls
<1> SUFFICES ASSUME NEW i \in DOMAIN sent
             PROVE  /\ sent'[i].cost \in {Unpriced, MostOf(sent'[i])}
                    /\ sent'[i].status \in Over \cup {"executing", "completed"}
                    /\ sent'[i].amending <=> sent'[i].action \in AmendmentActions
                    /\ sent'[i].amending => Amended
                    /\ sent'[i].action \in ToSet(SlotsIn(sent[i].amending))
                    /\ sent'[i].by = "slot" => sent'[i].replaces = 0 /\ sent'[i].slot = SlotFor(sent[i].action, sent[i].amending)
                    /\ sent'[i].by # "slot" => /\ i > 1 /\ sent'[i].replaces = i - 1
                                        /\ sent'[i - 1].action = sent'[i].action
                    /\ \E j \in 1..i : sent'[j].by = "slot" /\ sent'[j].action = sent'[i].action
                    /\ \A j \in DOMAIN sent : i < j /\ sent'[j].action = sent'[i].action => sent'[i].status \in Over
    BY <1>1, <1>2, <1>3 DEF History, SlotFor
<1>4. i \in 1..Len(sent) /\ 1..i \subseteq DOMAIN sent
    BY <1>1
<1>5. sent[i].by # "slot" => i - 1 \in DOMAIN sent
    BY <1>1 DEF Ground, History
<1>6. /\ sent[i].cost \in {Unpriced, MostOf(sent[i])}
      /\ sent[i].status \in Over \cup {"executing", "completed"}
      /\ sent[i].amending <=> sent[i].action \in AmendmentActions
      /\ sent[i].amending => Amended
      /\ sent[i].action \in ToSet(SlotsIn(sent[i].amending))
      /\ sent[i].by = "slot" => sent[i].replaces = 0 /\ sent[i].slot = SlotFor(sent[i].action, sent[i].amending)
      /\ sent[i].by # "slot" => /\ i > 1 /\ sent[i].replaces = i - 1
                          /\ sent[i - 1].action = sent[i].action
      /\ \E j \in 1..i : sent[j].by = "slot" /\ sent[j].action = sent[i].action
      /\ \A j \in DOMAIN sent : i < j /\ sent[j].action = sent[i].action => sent[i].status \in Over
    BY DEF Ground, History
<1>7. /\ sent'[i].cost \in {Unpriced, MostOf(sent'[i])}
      /\ sent'[i].status \in Over \cup {"executing", "completed"}
      /\ sent'[i].amending <=> sent'[i].action \in AmendmentActions
      /\ sent'[i].amending => Amended
      /\ sent'[i].action \in ToSet(SlotsIn(sent[i].amending))
      /\ sent'[i].by = "slot" => sent'[i].replaces = 0 /\ sent'[i].slot = SlotFor(sent[i].action, sent[i].amending)
    BY <1>2, <1>6
<1>8. sent'[i].by # "slot" => /\ i > 1 /\ sent'[i].replaces = i - 1 /\ sent'[i - 1].action = sent'[i].action
    BY <1>2, <1>5, <1>6
<1>9. \E j \in 1..i : sent'[j].by = "slot" /\ sent'[j].action = sent'[i].action
    BY <1>2, <1>4, <1>6
<1>10. \A j \in DOMAIN sent : i < j /\ sent'[j].action = sent'[i].action => sent'[i].status \in Over
    BY <1>2, <1>6
<1> QED BY <1>7, <1>8, <1>9, <1>10

LEMMA NoneExecutes == ASSUME Ground, ~Running, NEW i \in DOMAIN sent PROVE sent[i].status # "executing"
BY DEF Ground, History

-----------------------------------------------------------------------------
(* The author closes the calls whose outcome is unknown.                   *)

LEMMA ResolveCloses ==
  ASSUME Ground, ResolveUnknown
  PROVE  /\ ClosedCalls /\ AlikeCalls /\ SameBudget /\ ~Running /\ ~Running'
         /\ progress' = progress /\ resume' = resume /\ grants' = grants /\ design' = design
         /\ standing' = Stage("needs_attention", NoStep, FALSE) /\ standing'.next = NoStep
<1>1. sent \in Seq(Calls)
    BY DEF Ground, BudgetRows
<1>2. sent' = [i \in DOMAIN sent |-> CloseUnknown(sent[i])]
    BY DEF ResolveUnknown, CloseUnknown
<1>3. DOMAIN sent = 1..Len(sent) /\ Len(sent) \in Nat /\ \A i \in DOMAIN sent : sent[i] \in Calls
    BY <1>1
<1>4. \A i \in DOMAIN sent : CloseUnknown(sent[i]) \in Calls
    BY <1>3, CloseAlike
<1>5. sent' \in Seq(Calls) /\ DOMAIN sent' = DOMAIN sent /\ Len(sent') = Len(sent)
      /\ \A i \in DOMAIN sent : sent'[i] = CloseUnknown(sent[i])
  <2>1. sent' \in [1..Len(sent) -> Calls]
    BY <1>2, <1>3, <1>4
  <2> QED BY <1>2, <1>3, <2>1
<1>6. ClosedCalls
    BY <1>5 DEF ClosedCalls
<1>7. AlikeCalls
    BY <1>6, ClosedAlike DEF Ground
<1> QED BY <1>6, <1>7 DEF ResolveUnknown, SameBudget, Amended, Running, Stage

LEMMA ResolveKeeps ==
  ASSUME BudgetInv, ResolveUnknown
  PROVE  BudgetInv'
<1>1. Ground /\ InFlight /\ ResumeFits /\ StepStands /\ ReportStands /\ ByReport /\ InOrder /\ InputsFit /\ Headroom
    BY DEF BudgetInv, Ground
<1>2. /\ AlikeCalls /\ SameBudget /\ ~Running /\ ~Running'
      /\ progress' = progress /\ resume' = resume /\ grants' = grants /\ design' = design
      /\ standing' = Stage("needs_attention", NoStep, FALSE) /\ standing'.next = NoStep
    BY <1>1, ResolveCloses
<1>3. SpecInForce' = SpecInForce /\ ActiveSlots' = ActiveSlots /\ Amended' = Amended
      /\ (\A b \in BOOLEAN : SlotsIn(b)' = SlotsIn(b))
    BY <1>2, SameInForce DEF SameBudget
<1>4. /\ \A x : Taken(x)' = Taken(x)
      /\ AllCalls' = AllCalls /\ ScopedCalls' = ScopedCalls
      /\ UsedActions(AllCalls)' = UsedActions(AllCalls) /\ UsedActions(ScopedCalls)' = UsedActions(ScopedCalls)
      /\ Left' = Left /\ PassedOver' = PassedOver /\ ReplayedEarly' = ReplayedEarly
      /\ Exposure' = Exposure
    BY <1>2, <1>3, AlikeCounts
<1>5. /\ Len(sent') = Len(sent) /\ DOMAIN sent' = DOMAIN sent /\ sent' \in Seq(Calls)
      /\ (sent' = <<>>) = (sent = <<>>)
      /\ sent # <<>> => /\ LastCall'.status \in Over <=> LastCall.status \in Over
                        /\ LastCall'.status = "completed" <=> LastCall.status = "completed"
                        /\ LastCall'.action = LastCall.action /\ LastCall'.amending = LastCall.amending
                        /\ MostOf(LastCall') = MostOf(LastCall)
      /\ \A i \in DOMAIN sent : /\ sent'[i].action = sent[i].action /\ sent'[i].by = sent[i].by
                                /\ sent'[i].replaces = sent[i].replaces /\ sent'[i].amending = sent[i].amending
                                /\ sent'[i].input = sent[i].input
                                /\ sent'[i].status \in Over <=> sent[i].status \in Over
    BY <1>2 DEF AlikeCalls, Alike, MostOf
<1>6. BudgetRows'
  <2>1. standing' = Stage(standing'.status, standing'.next, standing'.authorized)
    BY <1>2 DEF Stage
  <2>2. sent' # <<>> /\ LastCall'.status # "completed" => resume \in [before : Progress, after : Progress]
    BY <1>1, <1>5 DEF Ground, BudgetRows
  <2> QED BY <1>1, <1>2, <1>5, <2>1, <2>2 DEF Ground, BudgetRows
<1>7. AmendmentFits' /\ GrantsGiven'
    BY <1>1, <1>2, <1>3 DEF Ground, AmendmentFits, GrantsGiven
<1>8. History'
    BY <1>1, <1>2, <1>3, AlikeHistory, NoneExecutes
<1>9. Ground'
    BY <1>6, <1>7, <1>8 DEF Ground
<1>10. InFlight' /\ ResumeFits'
    BY <1>1, <1>2, <1>5 DEF InFlight, ResumeFits
<1>11. StepStands'
  <2> SUFFICES ASSUME grants.step # <<>> PROVE StepStands'
    BY <1>2 DEF StepStands
  <2> DEFINE g == grants.step[1]
  <2>1. g.failed \in DOMAIN sent /\ Taken(g.slot)' = Taken(g.slot)
    BY <1>1, <1>2, <1>5 DEF StepStands, Taken, AlikeCalls, Alike
  <2>2. sent # <<>>
    BY <2>1
  <2> QED BY <1>1, <1>2, <1>3, <1>5, <2>1, <2>2 DEF StepStands
<1>12. ReportStands'
  <2> SUFFICES ASSUME grants.memory # <<>> PROVE ReportStands'
    BY <1>2 DEF ReportStands
  <2> DEFINE g == grants.memory[1]
  <2>1. g.failed \in DOMAIN sent /\ Taken(g.slot)' = Taken(g.slot)
    BY <1>1, <1>2, <1>5 DEF ReportStands, Taken, AlikeCalls, Alike
  <2>2. sent # <<>>
    BY <2>1
  <2> QED BY <1>1, <1>2, <1>3, <1>5, <2>1, <2>2 DEF ReportStands
<1>13. ByReport'
    BY <1>1, <1>2, <1>5 DEF ByReport
<1>14. InOrder'
  <2>1. \A a : Earlier(a)' = Earlier(a)
    BY <1>3 DEF Earlier
  <2>2. SlotsIn(TRUE)' = SlotsIn(TRUE)
    BY <1>3
  <2>3. Amended => NoStep \notin ToSet(SlotsIn(TRUE))
    <3>1. Amended => ToSet(ActiveSlots) \subseteq AmendmentActions
      BY <1>1, FactsNow DEF Facts, ActiveFacts
    <3>2. NoStep \notin AmendmentActions
      BY DEF NoStep, AmendmentActions, Only
    <3> QED BY <3>1, <3>2 DEF ActiveSlots, SlotsIn
  <2> SUFFICES ASSUME Amended, ~PassedOver PROVE InOrder'
    BY <1>3, <1>4 DEF InOrder
  <2>4. \A i \in DOMAIN sent : sent[i].amending => Earlier(sent[i].action) \subseteq UsedActions(AllCalls)
    BY <1>1 DEF InOrder
  <2>5. \A i \in DOMAIN sent : Earlier(sent[i].action)' = Earlier(sent'[i].action)
    BY <2>2 DEF Earlier
  <2>6. \A i \in DOMAIN sent' : sent'[i].amending => Earlier(sent[i].action)' \subseteq UsedActions(AllCalls)'
    BY <1>4, <1>5, <2>4, <2>5
  <2> QED BY <1>2, <2>2, <2>3, <2>6 DEF InOrder
<1>15. InputsFit'
    BY <1>1, <1>3, <1>5 DEF InputsFit
<1>16. Headroom'
  <2> SUFFICES ASSUME SpecInForce'.ok, ~ReplayedEarly'
               PROVE  Exposure' + Price' + OpenReport' + OpenStep' <= SpecInForce'.max
    BY DEF Headroom, Price
  <2>1. Exposure + Price + OpenReport + OpenStep <= SpecInForce.max
    BY <1>1, <1>3, <1>4 DEF Headroom, Price
  <2>2. Price' = Price
    BY <1>3, <1>4 DEF Price
  <2>3. OpenReport' = OpenReport
    <3>1. grants.memory # <<>> => Taken(grants.memory[1].slot)' = Taken(grants.memory[1].slot)
      BY <1>2, <1>5 DEF Taken, AlikeCalls, Alike
    <3>2. ReportOpen' <=> ReportOpen
      BY <1>2, <1>3, <1>5, <3>1 DEF ReportOpen
    <3> QED BY <1>3, <3>2 DEF OpenReport
  <2>4. OpenStep' = OpenStep
    <3>1. grants.step # <<>> => Taken(grants.step[1].slot)' = Taken(grants.step[1].slot)
      BY <1>2, <1>5 DEF Taken, AlikeCalls, Alike
    <3>2. StepOpen' <=> StepOpen
      BY <1>2, <1>3, <1>4, <1>5, <3>1 DEF StepOpen
    <3>3. StepOpen => sent # <<>>
      BY <1>1 DEF StepOpen, StepStands
    <3> QED BY <1>5, <3>2, <3>3 DEF OpenStep
  <2> QED BY <1>3, <1>4, <2>1, <2>2, <2>3, <2>4
<1> QED BY <1>9, <1>10, <1>11, <1>12, <1>13, <1>14, <1>15, <1>16 DEF BudgetInv, Ground

-----------------------------------------------------------------------------
(* What the author grants.                                                 *)

LEMMA MaxOfTwo ==
  ASSUME NEW a \in Nat, NEW b \in Nat
  PROVE  Max({a, b}) \in Nat /\ Max({a, b}) >= a /\ Max({a, b}) >= b
<1> DEFINE top == IF a >= b THEN a ELSE b
<1>1. top \in {a, b} /\ \A y \in {a, b} : top >= y
    OBVIOUS
<1>2. Max({a, b}) \in {a, b} /\ \A y \in {a, b} : Max({a, b}) >= y
    BY <1>1 DEF Max
<1> QED BY <1>2

LEMMA KeptHistory ==
  ASSUME Ground, sent' = sent, ~Running, Amended => Amended',
         \A i \in DOMAIN sent : SlotsIn(sent[i].amending)' = SlotsIn(sent[i].amending)
  PROVE  History'
<1>1. \A i \in DOMAIN sent : sent[i].status # "executing"
    BY DEF Ground, History
<1>2. \A i \in DOMAIN sent : SlotFor(sent[i].action, sent[i].amending)' = SlotFor(sent[i].action, sent[i].amending)
    BY DEF SlotFor
<1> SUFFICES ASSUME NEW i \in DOMAIN sent
             PROVE  /\ sent[i].cost \in {Unpriced, MostOf(sent[i])}
                    /\ sent[i].status \in Over \cup {"executing", "completed"}
                    /\ sent[i].amending <=> sent[i].action \in AmendmentActions
                    /\ sent[i].amending => Amended'
                    /\ sent[i].action \in ToSet(SlotsIn(sent[i].amending))
                    /\ sent[i].by = "slot" => sent[i].replaces = 0 /\ sent[i].slot = SlotFor(sent[i].action, sent[i].amending)
                    /\ sent[i].by # "slot" => /\ i > 1 /\ sent[i].replaces = i - 1
                                        /\ sent[i - 1].action = sent[i].action
                    /\ \E j \in 1..i : sent[j].by = "slot" /\ sent[j].action = sent[i].action
                    /\ \A j \in DOMAIN sent : i < j /\ sent[j].action = sent[i].action => sent[i].status \in Over
    BY <1>1, <1>2 DEF History
<1> QED BY DEF Ground, History

LEMMA InputKeeps ==
  ASSUME BudgetInv, NEW allRoles \in BOOLEAN, AuthorizeInput(allRoles)
  PROVE  BudgetInv'
<1> DEFINE s         == EffectiveSpec
           proposed  == IF allRoles THEN WithLimits(2, 2) ELSE [s.limits EXCEPT !.input = 2]
           effective == IF allRoles THEN proposed ELSE [WithLimits(1, 1) EXCEPT !.input = 2]
           remaining == ToSet(SlotsFor(design)) \ UsedActions(AllCalls)
           total     == KnownCost(AllCalls) + EstimateCost(proposed, remaining)
           most      == Max({s.max, total})
<1>0. Ground /\ InFlight /\ ResumeFits /\ StepStands /\ ReportStands /\ ByReport /\ InOrder /\ InputsFit /\ Headroom /\ Facts
    BY FactsNow DEF BudgetInv, Ground
<1>1. /\ standing.status \in {"needs_attention", "awaiting_plan", "paused"} /\ ~Amended /\ progress.memory = 0
      /\ sent # <<>> /\ \A i \in DOMAIN sent : sent[i].status = "completed"
    BY DEF AuthorizeInput, InputEligible
<1>2. /\ \A i \in DOMAIN sent : sent[i].cost # Unpriced
      /\ grants' = [grants EXCEPT !.input = <<[limits |-> effective, max |-> most]>>]
      /\ progress' = [progress EXCEPT !.input = @ + 1]
      /\ design' = design /\ sent' = sent /\ resume' = resume
    BY DEF AuthorizeInput
<1>3. standing' = Stage(standing'.status, standing'.next, standing'.authorized) /\ ~Running /\ ~Running'
    BY <1>1 DEF AuthorizeInput, Start, Stage, Running
<1>4. s \in Specs /\ s.limits \in Limits /\ s.max \in Nat
    BY <1>0 DEF Facts, AgreedFacts, Specs
<1>5. proposed \in Limits /\ effective \in Limits /\ NoMore(effective, proposed) /\ effective.input = 2
    BY <1>4, SmallLimits DEF Limits, NoMore
<1>6. ToSet(ActiveSlots) = ToSet(SlotsFor(design)) /\ ScopedCalls = AllCalls /\ Left = remaining
      /\ IsFiniteSet(remaining)
  <2>1. ActiveSlots = SlotsFor(design) /\ ScopedCalls = AllCalls
    BY <1>1 DEF ActiveSlots, ScopedCalls
  <2>2. IsFiniteSet(Left)
    BY <1>0, Amounts DEF AmountFacts
  <2> QED BY <2>1, <2>2 DEF Left
<1> HIDE DEF s, proposed, effective, remaining
<1>7. KnownCost(AllCalls) = Exposure /\ Exposure \in Nat
    BY <1>0, <1>2, <1>6 DEF Facts, ChargedFacts, AllCalls
<1>8. EstimateCost(proposed, remaining) \in Nat
    BY <1>5, <1>6, EstimateNat
<1>9. EstimateCost(effective, remaining) <= EstimateCost(proposed, remaining)
      /\ EstimateCost(effective, remaining) \in Nat
  <2>1. remaining \in SUBSET remaining
    OBVIOUS
  <2> QED BY <1>5, <1>6, <2>1, EstimateMore, EstimateNat
<1>10. most \in Nat /\ most >= total /\ total \in Nat
  <2>1. total \in Nat
    BY <1>7, <1>8
  <2> HIDE DEF total
  <2> QED BY <1>4, <2>1, MaxOfTwo
<1> HIDE DEF most
<1>11. grants'.input = <<[limits |-> effective, max |-> most]>> /\ grants'.memory = grants.memory
       /\ grants'.step = grants.step /\ grants'.amendment = grants.amendment
       /\ grants' = [input |-> grants'.input, memory |-> grants'.memory, step |-> grants'.step,
                 amendment |-> grants'.amendment]
  <2>1. grants = [input |-> grants.input, memory |-> grants.memory, step |-> grants.step,
                 amendment |-> grants.amendment]
    BY <1>0 DEF Ground, BudgetRows
  <2> QED BY <1>2, <2>1
<1>12. progress \in Progress /\ progress' \in Progress /\ progress'.memory = 0 /\ progress'.amendment = progress.amendment
  <2>1. progress \in Progress
    BY <1>0 DEF Ground, BudgetRows
  <2>2. progress.input + 1 \in Nat
    BY <2>1 DEF Progress
  <2> QED BY <1>1, <1>2, <2>1, <2>2 DEF Progress
<1>13. grants.memory = <<>> /\ grants.step = <<>>
  <2>1. grants.memory = <<>>
    BY <1>0, <1>1 DEF Ground, GrantsGiven
  <2>2. grants.step = <<>>
    BY <1>0, <1>1 DEF StepStands, Over
  <2> QED BY <2>1, <2>2
<1>14. Amended' = Amended
    BY <1>12 DEF Amended
<1>15. BudgetRows'
  <2>1. grants'.input # <<>> /\ grants'.input[1] \in InputGrants
    BY <1>5, <1>10, <1>11 DEF InputGrants
  <2>2. LastCall' = LastCall
    BY <1>2 DEF LastCall
  <2> QED BY <1>0, <1>2, <1>3, <1>11, <1>12, <2>1, <2>2 DEF Ground, BudgetRows
<1>16. AmendmentFits' /\ GrantsGiven'
    BY <1>0, <1>1, <1>11, <1>12, <1>14 DEF Ground, AmendmentFits, GrantsGiven
<1>17. ActiveSlots' = ActiveSlots /\ \A b \in BOOLEAN : SlotsIn(b)' = SlotsIn(b)
    BY <1>2, <1>11, <1>14 DEF ActiveSlots, SlotsIn
<1>18. History'
  <2>1. \A i \in DOMAIN sent : SlotsIn(sent[i].amending)' = SlotsIn(sent[i].amending)
    BY <1>2, <1>11 DEF SlotsIn
  <2> QED BY <1>0, <1>2, <1>3, <1>14, <2>1, KeptHistory
<1>19. Ground' /\ InFlight' /\ ResumeFits'
  <2>1. Ground'
    BY <1>15, <1>16, <1>18 DEF Ground
  <2>2. InFlight'
    BY <1>3 DEF InFlight
  <2>3. LastCall' = LastCall /\ LastCall.status = "completed"
    BY <1>0, <1>1, <1>2, LastIsCall DEF LastCall, Ground
  <2> QED BY <2>1, <2>2, <2>3 DEF ResumeFits
<1>20. StepStands' /\ ReportStands' /\ ByReport' /\ InOrder'
    BY <1>0, <1>1, <1>2, <1>11, <1>13, <1>14 DEF StepStands, ReportStands, ByReport, InOrder
<1>21. SpecInForce'.limits = effective /\ SpecInForce'.max = most
  <2>1. EffectiveSpec'.limits = effective /\ EffectiveSpec'.max = most
    BY <1>11 DEF EffectiveSpec
  <2>2. Facts'
    BY <1>19, FactsNext
  <2>3. ~StepInScope' /\ ~ReportInScope' /\ ~Amended'
    BY <1>1, <1>11, <1>13, <1>14 DEF StepInScope, ReportInScope
  <2>4. SpecInForce' = EffectiveSpec'
    BY <2>2, <2>3 DEF Facts, InForceFacts, WidenedFacts, AgreedFacts
  <2> QED BY <2>1, <2>4
<1>22. InputsFit'
  <2>1. \A i \in DOMAIN sent : sent[i].input <= 2
    <3>1. \A i \in DOMAIN sent : sent[i] \in Calls
      BY <1>0 DEF Ground, BudgetRows
    <3> QED BY <3>1 DEF Calls
  <2> QED BY <1>2, <1>5, <1>21, <2>1 DEF InputsFit
<1>23. Headroom'
  <2>1. ScopedCalls' = ScopedCalls /\ AllCalls' = AllCalls
    BY <1>2, <1>14 DEF ScopedCalls, AllCalls
  <2>2. Exposure' = Exposure
    BY <1>2, <2>1 DEF Exposure, KnownCost, Reserve
  <2>3. Left' = remaining
    BY <1>2, <1>6, <1>17, <2>1 DEF Left, UsedActions
  <2>4. OpenReport' = 0 /\ OpenStep' = 0
    BY <1>11, <1>13 DEF OpenReport, OpenStep, ReportOpen, StepOpen
  <2>5. EstimateCost(SpecInForce.limits, Left)' = EstimateCost(effective, remaining)
    BY <1>21, <2>3
  <2>6. Exposure + EstimateCost(effective, remaining) <= most
    BY <1>7, <1>8, <1>9, <1>10
  <2> QED BY <1>7, <1>9, <1>21, <2>2, <2>4, <2>5, <2>6 DEF Headroom
<1> QED BY <1>19, <1>20, <1>22, <1>23 DEF BudgetInv, Ground

-----------------------------------------------------------------------------
(* A report repeated by authorization.                                     *)

LEMMA ReportAsked ==
  ASSUME Ground, sent # <<>>, LastCall.action[1] = (IF Amended THEN "memory_amend" ELSE "memory")
  PROVE  /\ LastCall.amending = Amended /\ RoleFor(LastCall.action) = "memory"
         /\ LastCall.action \in ToSet(ActiveSlots) /\ LastCall.action \in UsedActions(ScopedCalls)
         /\ Len(sent) \in DOMAIN sent /\ LastCall = sent[Len(sent)] /\ LastCall \in Calls
<1>1. Len(sent) \in DOMAIN sent /\ LastCall = sent[Len(sent)] /\ LastCall \in Calls
    BY LastIsCall DEF Ground, LastCall
<1>2. LastCall.action \in Actions /\ LastCall.amending \in BOOLEAN /\ Amended \in BOOLEAN
    BY <1>1 DEF Calls, Amended
<1>3. LastCall.amending <=> LastCall.action \in AmendmentActions
    BY <1>1 DEF Ground, History
<1>4. LastCall.action \in AmendmentActions <=> Amended
  <2>1. CASE Amended
    <3>1. LastCall.action \notin StageActions
      BY <2>1 DEF StageActions, Named
    <3> QED BY <1>2, <2>1, <3>1 DEF Actions
  <2>2. CASE ~Amended
    BY <2>2 DEF AmendmentActions, Only
  <2> QED BY <2>1, <2>2
<1>5. LastCall.amending = Amended
    BY <1>2, <1>3, <1>4
<1>6. RoleFor(LastCall.action) = "memory"
    BY DEF RoleFor
<1>7. LastCall.action \in ToSet(ActiveSlots)
  <2>1. LastCall.action \in ToSet(SlotsIn(LastCall.amending))
    BY <1>1 DEF Ground, History
  <2> QED BY <1>5, <2>1, FactsNow DEF Facts, ActiveFacts
<1>8. LastCall.action \in UsedActions(ScopedCalls)
  <2>1. Len(sent) \in ScopedCalls
    BY <1>1, <1>4 DEF ScopedCalls, AllCalls
  <2> QED BY <1>1, <2>1 DEF UsedActions
<1> QED BY <1>1, <1>5, <1>6, <1>7, <1>8

LEMMA MemoryKeeps ==
  ASSUME BudgetInv, NEW allRoles \in BOOLEAN, AuthorizeMemory(allRoles)
  PROVE  BudgetInv'
<1> DEFINE s         == AmendmentSpec(EffectiveSpec)
           limits    == IF allRoles THEN WithLimits(2, 2) ELSE [s.limits EXCEPT !.memory = 2]
           remaining == {LastCall.action} \cup (ToSet(ActiveSlots) \ UsedActions(ScopedCalls))
           total     == KnownCost(ScopedCalls) + EstimateCost(limits, remaining)
           most      == Max({s.max, total})
           slot      == (IF Amended THEN 300 ELSE 200) + PlaceOf(ActiveSlots, LastCall.action) - 1
           g         == [action |-> LastCall.action, amending |-> Amended, failed |-> Len(sent),
                         slot |-> slot, limits |-> limits, max |-> most,
                         previousMax |-> s.max, previousInput |-> s.limits.input,
                         bindings |-> Bindings(progress)]
<1>0. Ground /\ InFlight /\ ResumeFits /\ StepStands /\ ReportStands /\ ByReport /\ InOrder /\ InputsFit /\ Headroom /\ Facts
    BY FactsNow DEF BudgetInv, Ground
<1>1. /\ standing.status \in {"needs_attention", "paused"} /\ progress.memory = 0
      /\ sent # <<>> /\ LastCall.status = "exhausted"
      /\ LastCall.action[1] = (IF Amended THEN "memory_amend" ELSE "memory")
    BY DEF AuthorizeMemory, MemoryEligible
<1>2. /\ \A i \in DOMAIN sent : sent[i].cost # Unpriced
      /\ grants' = [grants EXCEPT !.memory = <<g>>]
      /\ progress' = [progress EXCEPT !.memory = 1]
      /\ design' = design /\ sent' = sent /\ resume' = resume
    BY DEF AuthorizeMemory
<1>3. /\ standing' = Stage(standing'.status, standing'.next, standing'.authorized) /\ ~Running /\ ~Running'
      /\ standing'.next = LastCall.action
    BY <1>1 DEF AuthorizeMemory, Start, Stage, Running
<1>4. s \in Specs /\ s.limits \in Limits /\ s.max \in Nat /\ s.limits.input \in 1..2 /\ s = Agreed
  <2>1. s = Agreed
    BY DEF Agreed
  <2> HIDE DEF s
  <2> QED BY <1>0, <2>1 DEF Facts, AgreedFacts, Specs, Limits
<1>5. limits \in Limits /\ s.limits.input <= limits.input
    BY <1>4, SmallLimits DEF Limits
<1>6. /\ LastCall.amending = Amended /\ RoleFor(LastCall.action) = "memory"
      /\ LastCall.action \in ToSet(ActiveSlots) /\ LastCall.action \in UsedActions(ScopedCalls)
      /\ Len(sent) \in DOMAIN sent /\ LastCall = sent[Len(sent)] /\ LastCall \in Calls
    BY <1>0, <1>1, ReportAsked
<1>7. LastCall.action \in Actions /\ Len(sent) \in Nat /\ Amended \in BOOLEAN
    BY <1>0, <1>6 DEF Calls, Amended, Facts, ChargedFacts
<1>8. slot \in Nat
  <2>1. PlaceOf(ActiveSlots, LastCall.action) \in 1..Len(ActiveSlots) /\ Len(ActiveSlots) \in Nat
    BY <1>0, <1>6, PlaceInNat
  <2> QED BY <2>1
<1>9. remaining = Left \cup {LastCall.action} /\ LastCall.action \notin Left /\ IsFiniteSet(Left)
  <2>1. IsFiniteSet(Left)
    BY <1>0, Amounts DEF AmountFacts
  <2> QED BY <1>6, <2>1 DEF Left
<1>10. KnownCost(ScopedCalls) = Exposure /\ Exposure \in Nat
    BY <1>0, <1>2 DEF Facts, ChargedFacts, ScopedCalls, AllCalls
<1> HIDE DEF s, limits, remaining, slot
<1>11. /\ EstimateCost(limits, remaining) = EstimateCost(limits, Left) + limits.input + limits.memory
       /\ EstimateCost(limits, Left) \in Nat /\ limits.input \in Nat /\ limits.memory \in Nat
  <2>1. OutputOf(limits, LastCall.action) = limits.memory
    BY <1>6 DEF OutputOf
  <2>2. EstimateCost(limits, Left \cup {LastCall.action})
          = EstimateCost(limits, Left) + limits.input + OutputOf(limits, LastCall.action)
    BY <1>5, <1>9, EstimateOne
  <2> QED BY <1>5, <1>9, <2>1, <2>2, EstimateNat DEF Limits
<1>12. most \in Nat /\ most >= total /\ total \in Nat
  <2>1. total \in Nat
    BY <1>10, <1>11
  <2> HIDE DEF total
  <2> QED BY <1>4, <2>1, MaxOfTwo
<1>13. total = Exposure + EstimateCost(limits, Left) + limits.input + limits.memory
    BY <1>10, <1>11
<1> HIDE DEF most, total
<1>14. progress \in Progress /\ Bindings(progress) \in Nat \X Nat \X Nat \X Nat \X Nat \X Nat
       /\ BoundAt(Bindings(progress)) = Course(progress)
  <2>1. progress \in Progress
    BY <1>0 DEF Ground, BudgetRows
  <2>2. /\ progress.plan \in Nat /\ progress.written \in Nat /\ progress.handed \in Nat
        /\ progress.input \in Nat /\ progress.amendment \in Nat /\ progress.text \in Nat
    BY <2>1 DEF Progress
  <2>3. Bindings(progress)[1] = progress.plan /\ Bindings(progress)[5] = progress.amendment
    BY DEF Bindings
  <2> QED BY <2>1, <2>2, <2>3 DEF Bindings, BoundAt, Course
<1>15. g \in ReportGrants /\ g.slot = slot /\ g.limits = limits /\ g.max = most /\ g.amending = Amended
       /\ g.action = LastCall.action /\ g.failed = Len(sent) /\ g.bindings = Bindings(progress)
  <2> DEFINE b == Bindings(progress)
             n == Len(sent)
             a == LastCall.action
             m == Amended
  <2>1. g = [action |-> a, amending |-> m, failed |-> n, slot |-> slot, limits |-> limits, max |-> most,
             previousMax |-> s.max, previousInput |-> s.limits.input, bindings |-> b]
    OBVIOUS
  <2>2. a \in Actions /\ m \in BOOLEAN /\ n \in Nat /\ b \in Nat \X Nat \X Nat \X Nat \X Nat \X Nat
    BY <1>7, <1>14
  <2> HIDE DEF a, b, m, n
  <2>3. g \in ReportGrants /\ g.slot = slot /\ g.limits = limits /\ g.max = most /\ g.amending = m
       /\ g.action = a /\ g.failed = n /\ g.bindings = b
    BY <1>4, <1>5, <1>8, <1>12, <2>1, <2>2 DEF ReportGrants
  <2> QED BY <2>3 DEF a, b, m, n
<1> HIDE DEF g
<1>16. grants'.memory = <<g>> /\ grants'.input = grants.input
       /\ grants'.step = grants.step /\ grants'.amendment = grants.amendment
       /\ grants' = [input |-> grants'.input, memory |-> grants'.memory, step |-> grants'.step,
                 amendment |-> grants'.amendment] /\ grants'.memory # <<>> /\ grants'.memory[1] = g
  <2>1. grants = [input |-> grants.input, memory |-> grants.memory, step |-> grants.step,
                 amendment |-> grants.amendment]
    BY <1>0 DEF Ground, BudgetRows
  <2>2. <<g>> # <<>> /\ <<g>>[1] = g
    OBVIOUS
  <2> QED BY <1>2, <2>1, <2>2
<1>17. /\ progress' \in Progress /\ progress'.memory = 1 /\ progress'.amendment = progress.amendment
       /\ Mark(progress') = Mark(progress) + 1 /\ Mark(progress) \in Nat /\ Course(progress') = Course(progress)
       /\ Course(progress) \in Nat
  <2>1. progress' \in Progress /\ progress'.memory = 1 /\ progress'.amendment = progress.amendment
        /\ progress'.plan = progress.plan
    BY <1>2, <1>14 DEF Progress
  <2>2. Mark(progress) = progress.plan + 0 + progress.amendment /\ Course(progress) = progress.plan + progress.amendment
        /\ progress.plan \in Nat /\ progress.amendment \in 0..2
    BY <1>1, <1>14, MarkNat
  <2>3. Mark(progress') = progress.plan + 1 + progress.amendment /\ Course(progress') = progress.plan + progress.amendment
    BY <2>1 DEF Mark, Course
  <2>4. Mark(progress') = Mark(progress) + 1 /\ Mark(progress) \in Nat /\ Course(progress') = Course(progress)
        /\ Course(progress) \in Nat
    BY <2>2, <2>3
  <2> QED BY <2>1, <2>4
<1>18. grants.memory = <<>>
    BY <1>0, <1>1 DEF Ground, GrantsGiven
<1>19. Amended' = Amended /\ LastCall' = LastCall
    BY <1>2, <1>17 DEF Amended, LastCall
<1>20. BudgetRows'
    BY <1>0, <1>2, <1>3, <1>15, <1>16, <1>17, <1>19 DEF Ground, BudgetRows
<1>21. AmendmentFits' /\ GrantsGiven'
    BY <1>0, <1>15, <1>16, <1>17, <1>19 DEF Ground, AmendmentFits, GrantsGiven
<1>22. ActiveSlots' = ActiveSlots /\ SlotsIn(TRUE)' = SlotsIn(TRUE)
    BY <1>2, <1>16, <1>19 DEF ActiveSlots, SlotsIn
<1>23. History'
  <2>1. \A i \in DOMAIN sent : SlotsIn(sent[i].amending)' = SlotsIn(sent[i].amending)
    BY <1>2, <1>16 DEF SlotsIn
  <2> QED BY <1>0, <1>2, <1>3, <1>19, <2>1, KeptHistory
<1>24. Ground' /\ InFlight' /\ ResumeFits'
    BY <1>0, <1>2, <1>3, <1>17, <1>19, <1>20, <1>21, <1>23 DEF Ground, InFlight, ResumeFits
<1>25. StepStands'
  <2> SUFFICES ASSUME grants.step # <<>> PROVE StepStands'
    BY <1>16 DEF StepStands
  <2> DEFINE h == grants.step[1]
  <2>1. h \in StepGrants /\ Mark(h.restore) \in Nat
    BY <1>0, MarkNat DEF Ground, BudgetRows, StepGrants
  <2>2. /\ h.failed \in DOMAIN sent /\ sent[h.failed].status \in Over
        /\ sent[h.failed].action = h.action /\ sent[h.failed].amending = h.amending
        /\ h.failed = Len(sent) => h.restore = resume.before
        /\ ~Taken(h.slot) => Mark(progress) >= Mark(h.restore)
        /\ ~Taken(h.slot) => (h.failed # Len(sent) /\ LastCall.status # "completed"
                      => Mark(resume.before) > Mark(h.restore))
    BY <1>0 DEF StepStands
  <2>3. Taken(h.slot)' = Taken(h.slot)
    BY <1>2, <1>16 DEF Taken
  <2>4. ~Taken(h.slot) => Mark(progress') > Mark(h.restore) /\ Mark(progress') >= Mark(h.restore)
    BY <1>17, <2>1, <2>2
  <2> QED BY <1>2, <1>16, <1>19, <2>2, <2>3, <2>4 DEF StepStands
<1>26. ReportStands'
  <2>1. resume.after.memory = 0
    BY <1>0, <1>1 DEF ResumeFits
  <2>2. Course(progress') >= BoundAt(g.bindings)
    BY <1>14, <1>15, <1>17
  <2>3. LastCall.status \in Over
    BY <1>1 DEF Over
  <2> QED BY <1>2, <1>3, <1>6, <1>15, <1>16, <1>19, <2>1, <2>2, <2>3 DEF ReportStands
<1>27. ByReport'
    BY <1>0, <1>2, <1>18 DEF ByReport
<1>28. InOrder'
  <2>1. PassedOver' = PassedOver /\ UsedActions(AllCalls)' = UsedActions(AllCalls)
    BY <1>2 DEF PassedOver, UsedActions, AllCalls
  <2>2. \A a : Earlier(a)' = Earlier(a)
    BY <1>22 DEF Earlier
  <2> SUFFICES ASSUME Amended, ~PassedOver PROVE InOrder'
    BY <1>19, <2>1 DEF InOrder
  <2>3. \A i \in DOMAIN sent : sent[i].amending => Earlier(sent[i].action) \subseteq UsedActions(AllCalls)
    BY <1>0 DEF InOrder
  <2>4. Earlier(LastCall.action) \subseteq UsedActions(AllCalls)
    BY <1>6, <2>3
  <2>5. \A i \in DOMAIN sent : Earlier(sent[i].action)' = Earlier(sent'[i].action)
    BY <1>2, <1>22 DEF Earlier
  <2>6. Earlier(standing.next)' = Earlier(LastCall.action)
    BY <1>3, <1>22 DEF Earlier
  <2> QED BY <1>2, <2>1, <2>2, <2>3, <2>4, <2>5, <2>6 DEF InOrder
<1>29. /\ SpecInForce'.limits = limits /\ SpecInForce'.max \in Nat
       /\ SpecInForce'.ok => SpecInForce'.max >= most
  <2>1. Facts'
    BY <1>24, FactsNext
  <2>2. ReportInScope'
    BY <1>15, <1>16, <1>19 DEF ReportInScope
  <2>3. Widened'.limits = limits /\ Widened'.max = most
    BY <1>15, <1>16, <2>1, <2>2 DEF Facts, WidenedFacts
  <2>4. SpecInForce'.limits = limits /\ SpecInForce'.max \in Nat
    BY <2>1, <2>3 DEF Facts, InForceFacts, Specs
  <2>5. CASE StepInScope'
    BY <1>12, <2>1, <2>3, <2>4, <2>5 DEF Facts, InForceFacts
  <2>6. CASE ~StepInScope'
    BY <1>12, <2>1, <2>3, <2>4, <2>6 DEF Facts, InForceFacts
  <2> QED BY <2>4, <2>5, <2>6
<1>30. InputsFit'
  <2>1. SpecInForce.limits.input = s.limits.input
    <3>1. ~ReportInScope
      BY <1>18 DEF ReportInScope
    <3> QED BY <1>0, <1>4, <3>1 DEF Facts, InForceFacts, WidenedFacts
  <2>2. \A i \in DOMAIN sent : sent[i].input \in 1..2
    <3>1. \A i \in DOMAIN sent : sent[i] \in Calls
      BY <1>0 DEF Ground, BudgetRows
    <3> QED BY <3>1 DEF Calls
  <2>3. \A i \in DOMAIN sent : sent[i].amending = Amended => sent[i].input <= limits.input
    BY <1>0, <1>4, <1>5, <1>11, <2>1, <2>2 DEF InputsFit
  <2> QED BY <1>2, <1>19, <1>29, <2>3 DEF InputsFit
<1>31. Headroom'
  <2>1. ScopedCalls' = ScopedCalls /\ AllCalls' = AllCalls
    BY <1>2, <1>19 DEF ScopedCalls, AllCalls
  <2>2. Exposure' = Exposure
    BY <1>2, <2>1 DEF Exposure, KnownCost, Reserve
  <2>3. Left' = Left
    BY <1>2, <1>22, <2>1 DEF Left, UsedActions
  <2>4. ~StepOpen'
    <3> SUFFICES ASSUME StepOpen' PROVE FALSE
      OBVIOUS
    <3>1. grants.step # <<>> /\ ~Taken(grants.step[1].slot) /\ Mark(progress') = Mark(grants.step[1].restore)
      BY <1>2, <1>16 DEF StepOpen, Taken
    <3>2. Mark(progress) >= Mark(grants.step[1].restore)
      BY <1>0, <3>1 DEF StepStands
    <3> QED BY <1>17, <3>1, <3>2
  <2>5. OpenStep' = 0
    BY <2>4 DEF OpenStep
  <2>6. OpenReport' = limits.input + limits.memory \/ OpenReport' = 0
    BY <1>29 DEF OpenReport
  <2>7. EstimateCost(SpecInForce.limits, Left)' = EstimateCost(limits, Left)
    BY <1>29, <2>3
  <2> DEFINE e == EstimateCost(limits, Left)
             x == Exposure
             y == OpenReport'
             z == SpecInForce'.max
  <2>8. SpecInForce'.ok => x + e + y + 0 <= z
    <3>1. x \in Nat /\ e \in Nat /\ z \in Nat /\ (SpecInForce'.ok => z >= most)
          /\ most >= x + e + limits.input + limits.memory
      BY <1>10, <1>11, <1>12, <1>13, <1>29
    <3>2. y = limits.input + limits.memory \/ y = 0
      BY <2>6
    <3> HIDE DEF e, x, y, z
    <3> QED BY <1>11, <1>12, <3>1, <3>2
  <2> QED BY <2>2, <2>5, <2>7, <2>8 DEF Headroom
<1> QED BY <1>24, <1>25, <1>26, <1>27, <1>28, <1>30, <1>31 DEF BudgetInv, Ground

-----------------------------------------------------------------------------
(* Amendments.                                                             *)

Before == Ground /\ InFlight /\ ResumeFits /\ StepStands /\ ReportStands /\ ByReport /\ InOrder
            /\ InputsFit /\ Headroom /\ Facts

LEMMA BeforeNow == BudgetInv => Before
BY FactsNow DEF BudgetInv, Ground, Before

\* An amendment moves the marks, and leaves the calls alone.
Amends ==
    /\ design' = design /\ sent' = sent /\ resume' = resume /\ ~Running /\ ~Running'
    /\ grants'.input = grants.input /\ grants'.memory = grants.memory /\ grants'.step = grants.step
    /\ ~Amended
    /\ progress' \in Progress /\ progress'.plan = progress.plan /\ progress'.memory = progress.memory
    /\ progress'.amendment = progress.amendment + 1

LEMMA AmendsStands ==
  ASSUME Before, Amends
  PROVE  /\ StepStands' /\ ReportStands' /\ ByReport' /\ ResumeFits' /\ InFlight'
         /\ ~StepOpen' /\ LastCall' = LastCall
         /\ grants.memory # <<>> => ~grants.memory[1].amending
         /\ grants.step # <<>> => ~grants.step[1].amending
         /\ \A i \in DOMAIN sent : sent[i].amending = FALSE /\ sent[i].action \notin AmendmentActions
<1>0. Ground /\ ResumeFits /\ StepStands /\ ReportStands /\ ByReport
    BY DEF Before
<1>1. progress \in Progress /\ progress' \in Progress
    BY <1>0 DEF Ground, BudgetRows, Amends
<1>2. /\ Mark(progress') = Mark(progress) + 1 /\ Course(progress') = Course(progress) + 1
      /\ Mark(progress) \in Nat /\ Course(progress) \in Nat
  <2>1. /\ Mark(progress) = progress.plan + progress.memory + progress.amendment
        /\ Course(progress) = progress.plan + progress.amendment
        /\ progress.plan \in Nat /\ progress.memory \in 0..1 /\ progress.amendment \in 0..2
    BY <1>1, MarkNat
  <2>2. /\ Mark(progress') = progress.plan + progress.memory + (progress.amendment + 1)
        /\ Course(progress') = progress.plan + (progress.amendment + 1)
    BY DEF Mark, Course, Amends
  <2> QED BY <2>1, <2>2
<1>3. LastCall' = LastCall
    BY DEF LastCall, Amends
<1>4. StepStands' /\ ~StepOpen'
  <2>1. CASE grants.step = <<>>
    BY <2>1 DEF Amends, StepStands, StepOpen
  <2>2. CASE grants.step # <<>>
    <3> DEFINE h == grants.step[1]
    <3>1. h \in StepGrants /\ Mark(h.restore) \in Nat
      BY <1>0, <2>2, MarkNat DEF Ground, BudgetRows, StepGrants
    <3>2. /\ h.failed \in DOMAIN sent /\ sent[h.failed].status \in Over
          /\ sent[h.failed].action = h.action /\ sent[h.failed].amending = h.amending
          /\ h.failed = Len(sent) => h.restore = resume.before
          /\ ~Taken(h.slot) => Mark(progress) >= Mark(h.restore)
          /\ ~Taken(h.slot) => (h.failed # Len(sent) /\ LastCall.status # "completed"
                      => Mark(resume.before) > Mark(h.restore))
      BY <1>0, <2>2 DEF StepStands
    <3>3. Taken(h.slot)' = Taken(h.slot)
      BY DEF Amends, Taken
    <3>4. ~Taken(h.slot) => Mark(progress') > Mark(h.restore) /\ Mark(progress') >= Mark(h.restore)
      BY <1>2, <3>1, <3>2
    <3>5. StepStands'
      BY <1>3, <2>2, <3>2, <3>3, <3>4 DEF StepStands, Amends
    <3>6. ~Taken(h.slot) => Mark(progress') # Mark(h.restore)
      BY <1>2, <3>1, <3>4
    <3>7. StepOpen' => ~Taken(h.slot) /\ Mark(progress') = Mark(h.restore)
      BY <3>3 DEF StepOpen, Amends
    <3> QED BY <3>5, <3>6, <3>7
  <2> QED BY <2>1, <2>2
<1>5. ReportStands'
  <2> SUFFICES ASSUME grants.memory # <<>> PROVE ReportStands'
    BY DEF Amends, ReportStands
  <2> DEFINE h == grants.memory[1]
  <2>1. BoundAt(h.bindings) \in Nat
    BY <1>0, BoundNat DEF Ground
  <2>2. /\ h.failed \in DOMAIN sent /\ sent[h.failed].status \in Over
        /\ sent[h.failed].action = h.action /\ sent[h.failed].amending = h.amending
        /\ RoleFor(h.action) = "memory"
        /\ h.failed = Len(sent) => resume.after.memory = 0
        /\ ~Taken(h.slot) => Course(progress) >= BoundAt(h.bindings)
        /\ ~Taken(h.slot) => (h.failed # Len(sent) /\ LastCall.status # "completed"
                    => Course(resume.before) > BoundAt(h.bindings))
    BY <1>0 DEF ReportStands
  <2>3. Taken(h.slot)' = Taken(h.slot)
    BY DEF Amends, Taken
  <2>4. ~Taken(h.slot) => Course(progress') > BoundAt(h.bindings) /\ Course(progress') >= BoundAt(h.bindings)
    BY <1>2, <2>1, <2>2
  <2> QED BY <1>3, <2>2, <2>3, <2>4 DEF ReportStands, Amends
<1>6. ByReport' /\ ResumeFits' /\ InFlight'
    BY <1>0, <1>3 DEF ByReport, ResumeFits, InFlight, Amends
<1>7. /\ grants.memory # <<>> => ~grants.memory[1].amending
      /\ grants.step # <<>> => ~grants.step[1].amending
    BY <1>0 DEF Ground, GrantsGiven, Amends
<1>8. \A i \in DOMAIN sent : sent[i].amending = FALSE /\ sent[i].action \notin AmendmentActions
  <2> TAKE i \in DOMAIN sent
  <2>1. sent[i] \in Calls /\ ~sent[i].amending /\ (sent[i].amending <=> sent[i].action \in AmendmentActions)
    BY <1>0 DEF Ground, BudgetRows, History, Amends
  <2>2. sent[i].amending \in BOOLEAN
    BY <2>1 DEF Calls
  <2> QED BY <2>1, <2>2
<1> QED BY <1>3, <1>4, <1>5, <1>6, <1>7, <1>8

LEMMA PreviewKeeps ==
  ASSUME BudgetInv, NEW edits \in { <<>>, << Only("amend") >> }, PreviewAmendment(edits)
  PROVE  BudgetInv'
<1> DEFINE limits == WithLimits(1, 1)
           c == IF Wanted(design, "checker") = <<>> THEN <<>> ELSE << Only("checker_amend") >>
           r == IF Wanted(design, "reader") = <<>> THEN <<>> ELSE << Only("reader_amend") >>
           slots  == edits \o << Only("memory_amend") >> \o c \o r
           most == EstimateCost(limits, ToSet(slots))
           g == [slots |-> slots, limits |-> limits, max |-> most, text |-> progress.text]
<1>0. Before
    BY BeforeNow
<1>1. standing.status \in {"needs_attention", "paused"} /\ progress.amendment = 0 /\ grants' = [grants EXCEPT !.amendment = <<g>>]
      /\ progress' = [progress EXCEPT !.amendment = 1]
      /\ design' = design /\ standing' = standing /\ sent' = sent /\ resume' = resume
    BY DEF PreviewAmendment
<1>2. FitSlots(slots)
  <2>1. c \in {<<>>, << Only("checker_amend") >>} /\ r \in {<<>>, << Only("reader_amend") >>}
    OBVIOUS
  <2> HIDE DEF c, r
  <2>2. FitSlots(Listed(edits, c, r))
    BY <2>1, ListedFits
  <2> QED BY <2>2 DEF Listed
<1> HIDE DEF slots
<1>3. limits \in Limits /\ most \in Nat
  <2>1. IsFiniteSet(ToSet(slots))
    BY <1>2, FiniteRange DEF FitSlots
  <2> QED BY <2>1, SmallLimits, EstimateNat
<1> HIDE DEF limits
<1>4. progress \in Progress /\ progress' \in Progress /\ progress'.plan = progress.plan
      /\ progress'.memory = progress.memory /\ progress'.amendment = 1 /\ progress.text \in Nat
  <2>1. progress \in Progress
    BY <1>0 DEF Before, Ground, BudgetRows
  <2> QED BY <1>1, <2>1 DEF Progress
<1>5. g \in AmendmentGrants /\ g.slots = slots /\ g.limits = limits /\ g.max = most
  <2> DEFINE t == progress.text
             x == most
  <2>1. g = [slots |-> slots, limits |-> limits, max |-> x, text |-> t] /\ t \in Nat /\ x \in Nat
    BY <1>3, <1>4
  <2>2. slots \in Seq(Actions)
    BY <1>2 DEF FitSlots
  <2> HIDE DEF t, x
  <2>3. g \in AmendmentGrants /\ g.slots = slots /\ g.limits = limits /\ g.max = x
    BY <1>3, <2>1, <2>2 DEF AmendmentGrants
  <2> QED BY <2>3 DEF x
<1> HIDE DEF g
<1>6. grants'.amendment = <<g>> /\ grants'.input = grants.input /\ grants'.memory = grants.memory
      /\ grants'.step = grants.step
      /\ grants' = [input |-> grants'.input, memory |-> grants'.memory, step |-> grants'.step,
                 amendment |-> grants'.amendment] /\ grants'.amendment # <<>> /\ grants'.amendment[1] = g
  <2>1. grants = [input |-> grants.input, memory |-> grants.memory, step |-> grants.step,
                 amendment |-> grants.amendment]
    BY <1>0 DEF Before, Ground, BudgetRows
  <2>2. <<g>> # <<>> /\ <<g>>[1] = g
    OBVIOUS
  <2> QED BY <1>1, <2>1, <2>2
<1>7. ~Amended /\ ~Amended' /\ Amended' = Amended
    BY <1>1, <1>4 DEF Amended
<1>8. Amends
  <2>1. ~Running /\ ~Running'
    BY <1>1 DEF Running
  <2> QED BY <1>1, <1>4, <1>6, <1>7, <2>1 DEF Amends
<1>9. /\ StepStands' /\ ReportStands' /\ ByReport' /\ ResumeFits' /\ InFlight'
      /\ ~StepOpen' /\ LastCall' = LastCall
      /\ grants.memory # <<>> => ~grants.memory[1].amending
      /\ grants.step # <<>> => ~grants.step[1].amending
      /\ \A i \in DOMAIN sent : sent[i].amending = FALSE /\ sent[i].action \notin AmendmentActions
    BY <1>0, <1>8, AmendsStands
<1>10. BudgetRows'
    BY <1>0, <1>1, <1>4, <1>5, <1>6, <1>9 DEF Before, Ground, BudgetRows
<1>11. AmendmentFits'
    BY <1>2, <1>5, <1>6 DEF AmendmentFits, FitSlots
<1>12. GrantsGiven'
    BY <1>0, <1>4, <1>6, <1>9 DEF Before, Ground, GrantsGiven
<1>13. History'
  <2>1. \A i \in DOMAIN sent : SlotsIn(sent[i].amending)' = SlotsIn(sent[i].amending)
    BY <1>1, <1>9 DEF SlotsIn
  <2> QED BY <1>0, <1>1, <1>7, <1>8, <2>1, KeptHistory DEF Before, Amends
<1>14. Ground'
    BY <1>10, <1>11, <1>12, <1>13 DEF Ground
<1>15. InOrder'
    BY <1>7 DEF InOrder
<1>16. SpecInForce' = SpecInForce /\ ActiveSlots' = ActiveSlots
  <2>1. BaseSpec' = BaseSpec
    BY <1>1 DEF BaseSpec
  <2>2. EffectiveSpec' = EffectiveSpec
    BY <1>6, <2>1 DEF EffectiveSpec
  <2>3. Agreed' = Agreed
    BY <1>7, <2>2 DEF Agreed, AmendmentSpec
  <2>4. Widened' = Widened
    BY <1>6, <1>7, <2>3 DEF Widened, MemorySpec
  <2>5. SpecInForce' = StepSpec(Widened)' /\ SpecInForce = StepSpec(Widened)
    BY DEF SpecInForce, Widened, Agreed
  <2>6. SpecInForce' = SpecInForce
    BY <1>6, <1>7, <2>4, <2>5 DEF StepSpec
  <2> QED BY <1>1, <1>7, <2>6 DEF ActiveSlots
<1>17. InputsFit'
    BY <1>0, <1>1, <1>7, <1>16 DEF Before, InputsFit
<1>18. Headroom'
  <2>1. ScopedCalls' = ScopedCalls /\ AllCalls' = AllCalls
    BY <1>1, <1>7 DEF ScopedCalls, AllCalls
  <2>2. Exposure' = Exposure
    BY <1>1, <2>1 DEF Exposure, KnownCost, Reserve
  <2>3. Left' = Left
    BY <1>1, <1>16, <2>1 DEF Left, UsedActions
  <2>4. OpenStep' = 0
    BY <1>9 DEF OpenStep
  <2>5. OpenReport' = OpenReport
    BY <1>1, <1>6, <1>7, <1>16 DEF OpenReport, ReportOpen, Taken
  <2>6. Price' = Price
    BY <1>16, <2>3 DEF Price
  <2>7. ReplayedEarly' = ReplayedEarly
    BY <1>1 DEF ReplayedEarly, UsedActions
  <2> SUFFICES ASSUME SpecInForce'.ok, ~ReplayedEarly'
               PROVE  Exposure' + Price' + OpenReport' + OpenStep' <= SpecInForce'.max
    BY DEF Headroom, Price
  <2>8. Exposure + Price + OpenReport + OpenStep <= SpecInForce.max
    BY <1>0, <1>16, <2>7 DEF Before, Headroom, Price
  <2>9. AmountFacts /\ SpecInForce'.max = SpecInForce.max
    BY <1>0, <1>16, Amounts DEF Before
  <2> QED BY <2>2, <2>4, <2>5, <2>6, <2>8, <2>9 DEF AmountFacts
<1> QED BY <1>9, <1>14, <1>15, <1>17, <1>18 DEF BudgetInv, Ground

LEMMA AmendmentKeeps ==
  ASSUME BudgetInv, AuthorizeAmendment
  PROVE  BudgetInv'
<1> DEFINE g == grants.amendment[1]
<1>0. Before
    BY BeforeNow
<1>1. /\ progress.amendment = 1 /\ standing.status \in {"needs_attention", "paused"}
      /\ progress' = [progress EXCEPT !.amendment = 2]
      /\ standing' = Stage("queued", g.slots[1], TRUE)
      /\ design' = design /\ sent' = sent /\ grants' = grants /\ resume' = resume
    BY DEF AuthorizeAmendment, Start
<1>2. progress \in Progress /\ progress' \in Progress /\ progress'.plan = progress.plan
      /\ progress'.memory = progress.memory /\ progress'.amendment = 2
  <2>1. progress \in Progress
    BY <1>0 DEF Before, Ground, BudgetRows
  <2> QED BY <1>1, <2>1 DEF Progress
<1>3. ~Amended /\ Amended'
    BY <1>1, <1>2 DEF Amended
<1>4. standing' = Stage(standing'.status, standing'.next, standing'.authorized) /\ ~Running /\ ~Running'
      /\ standing'.next = g.slots[1]
    BY <1>1 DEF Stage, Running
<1>5. Amends
    BY <1>1, <1>2, <1>3, <1>4 DEF Amends
<1>6. /\ StepStands' /\ ReportStands' /\ ByReport' /\ ResumeFits' /\ InFlight'
      /\ ~StepOpen' /\ LastCall' = LastCall
      /\ grants.memory # <<>> => ~grants.memory[1].amending
      /\ grants.step # <<>> => ~grants.step[1].amending
      /\ \A i \in DOMAIN sent : sent[i].amending = FALSE /\ sent[i].action \notin AmendmentActions
    BY <1>0, <1>5, AmendsStands
<1>7. /\ grants.amendment # <<>> /\ g \in AmendmentGrants
      /\ \A i, j \in DOMAIN g.slots : g.slots[i] = g.slots[j] => i = j
      /\ g.slots # <<>> /\ g.slots \in Seq(Actions)
      /\ g.max = EstimateCost(g.limits, ToSet(g.slots))
  <2>1. grants.amendment # <<>>
    BY <1>0, <1>1 DEF Before, Ground, GrantsGiven
  <2>2. g \in AmendmentGrants
    BY <1>0, <2>1 DEF Before, Ground, BudgetRows
  <2> QED BY <1>0, <2>1, <2>2 DEF Before, Ground, AmendmentFits, AmendmentGrants
<1>8. BudgetRows'
    BY <1>0, <1>1, <1>2, <1>4, <1>6 DEF Before, Ground, BudgetRows
<1>9. AmendmentFits' /\ GrantsGiven'
    BY <1>0, <1>1, <1>2, <1>3 DEF Before, Ground, AmendmentFits, GrantsGiven
<1>10. History'
  <2>1. \A i \in DOMAIN sent : SlotsIn(sent[i].amending)' = SlotsIn(sent[i].amending)
    BY <1>1 DEF SlotsIn
  <2> QED BY <1>0, <1>1, <1>3, <1>4, <2>1, KeptHistory DEF Before
<1>11. Ground' /\ Facts'
    BY <1>8, <1>9, <1>10, FactsNext DEF Ground
<1>12. InOrder'
  <2>1. PlaceOf(g.slots, g.slots[1]) = 1
    <3> DEFINE s == g.slots
    <3>1. s \in Seq(Actions) /\ (\A i, j \in DOMAIN s : s[i] = s[j] => i = j) /\ s # <<>>
      BY <1>7
    <3> HIDE DEF s
    <3>2. 1 \in 1..Len(s)
      BY <3>1
    <3>3. PlaceOf(s, s[1]) = 1
      BY <3>1, <3>2, OnePlace
    <3> QED BY <3>3 DEF s
  <2>2. Earlier(standing.next)' = {}
    <3>1. Earlier(standing.next)' = {g.slots[j] : j \in 1..(PlaceOf(g.slots, g.slots[1]) - 1)}
      BY <1>1, <1>4 DEF Earlier, SlotsIn
    <3> QED BY <2>1, <3>1
  <2>3. \A i \in DOMAIN sent' : ~sent'[i].amending
    BY <1>1, <1>6
  <2> QED BY <2>2, <2>3 DEF InOrder
<1>13. InputsFit'
    BY <1>1, <1>3, <1>6 DEF InputsFit, Amended
<1>14. SpecInForce'.limits = g.limits /\ SpecInForce'.max = g.max
  <2>1. ~ReportInScope' /\ ~StepInScope'
    BY <1>1, <1>3, <1>6 DEF ReportInScope, StepInScope, Amended
  <2> QED BY <1>1, <1>3, <1>11, <2>1 DEF Facts, InForceFacts, WidenedFacts, AgreedFacts
<1>15. Headroom'
  <2>1. ScopedCalls' = {}
    BY <1>1, <1>3, <1>6 DEF ScopedCalls, AllCalls
  <2>2. Exposure' = 0
    <3>1. /\ Charges' \in [1..Len(sent') -> Nat] /\ Len(sent') \in Nat /\ DOMAIN sent' = 1..Len(sent')
          /\ Exposure' = Total(Charges')
      BY <1>11 DEF Facts, ChargedFacts
    <3>2. \A k \in 1..Len(sent') : Charges'[k] = 0
      BY <2>1, <3>1 DEF Charges
    <3> QED BY <3>1, <3>2, TotalZero
  <2>3. Left' = ToSet(g.slots)
    BY <1>1, <1>3, <2>1 DEF Left, ActiveSlots, UsedActions
  <2>4. OpenStep' = 0
    BY <1>6 DEF OpenStep
  <2>5. OpenReport' = 0
    BY <1>1, <1>3, <1>6 DEF OpenReport, ReportOpen, Amended
  <2>6. EstimateCost(SpecInForce.limits, Left)' = g.max
    BY <1>7, <1>14, <2>3
  <2>7. g.max \in Nat
    BY <1>7 DEF AmendmentGrants
  <2> QED BY <1>14, <2>2, <2>4, <2>5, <2>6, <2>7 DEF Headroom
<1> QED BY <1>6, <1>11, <1>12, <1>13, <1>15 DEF BudgetInv, Ground

-----------------------------------------------------------------------------
(* The replay of a step.                                                   *)

LEMMA FreshSlot ==
  ASSUME NEW s \in Seq(Calls)
  PROVE  Max({400} \cup {s[i].slot + 1 : i \in DOMAIN s}) \in Nat
<1> DEFINE n == Len(s)
           P(m) == {400} \cup {s[i].slot + 1 : i \in 1..m}
           T == {m \in Nat : m <= n => \E x \in P(m) : x \in Nat /\ \A y \in P(m) : x >= y}
<1>1. n \in Nat /\ DOMAIN s = 1..n /\ \A i \in 1..n : s[i].slot \in Nat
  <2>1. n \in Nat /\ DOMAIN s = 1..n /\ \A i \in 1..n : s[i] \in Calls
    OBVIOUS
  <2> QED BY <2>1 DEF Calls
<1> HIDE DEF n
<1>2. 0 \in T
  <2>1. P(0) = {400}
    OBVIOUS
  <2> QED BY <2>1
<1>3. ASSUME NEW m \in Nat, m \in T PROVE m + 1 \in T
  <2> SUFFICES ASSUME m + 1 <= n PROVE \E x \in P(m + 1) : x \in Nat /\ \A y \in P(m + 1) : x >= y
    OBVIOUS
  <2>1. PICK x \in P(m) : x \in Nat /\ \A y \in P(m) : x >= y
    BY <1>1, <1>3
  <2> DEFINE z == s[m + 1].slot + 1
  <2>2. z \in Nat
    BY <1>1
  <2>3. P(m + 1) = P(m) \cup {z}
    <3>1. 1..(m + 1) = (1..m) \cup {m + 1}
      OBVIOUS
    <3> QED BY <3>1
  <2>4. \A y \in P(m) : y \in Nat
    <3>1. \A i \in 1..m : s[i].slot + 1 \in Nat
      BY <1>1
    <3> QED BY <3>1
  <2> HIDE DEF z, P
  <2>5. CASE z >= x
    <3>1. \A y \in P(m + 1) : z >= y
      BY <2>1, <2>2, <2>3, <2>4, <2>5
    <3> QED BY <2>2, <2>3, <3>1
  <2>6. CASE x >= z
    <3>1. \A y \in P(m + 1) : x >= y
      BY <2>1, <2>2, <2>3, <2>4, <2>6
    <3> QED BY <2>1, <2>3, <3>1
  <2> QED BY <2>1, <2>2, <2>5, <2>6
<1> HIDE DEF T
<1>4. n \in T
    BY <1>1, <1>2, <1>3, AllNumbers
<1>5. \E x \in P(n) : x \in Nat /\ \A y \in P(n) : x >= y
    BY <1>1, <1>4 DEF T
<1>6. P(n) = {400} \cup {s[i].slot + 1 : i \in DOMAIN s}
    BY <1>1
<1> DEFINE S == {400} \cup {s[i].slot + 1 : i \in DOMAIN s}
<1>7. \E x \in S : x \in Nat /\ \A y \in S : x >= y
    BY <1>5, <1>6
<1>8. \A y \in S : y \in Nat
    BY <1>1
<1> HIDE DEF S, P
<1>9. Max(S) \in S
    BY <1>7 DEF Max
<1> QED BY <1>8, <1>9 DEF S

AncestorsOf(f, i) ==
    IF i = 0 THEN {}
    ELSE IF sent[i].by # "step" THEN {}
    ELSE {sent[i].replaces} \cup f[sent[i].replaces]

\* The calls a replay goes back to were each repeated by a replay.
LEMMA Repeated ==
  ASSUME Ground
  PROVE  \A i \in DOMAIN sent : \A k \in Ancestors[i] : k + 1 \in DOMAIN sent /\ sent[k + 1].by = "step"
<1> DEFINE n == Len(sent)
           f == [i \in 0..n |-> {k \in 1..(i - 1) : \A m \in (k + 1)..i : sent[m].by = "step"}]
<1>1. n \in Nat /\ DOMAIN sent = 1..n
    BY DEF Ground, BudgetRows
<1>2. \A i \in 1..n : sent[i].by = "step" => i - 1 \in 1..n /\ sent[i].replaces = i - 1
  <2> TAKE i \in 1..n
  <2>1. sent[i].by = "step" => i > 1 /\ sent[i].replaces = i - 1
    BY <1>1 DEF Ground, History
  <2> QED BY <1>1, <2>1
<1> HIDE DEF n
<1>3. \A i \in 0..n : f[i] = AncestorsOf(f, i)
  <2> TAKE i \in 0..n
  <2>0. f[i] = {k \in 1..(i - 1) : \A m \in (k + 1)..i : sent[m].by = "step"}
    OBVIOUS
  <2>1. CASE i = 0
    BY <2>0, <2>1 DEF AncestorsOf
  <2>2. CASE i # 0 /\ sent[i].by # "step"
    <3>1. \A k \in 1..(i - 1) : i \in (k + 1)..i
      BY <1>1, <2>2
    <3>2. f[i] = {}
      BY <2>0, <2>2, <3>1
    <3> HIDE DEF f
    <3> QED BY <2>2, <3>2 DEF AncestorsOf
  <2>3. CASE i # 0 /\ sent[i].by = "step"
    <3>1. i - 1 \in 1..n /\ sent[i].replaces = i - 1
      BY <1>1, <1>2, <2>3
    <3>2. f[i - 1] = {k \in 1..((i - 1) - 1) : \A m \in (k + 1)..(i - 1) : sent[m].by = "step"}
      BY <1>1, <3>1
    <3>3. ASSUME NEW k \in f[i] PROVE k \in {i - 1} \cup f[i - 1]
      <4>1. k \in 1..(i - 1) /\ \A m \in (k + 1)..i : sent[m].by = "step"
        BY <2>0, <3>3
      <4>2. CASE k = i - 1
        BY <4>2
      <4>3. CASE k # i - 1
        <5>1. k \in 1..((i - 1) - 1) /\ \A m \in (k + 1)..(i - 1) : m \in (k + 1)..i
          BY <1>1, <4>1, <4>3
        <5> QED BY <3>2, <4>1, <5>1
      <4> QED BY <4>2, <4>3
    <3>4. ASSUME NEW k \in {i - 1} \cup f[i - 1] PROVE k \in f[i]
      <4>1. CASE k = i - 1
        <5>1. k \in 1..(i - 1) /\ \A m \in (k + 1)..i : m = i
          BY <1>1, <3>1, <4>1
        <5> QED BY <2>0, <2>3, <5>1
      <4>2. CASE k \in f[i - 1]
        <5>1. k \in 1..((i - 1) - 1) /\ \A m \in (k + 1)..(i - 1) : sent[m].by = "step"
          BY <3>2, <4>2
        <5>2. k \in 1..(i - 1) /\ \A m \in (k + 1)..i : m \in (k + 1)..(i - 1) \/ m = i
          BY <1>1, <5>1
        <5> QED BY <2>0, <2>3, <5>1, <5>2
      <4> QED BY <3>4, <4>1, <4>2
    <3> HIDE DEF f
    <3>5. f[i] = {i - 1} \cup f[i - 1]
      BY <3>3, <3>4
    <3> QED BY <2>3, <3>1, <3>5 DEF AncestorsOf
  <2> QED BY <2>1, <2>2, <2>3
<1>4. f = [i \in 0..n |-> f[i]]
    OBVIOUS
<1> HIDE DEF f
<1>5. f = [i \in 0..n |-> AncestorsOf(f, i)]
    BY <1>3, <1>4
<1> DEFINE a == CHOOSE a : a = [i \in 0..n |-> AncestorsOf(a, i)]
<1>6. a = [i \in 0..n |-> AncestorsOf(a, i)]
    BY <1>5
<1>7. Ancestors = a
    BY DEF Ancestors, AncestorsOf, n
<1> HIDE DEF a
<1> DEFINE T == {i \in Nat : i <= n => \A k \in a[i] : k + 1 \in 1..n /\ sent[k + 1].by = "step"}
<1>8. 0 \in T
  <2>1. a[0] = {}
    BY <1>1, <1>6 DEF AncestorsOf
  <2> QED BY <2>1
<1>9. ASSUME NEW i \in Nat, i \in T PROVE i + 1 \in T
  <2> SUFFICES ASSUME i + 1 <= n, NEW k \in a[i + 1] PROVE k + 1 \in 1..n /\ sent[k + 1].by = "step"
    OBVIOUS
  <2>1. i + 1 \in 0..n /\ i + 1 \in 1..n /\ i + 1 # 0 /\ i <= n /\ (i + 1) - 1 = i
    BY <1>1
  <2>2. a[i + 1] = AncestorsOf(a, i + 1)
    BY <1>6, <2>1
  <2>3. sent[i + 1].by = "step" /\ k \in {sent[i + 1].replaces} \cup a[sent[i + 1].replaces]
    BY <2>1, <2>2 DEF AncestorsOf
  <2>4. sent[i + 1].replaces = i
    BY <1>2, <2>1, <2>3
  <2>5. CASE k = i
    BY <2>1, <2>3, <2>5
  <2>6. CASE k \in a[i]
    BY <1>9, <2>1, <2>6
  <2> QED BY <2>3, <2>4, <2>5, <2>6
<1> HIDE DEF T
<1>10. Nat \subseteq T
    BY <1>8, <1>9, AllNumbers
<1>11. \A i \in 1..n : i \in Nat /\ i <= n
    BY <1>1
<1> QED BY <1>1, <1>7, <1>10, <1>11 DEF T

\* Where every other failure was made good, none was passed over.
LEMMA NonePassedOver ==
  ASSUME Ground, ByReport, OthersResolved, Amended
  PROVE  ~PassedOver
<1> SUFFICES ASSUME NEW k \in 1..(Len(sent) - 1), sent[k].amending, sent[k].status \in Over, sent[k + 1].by = "slot"
             PROVE  FALSE
    BY DEF PassedOver
<1>1. Len(sent) \in Nat /\ DOMAIN sent = 1..Len(sent)
    BY DEF Ground, BudgetRows
<1>2. k \in DOMAIN sent /\ k + 1 \in DOMAIN sent /\ k # Len(sent) /\ Len(sent) \in DOMAIN sent
  <2> DEFINE n == Len(sent)
  <2>1. n \in Nat /\ DOMAIN sent = 1..n /\ k \in 1..(n - 1)
    BY <1>1
  <2> HIDE DEF n
  <2>2. k \in 1..n /\ k + 1 \in 1..n /\ k # n /\ n \in 1..n
    BY <2>1
  <2> QED BY <2>1, <2>2 DEF n
<1>3. k \in ScopedCalls
    BY <1>2 DEF ScopedCalls, AllCalls, Ground, History
<1>4. sent[k].status # "completed"
    BY DEF Over
<1>5. k \in Resolved \cup Ancestors[Len(sent)]
    BY <1>2, <1>3, <1>4 DEF OthersResolved
<1>6. ASSUME NEW i \in DOMAIN sent, k \in Ancestors[i] PROVE FALSE
    BY <1>6, Repeated
<1>7. ASSUME NEW i \in DOMAIN sent, sent[i].by = "memory", k = grants.memory[1].failed PROVE FALSE
  <2>1. sent[i].replaces = k
    BY <1>7 DEF ByReport
  <2>2. sent[i].replaces = i - 1 /\ i \in Nat
    BY <1>1, <1>7 DEF Ground, History
  <2>3. i = k + 1
    BY <1>1, <1>2, <2>1, <2>2
  <2> QED BY <1>7, <2>3
<1>8. k \notin Ancestors[Len(sent)]
    BY <1>2, <1>6
<1>9. k \in Resolved
    BY <1>5, <1>8
<1> DEFINE replayed == UNION {Ancestors[i] : i \in {j \in DOMAIN sent : sent[j].status = "completed"}}
           served   == \E i \in DOMAIN sent : sent[i].by = "memory"
                                           /\ (sent[i].status = "completed" \/ i \in replayed)
<1>10. k \notin replayed
    BY <1>6
<1>11. k \in IF served THEN {grants.memory[1].failed} ELSE {}
    BY <1>9, <1>10 DEF Resolved
<1>12. \E i \in DOMAIN sent : sent[i].by = "memory" /\ k = grants.memory[1].failed
    BY <1>11
<1> QED BY <1>7, <1>12

-----------------------------------------------------------------------------
(* What a replay grants and restores.                                      *)

Replays(g) ==
    /\ AlikeCalls
    /\ sent # <<>> /\ LastCall.status \in Over /\ Len(sent) \in DOMAIN sent /\ LastCall = sent[Len(sent)]
    /\ LastCall \in Calls /\ LastCall.amending = Amended /\ LastCall.action \in ToSet(ActiveSlots)
    /\ SpecInForce.ok /\ OthersResolved
    /\ ~Running /\ ~Running' /\ standing'.next = LastCall.action
    /\ standing' = Stage(standing'.status, standing'.next, standing'.authorized)
    /\ design' = design /\ resume' = resume /\ resume \in [before : Progress, after : Progress]
    /\ progress = resume.after /\ progress' = resume.before
    /\ grants'.input = grants.input /\ grants'.memory = grants.memory /\ grants'.amendment = grants.amendment
    /\ grants'.step # <<>> /\ grants'.step[1] = g
    /\ grants' = [input |-> grants'.input, memory |-> grants'.memory, step |-> grants'.step,
                 amendment |-> grants'.amendment]
    /\ g \in StepGrants /\ g.action = LastCall.action /\ g.amending = Amended /\ g.failed = Len(sent)
    /\ g.restore = resume.before /\ g.max >= SpecInForce.max
    /\ g.max >= Committed + (SpecInForce.limits.input + LastCall.output
                   + EstimateCost(SpecInForce.limits, UnusedAfter(ActiveSlots, LastCall.action)))

UnusedFacts ==
    /\ IsFiniteSet(UnusedAfter(ActiveSlots, LastCall.action))
    /\ EstimateCost(SpecInForce.limits, UnusedAfter(ActiveSlots, LastCall.action)) \in Nat

LEMMA UnusedTyped ==
  ASSUME Ground, StepStands, LastCall.action \in ToSet(ActiveSlots)
  PROVE  UnusedFacts
<1> DEFINE S == ActiveSlots
           p == PlaceOf(ActiveSlots, LastCall.action)
           U == UnusedAfter(ActiveSlots, LastCall.action)
<1>1. S \in Seq(Actions) /\ IsFiniteSet(ToSet(S))
    BY FactsNow DEF Facts, ActiveFacts
<1>2. p \in 1..Len(S)
    BY PlaceInNat
<1>3. U = {S[i] : i \in (p + 1)..Len(S)} \ UsedActions(AllCalls)
    BY DEF UnusedAfter
<1> HIDE DEF S, p, U
<1>4. DOMAIN S = 1..Len(S) /\ (p + 1)..Len(S) \subseteq 1..Len(S)
    BY <1>1, <1>2
<1>5. U \subseteq ToSet(S)
    BY <1>3, <1>4 DEF ToSet
<1>6. IsFiniteSet(U)
    BY <1>1, <1>5, FS_Subset
<1>7. SpecInForce.limits \in Limits
    BY Amounts DEF AmountFacts
<1>8. EstimateCost(SpecInForce.limits, U) \in Nat
    BY <1>6, <1>7, EstimateNat
<1> QED BY <1>6, <1>8 DEF UnusedFacts, U

LEMMA StepReplays ==
  ASSUME Before, AuthorizeStep
  PROVE  \E g : Replays(g)
<1> DEFINE s     == SpecInForce
           e     == EstimateCost(s.limits, UnusedAfter(ActiveSlots, LastCall.action))
           upper == s.limits.input + LastCall.output + e
           total == Committed + upper
           slot  == Max({400} \cup {sent[i].slot + 1 : i \in DOMAIN sent})
           most  == Max({s.max, total})
           g     == [action |-> LastCall.action, amending |-> Amended, failed |-> Len(sent), slot |-> slot,
                     restore |-> resume.before, max |-> most]
<1>0. Ground /\ StepStands /\ Facts
    BY DEF Before
<1>1. /\ standing.status \in {"needs_attention", "failed", "outcome_uncertain", "paused"}
      /\ sent # <<>> /\ LastCall.status \in Over
    BY DEF AuthorizeStep, StepEligible, Failures, Over
<1>2. /\ s.ok /\ OthersResolved /\ progress = resume.after
      /\ LastCall.amending = Amended /\ LastCall.action \in ToSet(ActiveSlots)
      /\ sent' = [sent EXCEPT ![Len(sent)].status = IF @ = "outcome_uncertain" THEN "uncertain_closed" ELSE @]
      /\ grants' = [grants EXCEPT !.step = <<g>>]
      /\ progress' = resume.before
      /\ standing' = Stage("queued", LastCall.action, TRUE)
      /\ design' = design /\ resume' = resume
    BY DEF AuthorizeStep, Start
<1>3. Len(sent) \in DOMAIN sent /\ LastCall = sent[Len(sent)] /\ LastCall \in Calls
    BY <1>0, <1>1, LastIsCall DEF Ground, LastCall
<1>4. resume \in [before : Progress, after : Progress]
  <2>1. LastCall.status # "completed"
    BY <1>1 DEF Over
  <2> QED BY <1>0, <1>1, <2>1 DEF Ground, BudgetRows
<1>5. AlikeCalls
  <2> DEFINE c == sent[Len(sent)]
             d == CloseUnknown(c)
             n == Len(sent)
  <2>1. sent \in Seq(Calls) /\ n \in DOMAIN sent /\ c \in Calls
    BY <1>0, <1>3 DEF Ground, BudgetRows
  <2>2. sent' = [sent EXCEPT ![n] = d]
    <3>1. CASE c.status = "outcome_uncertain"
      <4>1. d = [c EXCEPT !.status = "uncertain_closed"]
        BY <3>1 DEF CloseUnknown
      <4>2. sent' = [sent EXCEPT ![n] = [c EXCEPT !.status = "uncertain_closed"]]
        BY <1>2, <2>1, <3>1
      <4> QED BY <4>1, <4>2
    <3>2. CASE c.status # "outcome_uncertain"
      <4>1. d = c
        BY <3>2 DEF CloseUnknown
      <4>2. c = [c EXCEPT !.status = c.status]
        BY <2>1 DEF Calls
      <4>3. sent' = [sent EXCEPT ![n] = [c EXCEPT !.status = c.status]]
        BY <1>2, <2>1, <3>2
      <4> QED BY <4>1, <4>2, <4>3
    <3> QED BY <3>1, <3>2
  <2>3. d \in Calls
    BY <2>1, CloseAlike
  <2> HIDE DEF d, c
  <2>4. sent' \in Seq(Calls) /\ DOMAIN sent' = DOMAIN sent /\ Len(sent') = Len(sent) /\ sent'[n] = d
        /\ \A i \in DOMAIN sent : i # n => sent'[i] = sent[i]
    BY <2>1, <2>2, <2>3
  <2>5. ClosedCalls
    BY <2>4 DEF ClosedCalls, d, c
  <2> QED BY <1>0, <2>5, ClosedAlike DEF Ground
<1>6. s.limits \in Limits /\ s.max \in Nat
    BY <1>0, Amounts DEF AmountFacts
<1>7. e \in Nat
    BY <1>0, <1>2, UnusedTyped DEF UnusedFacts
<1>8. slot \in Nat
    BY <1>0, FreshSlot DEF Ground, BudgetRows
<1> HIDE DEF s, e, slot
<1>9. most \in Nat /\ most >= s.max /\ most >= total
  <2>1. Committed \in Nat /\ LastCall.output \in 1..2 /\ s.limits.input \in 1..2
    BY <1>0, <1>3, <1>6 DEF Facts, ChargedFacts, Calls, Limits
  <2>2. total \in Nat
    BY <1>7, <2>1
  <2> HIDE DEF total
  <2> QED BY <1>6, <2>2, MaxOfTwo
<1>10. most >= Committed + (s.limits.input + LastCall.output + e)
    BY <1>9
<1> HIDE DEF most, total
<1>11. /\ g \in StepGrants /\ g.action = LastCall.action /\ g.amending = Amended /\ g.failed = Len(sent)
       /\ g.restore = resume.before /\ g.max = most
  <2> DEFINE n == Len(sent)
             a == LastCall.action
             m == Amended
             r == resume.before
  <2>1. g = [action |-> a, amending |-> m, failed |-> n, slot |-> slot, restore |-> r, max |-> most]
    OBVIOUS
  <2>2. a \in Actions /\ m \in BOOLEAN /\ n \in Nat /\ r \in Progress
    BY <1>0, <1>3, <1>4 DEF Calls, Amended, Facts, ChargedFacts
  <2> HIDE DEF a, m, n, r
  <2>3. /\ g \in StepGrants /\ g.action = a /\ g.amending = m /\ g.failed = n /\ g.restore = r /\ g.max = most
    BY <1>8, <1>9, <2>1, <2>2 DEF StepGrants
  <2> QED BY <2>3 DEF a, m, n, r
<1> HIDE DEF g
<1>12. /\ grants'.input = grants.input /\ grants'.memory = grants.memory /\ grants'.amendment = grants.amendment
       /\ grants'.step # <<>> /\ grants'.step[1] = g
       /\ grants' = [input |-> grants'.input, memory |-> grants'.memory, step |-> grants'.step,
                 amendment |-> grants'.amendment]
  <2>1. grants = [input |-> grants.input, memory |-> grants.memory, step |-> grants.step,
                 amendment |-> grants.amendment]
    BY <1>0 DEF Ground, BudgetRows
  <2>2. <<g>> # <<>> /\ <<g>>[1] = g
    OBVIOUS
  <2> QED BY <1>2, <2>1, <2>2
<1>13. /\ ~Running /\ ~Running' /\ standing'.next = LastCall.action
       /\ standing' = Stage(standing'.status, standing'.next, standing'.authorized)
    BY <1>1, <1>2 DEF Stage, Running
<1>14. /\ g.max >= SpecInForce.max
       /\ g.max >= Committed + (SpecInForce.limits.input + LastCall.output
                   + EstimateCost(SpecInForce.limits, UnusedAfter(ActiveSlots, LastCall.action)))
    BY <1>9, <1>10, <1>11 DEF s, e
<1>15. SpecInForce.ok
    BY <1>2 DEF s
<1> QED BY <1>1, <1>2, <1>3, <1>4, <1>5, <1>11, <1>12, <1>13, <1>14, <1>15 DEF Replays

\* What a replay leaves as it was.
ReplayFacts ==
    /\ Amended' = Amended /\ Amended \in BOOLEAN
    /\ Mark(progress') = Mark(progress) /\ Course(progress') = Course(progress) /\ progress' \in Progress
    /\ progress'.memory = progress.memory /\ progress'.amendment = progress.amendment
    /\ ActiveSlots' = ActiveSlots /\ \A b \in BOOLEAN : SlotsIn(b)' = SlotsIn(b)
    /\ Widened' = Widened

LEMMA ReplayKept ==
  ASSUME Before, NEW g, Replays(g)
  PROVE  ReplayFacts
<1>1. resume.before.plan = resume.after.plan /\ resume.before.memory = resume.after.memory
      /\ resume.before.amendment = resume.after.amendment
    BY DEF Before, ResumeFits, Replays, Over
<1>2. progress'.plan = progress.plan /\ progress'.memory = progress.memory /\ progress'.amendment = progress.amendment
      /\ progress' \in Progress
    BY <1>1 DEF Replays
<1>3. Amended' = Amended /\ Amended \in BOOLEAN
    BY <1>2 DEF Amended
<1>4. Mark(progress') = Mark(progress) /\ Course(progress') = Course(progress)
    BY <1>2 DEF Mark, Course
<1>5. ActiveSlots' = ActiveSlots /\ \A b \in BOOLEAN : SlotsIn(b)' = SlotsIn(b)
    BY <1>3 DEF ActiveSlots, SlotsIn, Replays
<1>6. Widened' = Widened
  <2>1. BaseSpec' = BaseSpec
    BY DEF BaseSpec, Replays
  <2>2. EffectiveSpec' = EffectiveSpec
    BY <2>1 DEF EffectiveSpec, Replays
  <2>3. Agreed' = Agreed
    BY <1>3, <2>2 DEF Agreed, AmendmentSpec, Replays
  <2> QED BY <1>3, <2>3 DEF Widened, MemorySpec, Replays
<1> QED BY <1>2, <1>3, <1>4, <1>5, <1>6 DEF ReplayFacts

LEMMA ReplayGround ==
  ASSUME Before, NEW g, Replays(g)
  PROVE  Ground' /\ InFlight' /\ ResumeFits' /\ ByReport'
<1>0. ReplayFacts
    BY ReplayKept
<1>1. /\ Len(sent') = Len(sent) /\ DOMAIN sent' = DOMAIN sent /\ sent' \in Seq(Calls)
      /\ (sent' = <<>>) = (sent = <<>>)
      /\ LastCall'.status = "completed" <=> LastCall.status = "completed"
      /\ \A i \in DOMAIN sent : /\ sent'[i].by = sent[i].by /\ sent'[i].replaces = sent[i].replaces
    BY DEF Replays, AlikeCalls, Alike
<1>2. BudgetRows'
  <2>1. grants'.step[1] \in StepGrants
    BY DEF Replays
  <2> QED BY <1>0, <1>1, <2>1 DEF Before, Ground, BudgetRows, Replays, ReplayFacts
<1>3. AmendmentFits'
    BY DEF Before, Ground, AmendmentFits, Replays
<1>4. GrantsGiven'
    BY <1>0 DEF Before, Ground, GrantsGiven, Replays, ReplayFacts
<1>5. History'
  <2>1. \A i \in DOMAIN sent : sent[i].status # "executing"
    BY NoneExecutes DEF Before, Replays
  <2> QED BY <1>0, <2>1, AlikeHistory DEF Before, Replays, ReplayFacts
<1>6. InFlight' /\ ResumeFits'
    BY <1>0, <1>1 DEF InFlight, ResumeFits, Before, Replays, ReplayFacts
<1>7. ByReport'
    BY <1>1 DEF ByReport, Before, Replays
<1> QED BY <1>2, <1>3, <1>4, <1>5, <1>6, <1>7 DEF Ground

LEMMA ReplayStands ==
  ASSUME Before, NEW g, Replays(g)
  PROVE  StepStands' /\ ReportStands'
<1>0. ReplayFacts
    BY ReplayKept
<1>1. /\ Len(sent') = Len(sent) /\ DOMAIN sent' = DOMAIN sent
      /\ LastCall'.status = "completed" <=> LastCall.status = "completed"
      /\ \A i \in DOMAIN sent : /\ sent'[i].action = sent[i].action /\ sent'[i].amending = sent[i].amending
                                /\ sent'[i].status \in Over <=> sent[i].status \in Over
                                /\ sent'[i].slot = sent[i].slot
    BY DEF Replays, AlikeCalls, Alike
<1>2. /\ g.failed \in DOMAIN sent /\ sent'[g.failed].status \in Over
      /\ sent'[g.failed].action = g.action /\ sent'[g.failed].amending = g.amending
    BY <1>1 DEF Replays
<1>3. Mark(progress') = Mark(g.restore) /\ Mark(g.restore) \in Nat
    BY <1>0, MarkNat DEF Replays, ReplayFacts
<1>4. StepStands'
  <2>1. Mark(progress') >= Mark(g.restore)
    BY <1>3
  <2> QED BY <1>0, <1>1, <1>2, <2>1 DEF StepStands, Replays, ReplayFacts
<1>5. ReportStands'
  <2> SUFFICES ASSUME grants.memory # <<>> PROVE ReportStands'
    BY DEF Replays, ReportStands
  <2> DEFINE h == grants.memory[1]
  <2>1. /\ h.failed \in DOMAIN sent /\ sent[h.failed].status \in Over
        /\ sent[h.failed].action = h.action /\ sent[h.failed].amending = h.amending
        /\ RoleFor(h.action) = "memory"
        /\ h.failed = Len(sent) => resume.after.memory = 0
        /\ ~Taken(h.slot) =>
                 /\ Course(progress) >= BoundAt(h.bindings)
                 /\ h.failed # Len(sent) \/ h.amending # Amended \/ standing.next \notin {h.action, NoStep}
                      => Course(progress) > BoundAt(h.bindings)
                 /\ h.failed # Len(sent) /\ LastCall.status # "completed"
                      => Course(resume.before) > BoundAt(h.bindings)
    BY DEF Before, ReportStands
  <2>2. Taken(h.slot)' = Taken(h.slot)
    BY <1>1 DEF Taken, Replays
  <2>3. h.failed = Len(sent) => LastCall.action = h.action
    BY <2>1 DEF Replays
  <2>4. ASSUME ~Taken(h.slot), h.failed # Len(sent) \/ h.amending # Amended \/ LastCall.action \notin {h.action, NoStep}
        PROVE  Course(progress) > BoundAt(h.bindings)
    BY <2>1, <2>3, <2>4
  <2> QED BY <1>0, <1>1, <2>1, <2>2, <2>4 DEF ReportStands, Replays, ReplayFacts
<1> QED BY <1>4, <1>5

LEMMA ReplayOrder ==
  ASSUME Before, NEW g, Replays(g)
  PROVE  InOrder' /\ InputsFit'
<1>0. ReplayFacts /\ Len(sent) \in DOMAIN sent /\ LastCall = sent[Len(sent)]
    BY ReplayKept DEF Replays
<1>1. /\ PassedOver' = PassedOver /\ UsedActions(AllCalls)' = UsedActions(AllCalls)
    BY <1>0, AlikeCounts DEF Replays, ReplayFacts
<1>2. /\ DOMAIN sent' = DOMAIN sent
      /\ \A i \in DOMAIN sent : /\ sent'[i].action = sent[i].action /\ sent'[i].amending = sent[i].amending
                                /\ sent'[i].input = sent[i].input
    BY DEF Replays, AlikeCalls, Alike
<1>3. InOrder'
  <2>1. SlotsIn(TRUE)' = SlotsIn(TRUE)
    BY <1>0 DEF ReplayFacts
  <2>2. \A a : Earlier(a)' = Earlier(a)
    BY <2>1 DEF Earlier
  <2> SUFFICES ASSUME Amended, ~PassedOver PROVE InOrder'
    BY <1>0, <1>1 DEF InOrder, ReplayFacts
  <2>3. \A i \in DOMAIN sent : sent[i].amending => Earlier(sent[i].action) \subseteq UsedActions(AllCalls)
    BY DEF Before, InOrder
  <2>4. Earlier(LastCall.action) \subseteq UsedActions(AllCalls)
    BY <1>0, <2>3 DEF Replays
  <2>5. \A i \in DOMAIN sent : Earlier(sent[i].action)' = Earlier(sent'[i].action)
    BY <2>1 DEF Earlier
  <2>6. Earlier(standing.next)' = Earlier(LastCall.action)
    BY <2>1 DEF Earlier, Replays
  <2>7. \A i \in DOMAIN sent' : sent'[i].amending => Earlier(sent[i].action)' \subseteq UsedActions(AllCalls)'
    BY <1>1, <1>2, <2>3, <2>5
  <2> QED BY <1>1, <2>4, <2>6, <2>7 DEF InOrder
<1>4. InputsFit'
  <2>1. Facts /\ Facts'
    BY ReplayGround, FactsNext DEF Before
  <2>2. SpecInForce'.limits = SpecInForce.limits
    BY <1>0, <2>1 DEF Facts, InForceFacts, ReplayFacts
  <2> QED BY <1>0, <1>2, <2>2 DEF InputsFit, Before, ReplayFacts
<1> QED BY <1>3, <1>4

\* A replay in its turn pays for every slot that is left.
LEMMA ReplayCovers ==
  ASSUME Before, NEW g, Replays(g), StepOpen'
  PROVE  Left \subseteq UnusedAfter(ActiveSlots, LastCall.action)
<1> DEFINE S == ActiveSlots
           a == LastCall.action
           p == PlaceOf(S, a)
<1>0. ReplayFacts /\ Len(sent) \in DOMAIN sent /\ LastCall = sent[Len(sent)] /\ Ground
    BY ReplayKept DEF Replays, Before
<1>1. S \in Seq(Actions) /\ a \in ToSet(S) /\ p \in 1..Len(S) /\ S[p] = a
  <2>1. S \in Seq(Actions) /\ a \in ToSet(S)
    BY DEF Before, Facts, ActiveFacts, Replays
  <2> HIDE DEF S, a
  <2> QED BY <2>1, PlaceIs
<1>2. a \in UsedActions(AllCalls)
    BY <1>0 DEF UsedActions, AllCalls
<1>3. \A j \in 1..p : S[j] \in UsedActions(AllCalls)
  <2>1. CASE ~Amended
    <3>1. UsedActions(AllCalls)' = UsedActions(AllCalls)
      BY <1>0, AlikeCounts DEF Replays, ReplayFacts
    <3> QED BY <1>0, <2>1, <3>1 DEF StepOpen, Replays, ReplayFacts
  <2>2. CASE Amended
    <3>1. ~PassedOver
      BY <1>0, <2>2, NonePassedOver DEF Before, Replays
    <3>2. Earlier(a) \subseteq UsedActions(AllCalls)
      BY <1>0, <2>2, <3>1 DEF Before, InOrder, Replays
    <3>3. SlotsIn(TRUE) = S
      BY <2>2 DEF SlotsIn, ActiveSlots
    <3>4. \A j \in 1..(p - 1) : S[j] \in UsedActions(AllCalls)
      BY <3>2, <3>3 DEF Earlier
    <3>5. \A j \in 1..p : j \in 1..(p - 1) \/ j = p
      <4> HIDE DEF p
      <4> QED BY <1>1
    <3> HIDE DEF S, p, a
    <3> QED BY <1>1, <1>2, <3>4, <3>5
  <2> QED BY <2>1, <2>2
<1>4. ASSUME NEW x \in Left
      PROVE  x \notin UsedActions(AllCalls) /\ x \in ToSet(S)
  <2>1. x \in ToSet(S) /\ x \notin UsedActions(ScopedCalls)
    BY <1>4 DEF Left
  <2>2. Amended => x \in AmendmentActions
    BY <1>0, <2>1, ActiveAmending
  <2>3. ASSUME NEW i \in AllCalls, sent[i].action = x PROVE FALSE
    <3>1. i \in ScopedCalls
      BY <2>2, <2>3 DEF ScopedCalls
    <3> QED BY <2>1, <2>3, <3>1 DEF UsedActions
  <2> QED BY <2>1, <2>3 DEF UsedActions
<1>5. ASSUME NEW x \in Left
      PROVE  x \in {S[i] : i \in (p + 1)..Len(S)}
  <2> HIDE DEF S, p
  <2>1. PICK j \in 1..Len(S) : S[j] = x
    BY <1>1, <1>4, <1>5 DEF ToSet
  <2>2. j \notin 1..p
    BY <1>3, <1>4, <1>5, <2>1
  <2>3. j \in (p + 1)..Len(S)
    BY <1>1, <2>1, <2>2
  <2> QED BY <2>1, <2>3
<1> QED BY <1>4, <1>5 DEF UnusedAfter

LEMMA ReplayHeadroom ==
  ASSUME Before, NEW g, Replays(g), Ground', StepStands'
  PROVE  Headroom'
<1>0. ReplayFacts /\ Ground /\ StepStands /\ Facts /\ Facts' /\ AmountFacts /\ AmountFacts'
    BY ReplayKept, FactsNext, Amounts, AmountsNext DEF Before
<1>1. /\ Left' = Left /\ ReplayedEarly' = ReplayedEarly /\ Exposure' = Exposure
    BY <1>0, AlikeCounts DEF Replays, ReplayFacts
<1>2. SpecInForce'.limits = SpecInForce.limits
    BY <1>0 DEF Facts, InForceFacts, ReplayFacts
<1>3. SpecInForce'.max = g.max
  <2>1. StepInScope'
    BY <1>0 DEF StepInScope, Replays, ReplayFacts
  <2> QED BY <1>0, <2>1 DEF Facts, InForceFacts, Replays
<1>4. Price' = Price
    BY <1>1, <1>2 DEF Price
<1>5. OpenReport' = 0
  <2> SUFFICES ASSUME ReportOpen' PROVE FALSE
    BY DEF OpenReport
  <2>1. grants.memory # <<>> /\ grants.memory[1].failed = Len(sent)
    BY DEF ReportOpen, Replays, AlikeCalls
  <2>2. resume.after.memory = 0
    BY <2>1 DEF Before, ReportStands
  <2>3. progress.memory = 1
    BY <1>0, <2>1 DEF Ground, GrantsGiven
  <2> QED BY <2>2, <2>3 DEF Replays
<1> SUFFICES ASSUME ~ReplayedEarly' PROVE Exposure' + Price' + OpenReport' + OpenStep' <= SpecInForce'.max
    BY DEF Headroom, Price
<1>6. CASE ~StepOpen'
  <2>1. OpenStep' = 0
    BY <1>6 DEF OpenStep
  <2>2. Exposure + Price + OpenReport + OpenStep <= SpecInForce.max
    BY <1>1 DEF Before, Headroom, Price, Replays
  <2>3. g.max >= SpecInForce.max /\ g.max \in Nat
    BY DEF Replays, StepGrants
  <2> QED BY <1>0, <1>1, <1>3, <1>4, <1>5, <2>1, <2>2, <2>3 DEF AmountFacts
<1>7. CASE StepOpen'
  <2> DEFINE U == UnusedAfter(ActiveSlots, LastCall.action)
             e == EstimateCost(SpecInForce.limits, U)
  <2>1. IsFiniteSet(U) /\ e \in Nat
    BY <1>0, UnusedTyped DEF UnusedFacts, Replays
  <2>2. Left \in SUBSET U
    BY <1>7, ReplayCovers
  <2>3. SpecInForce.limits \in Limits /\ NoMore(SpecInForce.limits, SpecInForce.limits)
    BY <1>0 DEF AmountFacts, NoMore, Limits
  <2>4. Price <= e
    BY <2>1, <2>2, <2>3, EstimateMore DEF Price
  <2>5. LastCall.input <= SpecInForce.limits.input /\ LastCall.input \in 1..2 /\ LastCall.output \in 1..2
        /\ SpecInForce.limits.input \in 1..2
    BY <2>3 DEF Before, InputsFit, Replays, Calls, Limits
  <2>6. OpenStep' = LastCall.input + LastCall.output
    <3>1. MostOf(LastCall') = LastCall.input + LastCall.output
      BY DEF Replays, AlikeCalls, Alike, MostOf
    <3>2. OpenStep' = MostOf(LastCall')
      BY <1>7 DEF OpenStep, MostOf
    <3> QED BY <3>1, <3>2
  <2>7. g.max >= Committed + (SpecInForce.limits.input + LastCall.output + e) /\ g.max \in Nat
    BY DEF Replays, StepGrants
  <2>8. Exposure <= Committed /\ Exposure \in Nat /\ Committed \in Nat
    BY <1>0 DEF Facts, ChargedFacts
  <2> DEFINE x == Exposure
             c == Committed
             y == Price
             i == LastCall.input
             l == SpecInForce.limits.input
             o == LastCall.output
             m == g.max
  <2>9. x \in Nat /\ c \in Nat /\ y \in Nat /\ i \in 1..2 /\ l \in 1..2 /\ o \in 1..2 /\ m \in Nat /\ e \in Nat
        /\ x <= c /\ y <= e /\ i <= l /\ m >= c + (l + o + e)
    BY <1>0, <2>1, <2>4, <2>5, <2>7, <2>8 DEF AmountFacts
  <2> HIDE DEF U, e, x, c, y, i, l, o, m
  <2>10. x + y + 0 + (i + o) <= m
    BY <2>9
  <2> QED BY <1>1, <1>3, <1>4, <1>5, <2>6, <2>10 DEF x, y, i, o, m
<1> QED BY <1>6, <1>7

LEMMA StepKeeps ==
  ASSUME BudgetInv, AuthorizeStep
  PROVE  BudgetInv'
<1>1. Before
    BY BeforeNow
<1>2. PICK g : Replays(g)
    BY <1>1, StepReplays
<1>3. Ground' /\ InFlight' /\ ResumeFits' /\ ByReport'
    BY <1>1, <1>2, ReplayGround
<1>4. StepStands' /\ ReportStands'
    BY <1>1, <1>2, ReplayStands
<1>5. InOrder' /\ InputsFit'
    BY <1>1, <1>2, ReplayOrder
<1>6. Headroom'
    BY <1>1, <1>2, <1>3, <1>4, ReplayHeadroom
<1> QED BY <1>3, <1>4, <1>5, <1>6 DEF BudgetInv, Ground

-----------------------------------------------------------------------------
(* The budget holds.                                                       *)

LEMMA BudgetStarts == InitBudget => BudgetInv
<1> SUFFICES ASSUME InitBudget PROVE BudgetInv
    OBVIOUS
<1> USE DEF InitBudget
<1>1. sent = <<>> /\ sent \in Seq(Calls) /\ DOMAIN sent = {} /\ Len(sent) = 0
    OBVIOUS
<1>2. grants.input = <<>> /\ grants.memory = <<>> /\ grants.step = <<>> /\ grants.amendment = <<>>
      /\ progress.amendment = 0 /\ progress.memory = 0 /\ ~Amended /\ ~Running
    BY DEF Amended, Running, Stage
<1>3. BudgetRows
  <2>1. progress \in Progress
    BY DEF Progress
  <2>2. standing = Stage(standing.status, standing.next, standing.authorized)
    BY DEF Stage
  <2> QED BY <1>1, <1>2, <2>1, <2>2 DEF BudgetRows
<1>4. AmendmentFits /\ GrantsGiven
    BY <1>2 DEF AmendmentFits, GrantsGiven
<1>5. History
    BY <1>1 DEF History
<1>6. Ground /\ Facts
    BY <1>3, <1>4, <1>5, FactsNow DEF Ground
<1>7. InFlight /\ ResumeFits /\ StepStands /\ ReportStands /\ ByReport /\ InOrder /\ InputsFit
    BY <1>1, <1>2 DEF InFlight, ResumeFits, StepStands, ReportStands, ByReport, InOrder, InputsFit
<1>8. Headroom
  <2>1. Exposure = 0
    <3>1. Charges \in [1..0 -> Nat] /\ Exposure = Total(Charges)
      BY <1>1, <1>6 DEF Facts, ChargedFacts
    <3>2. 0 \in Nat /\ \A k \in 1..0 : Charges[k] = 0
      OBVIOUS
    <3> QED BY <3>1, <3>2, TotalZero
  <2>2. OpenReport = 0 /\ OpenStep = 0
    BY <1>2 DEF OpenReport, OpenStep, ReportOpen, StepOpen
  <2>3. Left = ToSet(SlotsFor(design))
    BY <1>1, <1>2 DEF Left, ActiveSlots, UsedActions, ScopedCalls, AllCalls
  <2>4. SpecInForce = EffectiveSpec
    BY <1>2, <1>6 DEF Facts, InForceFacts, WidenedFacts, AgreedFacts, StepInScope, ReportInScope
  <2>5. SpecInForce.limits = WithLimits(1, 1) /\ SpecInForce.max = EstimateCost(WithLimits(1, 1), ToSet(SlotsFor(design)))
    BY <1>2, <2>4 DEF EffectiveSpec, BaseSpec
  <2>6. SpecInForce.max \in Nat
    BY <1>6, <1>7, Amounts DEF AmountFacts
  <2> QED BY <2>1, <2>2, <2>3, <2>5, <2>6 DEF Headroom
<1> QED BY <1>6, <1>7, <1>8 DEF BudgetInv, Ground

LEMMA BudgetStutters ==
  ASSUME BudgetInv, UNCHANGED budgetVars
  PROVE  BudgetInv'
<1> USE DEF budgetVars, BudgetInv
<1>1. SameBudget
    BY DEF SameBudget, Amended
<1>2. /\ SpecInForce' = SpecInForce /\ ActiveSlots' = ActiveSlots /\ Amended' = Amended
      /\ \A b \in BOOLEAN : SlotsIn(b)' = SlotsIn(b)
    BY <1>1, SameInForce DEF SameBudget
<1>3. BudgetRows'
    BY DEF BudgetRows, LastCall
<1>4. AmendmentFits' /\ GrantsGiven'
    BY <1>2 DEF AmendmentFits, GrantsGiven
<1>5. History'
  <2>1. \A i \in DOMAIN sent : SlotsIn(sent[i].amending)' = SlotsIn(sent[i].amending)
    BY DEF SlotsIn
  <2>2. \A i \in DOMAIN sent : SlotFor(sent[i].action, sent[i].amending)' = SlotFor(sent[i].action, sent[i].amending)
    BY <2>1 DEF SlotFor
  <2> QED BY <1>2, <2>1, <2>2 DEF History, Running
<1>6. InFlight' /\ ResumeFits'
    BY <1>2 DEF InFlight, ResumeFits, Running, LastCall
<1>7. StepStands' /\ ReportStands' /\ ByReport'
    BY <1>2 DEF StepStands, ReportStands, ByReport, LastCall, Taken
<1>8. InOrder'
  <2>1. \A a : Earlier(a)' = Earlier(a)
    BY <1>2 DEF Earlier
  <2>2. \A i \in DOMAIN sent : Earlier(sent[i].action)' = Earlier(sent[i].action)
    BY <1>2 DEF Earlier
  <2>3. Earlier(standing.next)' = Earlier(standing.next)
    BY <1>2 DEF Earlier
  <2>4. UsedActions(AllCalls)' = UsedActions(AllCalls) /\ PassedOver' = PassedOver /\ LastCall' = LastCall
    BY DEF UsedActions, AllCalls, PassedOver, LastCall
  <2>5. SlotsIn(TRUE)' = SlotsIn(TRUE)
    BY <1>2
  <2> QED BY <1>2, <2>2, <2>3, <2>4, <2>5 DEF InOrder
<1>9. InputsFit'
    BY <1>2 DEF InputsFit
<1>10. Headroom'
  <2>1. ScopedCalls' = ScopedCalls /\ AllCalls' = AllCalls
    BY <1>2 DEF ScopedCalls, AllCalls
  <2>2. Exposure' = Exposure /\ Left' = Left
    BY <1>2, <2>1 DEF Exposure, KnownCost, Reserve, Left, UsedActions
  <2>3. OpenReport' = OpenReport
    BY <1>2 DEF OpenReport, ReportOpen, Taken
  <2>4. StepOpen' <=> StepOpen
    BY <1>2, <2>1 DEF StepOpen, Taken, UsedActions
  <2>5. OpenStep' = OpenStep
    BY <2>4 DEF OpenStep, LastCall
  <2>6. ReplayedEarly' = ReplayedEarly
    BY DEF ReplayedEarly, UsedActions
  <2> QED BY <1>2, <2>2, <2>3, <2>5, <2>6 DEF Headroom
<1> QED BY <1>3, <1>4, <1>5, <1>6, <1>7, <1>8, <1>9, <1>10

LEMMA BudgetSteps ==
  ASSUME BudgetInv, NextBudget
  PROVE  BudgetInv'
<1>0. Ground /\ InFlight /\ ResumeFits
    BY DEF BudgetInv, Ground
<1>1. CASE ClaimSlot
    BY <1>1, ClaimKeeps
<1>2. CASE InputTooLong
    BY <1>0, <1>2, TooLongQuiet, QuietKeeps
<1>3. CASE Answer
  <2>1. PICK cost : SettledAs("completed", cost)
    BY <1>0, <1>3, AnswerSettles
  <2> QED BY <2>1, SettledKeeps
<1>4. CASE CallFails
  <2>1. PICK st, cost : SettledAs(st, cost)
    BY <1>0, <1>4, FailureSettles
  <2> QED BY <2>1, SettledKeeps
<1>5. CASE AuthorizeStage \/ Pause
    BY <1>0, <1>5, AuthorizeQuiet, QuietKeeps
<1>6. CASE ResolveUnknown
    BY <1>6, ResolveKeeps
<1>7. CASE EditStagePlan
    BY <1>0, <1>7, EditPlanQuiet, QuietKeeps
<1>8. CASE EditCandidate
    BY <1>0, <1>8, EditCandidateQuiet, QuietKeeps
<1>9. ASSUME NEW allRoles \in BOOLEAN, AuthorizeInput(allRoles) PROVE BudgetInv'
    BY <1>9, InputKeeps
<1>10. ASSUME NEW allRoles \in BOOLEAN, AuthorizeMemory(allRoles) PROVE BudgetInv'
    BY <1>10, MemoryKeeps
<1>11. CASE AuthorizeStep
    BY <1>11, StepKeeps
<1>12. ASSUME NEW edits \in { <<>>, << Only("amend") >> }, PreviewAmendment(edits) PROVE BudgetInv'
    BY <1>12, PreviewKeeps
<1>13. CASE AuthorizeAmendment
    BY <1>13, AmendmentKeeps
<1> QED BY <1>1, <1>2, <1>3, <1>4, <1>5, <1>6, <1>7, <1>8, <1>9, <1>10, <1>11, <1>12, <1>13 DEF NextBudget

LEMMA BudgetSuffices == BudgetInv => BudgetHolds
<1> SUFFICES ASSUME BudgetInv PROVE BudgetHolds
    OBVIOUS
<1>0. Before
    BY BeforeNow
<1>1. ReplayedEarly \/ Covered
  <2> SUFFICES ASSUME ~ReplayedEarly, SpecInForce.ok PROVE Exposure <= SpecInForce.max
    BY DEF Covered
  <2>1. Exposure + Price + OpenReport + OpenStep <= SpecInForce.max
    BY <1>0 DEF Before, Headroom, Price
  <2>2. AmountFacts
    BY <1>0, Amounts DEF Before
  <2> QED BY <2>1, <2>2 DEF AmountFacts
<1>2. \A i \in DOMAIN sent : i \in Nat /\ (sent[i].replaces # 0 => sent[i].replaces = i - 1)
  <2>1. DOMAIN sent = 1..Len(sent) /\ Len(sent) \in Nat
    BY <1>0 DEF Before, Ground, BudgetRows
  <2>2. \A i \in DOMAIN sent : sent[i].replaces # 0 => sent[i].replaces = i - 1
    BY <1>0 DEF Before, Ground, History
  <2> QED BY <2>1, <2>2
<1>3. ReplacedOnce
  <2> SUFFICES ASSUME NEW i \in DOMAIN sent, NEW j \in DOMAIN sent, i # j, sent[i].replaces = sent[j].replaces,
                      sent[i].replaces # 0
               PROVE  FALSE
    BY DEF ReplacedOnce
  <2>1. i - 1 = j - 1 /\ i \in Nat /\ j \in Nat
    BY <1>2
  <2> QED BY <2>1
<1>4. CompletedOnce
  <2> SUFFICES ASSUME NEW i \in DOMAIN sent, NEW j \in DOMAIN sent, sent[i].status = "completed",
                      sent[j].status = "completed", sent[i].action = sent[j].action, i # j
               PROVE  FALSE
    BY DEF CompletedOnce
  <2>1. i < j \/ j < i
    BY <1>2
  <2>2. sent[i].status \in Over \/ sent[j].status \in Over
    BY <1>0, <2>1 DEF Before, Ground, History
  <2> QED BY <2>2 DEF Over
<1> QED BY <1>1, <1>3, <1>4 DEF BudgetHolds

(* A stage, or its amendment, never owes more than the budget its author   *)
(* last agreed to, unless a step was replayed ahead of its turn; no call   *)
(* is replaced twice, and no action is completed twice (BudgetHolds).      *)
(* Whatever fails, is edited or is left without a price, and whichever of  *)
(* the four authorizations (input, report, step, amendment) are given, in  *)
(* any order: budget.py, input_recovery.py, memory_recovery.py,            *)
(* step_recovery.py and amendments.py.                                     *)
THEOREM BudgetSound == BudgetSpec => []BudgetHolds
<1>1. BudgetInv /\ [NextBudget]_budgetVars => BudgetInv'
    BY BudgetSteps, BudgetStutters
<1> QED BY <1>1, BudgetStarts, BudgetSuffices, PTL DEF BudgetSpec

=============================================================================
