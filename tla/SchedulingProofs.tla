--------------------------- MODULE SchedulingProofs ---------------------------
(***************************************************************************)
(* Scheduling by fixed priorities, deadlines and laxities.  The tests of   *)
(* feasibility/ have the same verdict, and it is the one that the          *)
(* simulation of schedule/ comes to, for every set of services and any     *)
(* simulated time; and the spin loop of the inversion demonstrations keeps *)
(* its promise for any length of the critical section.                     *)
(***************************************************************************)
EXTENDS Schedule, Inversion, FiniteSetTheorems, SequenceTheorems, WellFoundedInduction, TLAPS

-----------------------------------------------------------------------------
(***************************************************************************)
(* Numbers.  Every set of numbers has a least member, which stands for     *)
(* induction, and a function can be defined by recursion up to a number.   *)
(***************************************************************************)

\* Every set of numbers has a least member.
LEMMA LeastNatural ==
    ASSUME NEW S \in SUBSET Nat, S # {}
    PROVE  \E m \in S : \A k \in S : m <= k
<1> DEFINE R == OpToRel(<, Nat)
<1>1. IsWellFoundedOn(R, Nat)
  BY NatLessThanWellFounded
<1>2. \A x, y \in Nat : <<x, y>> \in R <=> x < y
  BY DEF OpToRel
<1> HIDE DEF R
<1>3. \E x \in S : \A y \in S : ~ (<<y, x>> \in R)
  BY <1>1, WFMin
<1>4. PICK x \in S : \A y \in S : ~ (<<y, x>> \in R)
  BY <1>3
<1>5. \A y \in S : ~ (y < x)
  BY <1>2, <1>4
<1>6. \A y \in S : x <= y
  BY <1>5
<1> QED
  BY <1>6

\* A set of numbers up to n has a greatest.
LEMMA GreatestNatural ==
    ASSUME NEW S \in SUBSET Nat, S # {}, NEW n \in Nat, \A k \in S : k <= n
    PROVE  \E m \in S : \A k \in S : k <= m
<1> DEFINE D == {d \in Nat : n - d \in S}
<1>1. PICK k \in S : k <= n /\ k \in Nat
  OBVIOUS
<1>2. n - k \in D
  BY <1>1
<1>3. D \in SUBSET Nat /\ D # {}
  BY <1>2
<1>4. PICK d \in D : \A e \in D : d <= e
  <2> HIDE DEF D
  <2> QED
    BY <1>3, LeastNatural
<1>5. n - d \in S /\ d \in Nat
  OBVIOUS
<1>6. ASSUME NEW j \in S
      PROVE  j <= n - d
  <2>1. j \in Nat /\ j <= n
    OBVIOUS
  <2>2. n - j \in Nat /\ n - (n - j) = j
    BY <2>1
  <2>3. n - j \in D
    BY <2>2
  <2>4. d <= n - j
    BY <1>4, <2>3
  <2> QED
    BY <1>5, <2>1, <2>4
<1> QED
  BY <1>5, <1>6

\* Partial functions by primitive recursion up to n.
Recursion(F, start, step, n) ==
    /\ F \in [0 .. n -> Int]
    /\ F[0] = start
    /\ \A j \in 1 .. n : F[j] = step[<<F[j - 1], j>>]

\* There is one, for every start and every step.
LEMMA RecursionExists ==
    ASSUME NEW n \in Nat, NEW start \in Int, NEW step \in [Int \X (1 .. n) -> Int]
    PROVE  \E F : Recursion(F, start, step, n)
<1> DEFINE No == {k \in 0 .. n : ~\E F : Recursion(F, start, step, k)}
<1>1. SUFFICES ASSUME No # {} PROVE FALSE
  OBVIOUS
<1>2. PICK k \in No : \A j \in No : k <= j
  <2>1. No \in SUBSET Nat
    OBVIOUS
  <2> HIDE DEF No
  <2> QED
    BY <1>1, <2>1, LeastNatural
<1>3. k # 0
  <2>1. Recursion([j \in 0 .. 0 |-> start], start, step, 0)
    BY DEF Recursion
  <2> QED
    BY <2>1
<1>4. k - 1 \in 0 .. n /\ k - 1 \notin No
  BY <1>2, <1>3
<1>5. PICK F : Recursion(F, start, step, k - 1)
  BY <1>4
<1> DEFINE G == [j \in 0 .. k |-> IF j = k THEN step[<<F[k - 1], k>>] ELSE F[j]]
<1>6. Recursion(G, start, step, k)
  <2>1. F \in [0 .. k - 1 -> Int] /\ k - 1 \in 0 .. k - 1 /\ k \in 1 .. n
    BY <1>3, <1>4, <1>5 DEF Recursion
  <2>2. step[<<F[k - 1], k>>] \in Int
    BY <2>1
  <2>3. G \in [0 .. k -> Int]
    BY <2>1, <2>2
  <2>4. G[0] = start
    BY <1>3, <1>5, <2>1 DEF Recursion
  <2>5. ASSUME NEW j \in 1 .. k
        PROVE  G[j] = step[<<G[j - 1], j>>]
    <3>1. G[j - 1] = F[j - 1]
      BY <2>1
    <3>2. CASE j = k
      <4>1. G[k] = step[<<F[k - 1], k>>]
        BY <2>1
      <4> QED
        BY <3>1, <3>2, <4>1
    <3>3. CASE j # k
      <4>1. j \in 1 .. k - 1 /\ G[j] = F[j]
        BY <3>3
      <4> QED
        BY <1>5, <3>1, <4>1 DEF Recursion
    <3> QED
      BY <3>2, <3>3
  <2> QED
    BY <2>3, <2>4, <2>5 DEF Recursion
<1> QED
  BY <1>6

\* Induction over a set of numbers.
LEMMA UpTo ==
    ASSUME NEW n \in Nat, NEW S, 0 \in S, \A k \in 1 .. n : k - 1 \in S => k \in S
    PROVE  \A k \in 0 .. n : k \in S
<1> DEFINE No == {k \in 0 .. n : k \notin S}
<1>1. SUFFICES ASSUME No # {} PROVE FALSE
  OBVIOUS
<1>2. No \in SUBSET Nat
  OBVIOUS
<1>3. PICK k \in No : \A j \in No : k <= j
  <2> HIDE DEF No
  <2> QED
    BY <1>1, <1>2, LeastNatural
<1>4. k # 0 /\ k \in 1 .. n /\ k - 1 \in 0 .. n
  OBVIOUS
<1>5. k - 1 \in S
  BY <1>3, <1>4
<1> QED
  BY <1>4, <1>5

-----------------------------------------------------------------------------
(***************************************************************************)
(* SumTo: what it computes, and what the proofs need of sums.              *)
(***************************************************************************)

\* The sums of f up to each place.
PartialSums(F, f, n) ==
    /\ F \in [0 .. n -> Int]
    /\ F[0] = 0
    /\ \A j \in 1 .. n : F[j] = F[j - 1] + f[j]
    /\ \A k \in 0 .. n : SumTo(f, k) = F[k]

\* SumTo computes the partial sums.
LEMMA SumToDef ==
    ASSUME NEW n \in Nat, NEW f, \A j \in 1 .. n : f[j] \in Int
    PROVE  \E F : PartialSums(F, f, n)
<1> DEFINE step == [p \in Int \X (1 .. n) |-> p[1] + f[p[2]]]
<1>1. step \in [Int \X (1 .. n) -> Int]
  OBVIOUS
<1>2. \A a \in Int, j \in 1 .. n : step[<<a, j>>] = a + f[j]
  OBVIOUS
<1> HIDE DEF step
<1>3. PICK F : Recursion(F, 0, step, n)
  <2>1. 0 \in Int
    OBVIOUS
  <2> QED
    BY <1>1, <2>1, RecursionExists, Zenon
<1>4. F \in [0 .. n -> Int] /\ F[0] = 0 /\ \A j \in 1 .. n : F[j] = step[<<F[j - 1], j>>]
  BY <1>3 DEF Recursion
<1>5. ASSUME NEW j \in 1 .. n
      PROVE  F[j] = F[j - 1] + f[j]
  <2>1. F[j - 1] \in Int
    BY <1>4
  <2> QED
    BY <1>2, <1>4, <2>1
<1>6. ASSUME NEW k \in 0 .. n
      PROVE  SumTo(f, k) = F[k]
  <2> DEFINE body(g) == [j \in 0 .. k |-> IF j = 0 THEN 0 ELSE g[j - 1] + f[j]]
             g == CHOOSE g : g = body(g)
             H == [j \in 0 .. k |-> F[j]]
  <2>1. H = body(H)
    <3>1. ASSUME NEW j \in 0 .. k
          PROVE  H[j] = body(H)[j]
      <4>1. CASE j = 0
        BY <1>4, <4>1
      <4>2. CASE j # 0
        <5>1. j \in 1 .. n /\ j - 1 \in 0 .. k
          BY <4>2
        <5> QED
          BY <1>5, <4>2, <5>1
      <4> QED
        BY <4>1, <4>2
    <3> QED
      BY <3>1
  <2>2. g = body(g)
    BY <2>1
  <2>3. SumTo(f, k) = g[k]
    BY DEF SumTo
  <2>4. g[0] = 0 /\ \A j \in 1 .. k : g[j] = g[j - 1] + f[j]
    <3> HIDE DEF g
    <3> QED
      BY <2>2
  <2> HIDE DEF g
  <2> DEFINE No == {j \in 0 .. k : g[j] # F[j]}
  <2>5. No = {}
    <3>1. SUFFICES ASSUME No # {} PROVE FALSE
      OBVIOUS
    <3>2. No \in SUBSET Nat
      OBVIOUS
    <3>3. PICK m \in No : \A j \in No : m <= j
      <4> HIDE DEF No
      <4> QED
        BY <3>1, <3>2, LeastNatural
    <3>4. m # 0
      BY <1>4, <2>4
    <3>5. m - 1 \in 0 .. k /\ m - 1 \notin No /\ m \in 1 .. k /\ m \in 1 .. n
      BY <3>3, <3>4
    <3>6. g[m - 1] = F[m - 1]
      BY <3>5
    <3> QED
      BY <1>5, <2>4, <3>5, <3>6
  <2> QED
    BY <2>3, <2>5
<1> QED
  BY <1>4, <1>5, <1>6 DEF PartialSums

\* The equations of a sum, and its type.
LEMMA SumToRule ==
    ASSUME NEW n \in Nat, NEW f, \A j \in 1 .. n : f[j] \in Int
    PROVE  /\ SumTo(f, 0) = 0
           /\ \A k \in 0 .. n : SumTo(f, k) \in Int
           /\ \A k \in 1 .. n : SumTo(f, k) = SumTo(f, k - 1) + f[k]
<1>1. PICK F : PartialSums(F, f, n)
  BY SumToDef, Zenon
<1>2. \A k \in 1 .. n : k \in 0 .. n /\ k - 1 \in 0 .. n
  OBVIOUS
<1> QED
  BY <1>1, <1>2 DEF PartialSums

\* Sums follow the order of their terms.
LEMMA SumLess ==
    ASSUME NEW n \in Nat, NEW f, NEW g,
           \A j \in 1 .. n : f[j] \in Int /\ g[j] \in Int /\ f[j] <= g[j]
    PROVE  SumTo(f, n) <= SumTo(g, n)
<1> DEFINE S == {k \in 0 .. n : SumTo(f, k) <= SumTo(g, k)}
<1>1. /\ SumTo(f, 0) = 0 /\ \A k \in 0 .. n : SumTo(f, k) \in Int
      /\ \A k \in 1 .. n : SumTo(f, k) = SumTo(f, k - 1) + f[k]
  BY SumToRule
<1>2. /\ SumTo(g, 0) = 0 /\ \A k \in 0 .. n : SumTo(g, k) \in Int
      /\ \A k \in 1 .. n : SumTo(g, k) = SumTo(g, k - 1) + g[k]
  BY SumToRule
<1>3. 0 \in S
  BY <1>1, <1>2
<1>4. ASSUME NEW k \in 1 .. n, k - 1 \in S
      PROVE  k \in S
  BY <1>1, <1>2, <1>4
<1>5. \A k \in 0 .. n : k \in S
  <2> HIDE DEF S
  <2> QED
    BY <1>3, <1>4, UpTo
<1> QED
  BY <1>5

\* Sums of the same terms are the same.
LEMMA SumSame ==
    ASSUME NEW n \in Nat, NEW f, NEW g, \A j \in 1 .. n : f[j] \in Int /\ f[j] = g[j]
    PROVE  SumTo(f, n) = SumTo(g, n)
<1>1. SumTo(f, n) <= SumTo(g, n)
  BY SumLess
<1>2. SumTo(g, n) <= SumTo(f, n)
  BY SumLess
<1>3. SumTo(f, n) \in Int /\ SumTo(g, n) \in Int
  <2>1. SumTo(f, n) \in Int
    BY SumToRule
  <2>2. SumTo(g, n) \in Int
    BY SumToRule
  <2> QED
    BY <2>1, <2>2
<1> QED
  BY <1>1, <1>2, <1>3

\* The sum of sums of terms.
LEMMA SumAdd ==
    ASSUME NEW n \in Nat, NEW f, NEW g, NEW h,
           \A j \in 1 .. n : f[j] \in Int /\ g[j] \in Int /\ h[j] = f[j] + g[j]
    PROVE  SumTo(h, n) = SumTo(f, n) + SumTo(g, n)
<1> DEFINE S == {k \in 0 .. n : SumTo(h, k) = SumTo(f, k) + SumTo(g, k)}
<1>1. /\ SumTo(f, 0) = 0 /\ \A k \in 0 .. n : SumTo(f, k) \in Int
      /\ \A k \in 1 .. n : SumTo(f, k) = SumTo(f, k - 1) + f[k]
  BY SumToRule
<1>2. /\ SumTo(g, 0) = 0 /\ \A k \in 0 .. n : SumTo(g, k) \in Int
      /\ \A k \in 1 .. n : SumTo(g, k) = SumTo(g, k - 1) + g[k]
  BY SumToRule
<1>3. /\ SumTo(h, 0) = 0 /\ \A k \in 0 .. n : SumTo(h, k) \in Int
      /\ \A k \in 1 .. n : SumTo(h, k) = SumTo(h, k - 1) + h[k]
  <2>1. \A j \in 1 .. n : h[j] \in Int
    OBVIOUS
  <2> QED
    BY <2>1, SumToRule
<1>4. 0 \in S
  BY <1>1, <1>2, <1>3
<1>5. ASSUME NEW k \in 1 .. n, k - 1 \in S
      PROVE  k \in S
  BY <1>1, <1>2, <1>3, <1>5
<1>6. \A k \in 0 .. n : k \in S
  <2> HIDE DEF S
  <2> QED
    BY <1>4, <1>5, UpTo
<1> QED
  BY <1>6

\* A sum of which one term is other than in another sum.
LEMMA SumOne ==
    ASSUME NEW n \in Nat, NEW f, NEW g, NEW m \in 1 .. n,
           \A j \in 1 .. n : f[j] \in Int /\ g[j] \in Int /\ (j # m => f[j] = g[j])
    PROVE  SumTo(g, n) = SumTo(f, n) + g[m] - f[m]
<1> DEFINE S == {k \in 0 .. n : SumTo(g, k) = SumTo(f, k) + (IF k < m THEN 0 ELSE g[m] - f[m])}
<1>1. /\ SumTo(f, 0) = 0 /\ \A k \in 0 .. n : SumTo(f, k) \in Int
      /\ \A k \in 1 .. n : SumTo(f, k) = SumTo(f, k - 1) + f[k]
  BY SumToRule
<1>2. /\ SumTo(g, 0) = 0 /\ \A k \in 0 .. n : SumTo(g, k) \in Int
      /\ \A k \in 1 .. n : SumTo(g, k) = SumTo(g, k - 1) + g[k]
  BY SumToRule
<1>3. 0 \in S
  BY <1>1, <1>2
<1>4. ASSUME NEW k \in 1 .. n, k - 1 \in S
      PROVE  k \in S
  <2>1. CASE k = m
    BY <1>1, <1>2, <1>4, <2>1
  <2>2. CASE k # m
    BY <1>1, <1>2, <1>4, <2>2
  <2> QED
    BY <2>1, <2>2
<1>5. \A k \in 0 .. n : k \in S
  <2> HIDE DEF S
  <2> QED
    BY <1>3, <1>4, UpTo
<1>6. f[m] \in Int /\ g[m] \in Int /\ SumTo(f, n) \in Int
  BY <1>1
<1> QED
  BY <1>5, <1>6

\* A sum of numbers is no less than each, and a longer one no less than a shorter.
LEMMA SumTerms ==
    ASSUME NEW n \in Nat, NEW f, \A j \in 1 .. n : f[j] \in Nat
    PROVE  /\ SumTo(f, n) \in Nat
           /\ \A j \in 1 .. n : f[j] <= SumTo(f, n)
<1> DEFINE S == {k \in 0 .. n : SumTo(f, k) \in Nat /\ \A j \in 1 .. k : f[j] <= SumTo(f, k)}
<1>1. /\ SumTo(f, 0) = 0 /\ \A k \in 0 .. n : SumTo(f, k) \in Int
      /\ \A k \in 1 .. n : SumTo(f, k) = SumTo(f, k - 1) + f[k]
  BY SumToRule
<1>3. 0 \in S
  BY <1>1
<1>4. ASSUME NEW k \in 1 .. n, k - 1 \in S
      PROVE  k \in S
  <2>1. SumTo(f, k) = SumTo(f, k - 1) + f[k] /\ SumTo(f, k - 1) \in Nat /\ f[k] \in Nat
    BY <1>1, <1>4
  <2>2. ASSUME NEW j \in 1 .. k
        PROVE  f[j] <= SumTo(f, k)
    <3>1. CASE j = k
      BY <2>1, <3>1
    <3>2. CASE j # k
      <4>1. j \in 1 .. k - 1 /\ f[j] \in Nat
        BY <3>2
      <4> QED
        BY <1>4, <2>1, <4>1
    <3> QED
      BY <3>1, <3>2
  <2> QED
    BY <2>1, <2>2
<1>5. \A k \in 0 .. n : k \in S
  <2> HIDE DEF S
  <2> QED
    BY <1>3, <1>4, UpTo
<1> QED
  BY <1>5

\* A multiple of each term.
LEMMA SumScale ==
    ASSUME NEW n \in Nat, NEW f, NEW g, NEW c \in Int,
           \A j \in 1 .. n : f[j] \in Int /\ g[j] = c * f[j]
    PROVE  SumTo(g, n) = c * SumTo(f, n)
<1> DEFINE S == {k \in 0 .. n : SumTo(g, k) = c * SumTo(f, k)}
<1>1. /\ SumTo(f, 0) = 0 /\ \A k \in 0 .. n : SumTo(f, k) \in Int
      /\ \A k \in 1 .. n : SumTo(f, k) = SumTo(f, k - 1) + f[k]
  BY SumToRule
<1>2. /\ SumTo(g, 0) = 0 /\ \A k \in 0 .. n : SumTo(g, k) \in Int
      /\ \A k \in 1 .. n : SumTo(g, k) = SumTo(g, k - 1) + g[k]
  <2>1. \A j \in 1 .. n : g[j] \in Int
    OBVIOUS
  <2> QED
    BY <2>1, SumToRule
<1>3. 0 \in S
  BY <1>1, <1>2
<1>4. ASSUME NEW k \in 1 .. n, k - 1 \in S
      PROVE  k \in S
  <2>1. \A a, b \in Int : c * (a + b) = c * a + c * b
    OBVIOUS
  <2>2. SumTo(f, k - 1) \in Int /\ f[k] \in Int /\ SumTo(g, k - 1) = c * SumTo(f, k - 1)
    BY <1>1, <1>4
  <2>3. SumTo(g, k) = c * SumTo(f, k - 1) + c * f[k]
    BY <1>2, <2>2
  <2>4. SumTo(f, k) = SumTo(f, k - 1) + f[k]
    BY <1>1
  <2>5. c * (SumTo(f, k - 1) + f[k]) = c * SumTo(f, k - 1) + c * f[k]
    BY <2>1, <2>2
  <2> QED
    BY <2>3, <2>4, <2>5
<1>5. \A k \in 0 .. n : k \in S
  <2> HIDE DEF S
  <2> QED
    BY <1>3, <1>4, UpTo
<1> QED
  BY <1>5

-----------------------------------------------------------------------------
(***************************************************************************)
(* CeilDiv(a, b) is the least k for which k * b holds a.                   *)
(***************************************************************************)

\* What \div computes.
LEMMA DivRule ==
    ASSUME NEW a \in Nat, NEW b \in Nat, b # 0
    PROVE  a \div b \in Nat /\ b * (a \div b) <= a /\ a < b * (a \div b) + b
OBVIOUS

\* Products with a number follow the order of the other factor.
LEMMA ProductOrder ==
    ASSUME NEW b \in Nat, NEW p \in Int, NEW q \in Int, p <= q
    PROVE  b * p <= b * q
OBVIOUS

\* CeilDiv(a, b) is the least number of bs that holds a.
LEMMA CeilLeast ==
    ASSUME NEW a \in Nat, NEW b \in Nat, b # 0
    PROVE  /\ CeilDiv(a, b) \in Nat
           /\ \A k \in Int : a <= b * k <=> CeilDiv(a, b) <= k
<1> DEFINE q == (a + b - 1) \div b
<1>1. q \in Nat /\ b * q <= a + b - 1 /\ a + b - 1 < b * q + b
  <2>1. a + b - 1 \in Nat
    OBVIOUS
  <2> QED
    BY <2>1, DivRule
<1>2. CeilDiv(a, b) = q
  BY DEF CeilDiv
<1> HIDE DEF q
<1>3. ASSUME NEW k \in Int, a <= b * k
      PROVE  q <= k
  <2>1. SUFFICES ASSUME k <= q - 1 PROVE FALSE
    BY <1>1
  <2>2. b * k <= b * (q - 1)
    BY <1>1, <2>1, ProductOrder
  <2>3. b * (q - 1) = b * q - b
    BY <1>1
  <2>4. b * q \in Int /\ b * k \in Int
    BY <1>1
  <2> QED
    BY <1>1, <1>3, <2>2, <2>3, <2>4
<1>4. ASSUME NEW k \in Int, q <= k
      PROVE  a <= b * k
  <2>1. b * q <= b * k
    BY <1>1, <1>4, ProductOrder
  <2>2. b * q \in Int /\ b * k \in Int
    BY <1>1
  <2> QED
    BY <1>1, <2>1, <2>2
<1> QED
  BY <1>1, <1>2, <1>3, <1>4

\* a lies within the last of the CeilDiv(a, b) periods.
LEMMA CeilBounds ==
    ASSUME NEW a \in Nat, NEW b \in Nat, b # 0
    PROVE  /\ CeilDiv(a, b) \in Nat
           /\ a <= b * CeilDiv(a, b)
           /\ b * CeilDiv(a, b) < a + b
           /\ a = 0 => CeilDiv(a, b) = 0
           /\ 0 < a /\ a <= b => CeilDiv(a, b) = 1
<1> DEFINE q == CeilDiv(a, b)
<1>1. q \in Nat /\ \A k \in Int : a <= b * k <=> q <= k
  BY CeilLeast
<1> HIDE DEF q
<1>2. a <= b * q
  BY <1>1
<1>3. ~(a <= b * (q - 1))
  BY <1>1
<1>4. b * (q - 1) = b * q - b /\ b * q \in Int
  BY <1>1
<1>5. b * q < a + b
  BY <1>3, <1>4
<1>6. a = 0 => q = 0
  <2>1. b * 0 = 0
    OBVIOUS
  <2> QED
    BY <1>1, <2>1
<1>7. 0 < a /\ a <= b => q = 1
  <2>1. b * 0 = 0 /\ b * 1 = b
    OBVIOUS
  <2> QED
    BY <1>1, <2>1
<1> QED
  BY <1>1, <1>2, <1>5, <1>6, <1>7 DEF q

\* More time has no fewer periods.
LEMMA CeilMonotone ==
    ASSUME NEW a \in Nat, NEW c \in Nat, NEW b \in Nat, b # 0, a <= c
    PROVE  CeilDiv(a, b) <= CeilDiv(c, b)
<1>1. c <= b * CeilDiv(c, b) /\ CeilDiv(c, b) \in Nat
  BY CeilBounds
<1>2. b * CeilDiv(c, b) \in Int
  BY <1>1
<1>3. a <= b * CeilDiv(c, b)
  BY <1>1, <1>2
<1> QED
  BY <1>1, <1>3, CeilLeast

\* Two stretches have no fewer periods than the two in one.
LEMMA CeilSubadditive ==
    ASSUME NEW a \in Nat, NEW c \in Nat, NEW b \in Nat, b # 0
    PROVE  CeilDiv(a + c, b) <= CeilDiv(a, b) + CeilDiv(c, b)
<1> DEFINE p == CeilDiv(a, b)
           q == CeilDiv(c, b)
<1>1. p \in Nat /\ a <= b * p /\ q \in Nat /\ c <= b * q
  BY CeilBounds
<1>2. \A k \in Int : a + c <= b * k <=> CeilDiv(a + c, b) <= k
  BY CeilLeast
<1> HIDE DEF p, q
<1>3. b * (p + q) = b * p + b * q /\ b * p \in Int /\ b * q \in Int
  BY <1>1
<1>4. a + c <= b * (p + q)
  BY <1>1, <1>3
<1> QED
  BY <1>1, <1>2, <1>4 DEF p, q

-----------------------------------------------------------------------------
(***************************************************************************)
(* Load grows with the time, and never by more than from the start.        *)
(***************************************************************************)

\* A set of services with periods and run times of at least one tick.
ServiceSet(s) ==
    /\ s.T \in Seq(Nat) /\ Len(s.T) \in Nat
    /\ \A j \in Services(s) : s.T[j] \in Nat /\ s.T[j] # 0 /\ s.C[j] \in Nat /\ s.C[j] # 0

\* Products of numbers are numbers.
LEMMA ProductNat ==
    ASSUME NEW a \in Nat, NEW b \in Nat
    PROVE  a * b \in Nat
OBVIOUS

\* What one service asks for.
LEMMA TermNat ==
    ASSUME NEW s, ServiceSet(s), NEW a \in Nat, NEW j \in Services(s)
    PROVE  CeilDiv(a, s.T[j]) * s.C[j] \in Nat
<1>1. s.T[j] \in Nat /\ s.T[j] # 0 /\ s.C[j] \in Nat
  BY DEF ServiceSet
<1>2. CeilDiv(a, s.T[j]) \in Nat
  BY <1>1, CeilBounds
<1> QED
  BY <1>1, <1>2, ProductNat

\* Load(s, i, a), service by service.
LEMMA LoadRule ==
    ASSUME NEW s, ServiceSet(s), NEW a \in Nat
    PROVE  /\ Load(s, 0, a) = 0
           /\ \A i \in 0 .. Len(s.T) : Load(s, i, a) \in Nat
           /\ \A i \in Services(s) :
                Load(s, i, a) = Load(s, i - 1, a) + CeilDiv(a, s.T[i]) * s.C[i]
<1> DEFINE f == [j \in Services(s) |-> CeilDiv(a, s.T[j]) * s.C[j]]
           n == Len(s.T)
<1>1. \A j \in 1 .. n : f[j] \in Nat
  BY TermNat DEF Services
<1>2. n \in Nat
  BY DEF ServiceSet
<1>3. \A j \in Services(s) : f[j] = CeilDiv(a, s.T[j]) * s.C[j]
  OBVIOUS
<1>4. \A i : Load(s, i, a) = SumTo(f, i)
  BY DEF Load
<1> HIDE DEF f, n
<1>5. \A j \in 1 .. n : f[j] \in Int
  BY <1>1
<1>6. /\ SumTo(f, 0) = 0
      /\ \A k \in 1 .. n : SumTo(f, k) = SumTo(f, k - 1) + f[k]
  BY <1>2, <1>5, SumToRule
<1>7. ASSUME NEW i \in 0 .. n
      PROVE  SumTo(f, i) \in Nat
  <2>1. \A j \in 1 .. i : f[j] \in Nat
    BY <1>1, <1>2
  <2> QED
    BY <1>2, <2>1, SumTerms
<1> QED
  BY <1>3, <1>4, <1>6, <1>7 DEF n, Services

\* Where no service has more releases, no more is asked for.
LEMMA LoadFewer ==
    ASSUME NEW s, ServiceSet(s), NEW a \in Nat, NEW c \in Nat, NEW i \in 0 .. Len(s.T),
           \A j \in 1 .. i : CeilDiv(a, s.T[j]) <= CeilDiv(c, s.T[j])
    PROVE  Load(s, i, a) <= Load(s, i, c)
<1> DEFINE f == [j \in Services(s) |-> CeilDiv(a, s.T[j]) * s.C[j]]
           g == [j \in Services(s) |-> CeilDiv(c, s.T[j]) * s.C[j]]
<1>1. i \in Nat /\ \A j \in 1 .. i : j \in Services(s)
  BY DEF ServiceSet, Services
<1>2. ASSUME NEW j \in 1 .. i
      PROVE  f[j] \in Int /\ g[j] \in Int /\ f[j] <= g[j]
  <2>0. j \in Services(s)
    BY <1>1
  <2>1. f[j] = CeilDiv(a, s.T[j]) * s.C[j] /\ g[j] = CeilDiv(c, s.T[j]) * s.C[j]
    BY <2>0
  <2>2. f[j] \in Nat /\ g[j] \in Nat
    BY <2>0, <2>1, TermNat
  <2>3. s.T[j] \in Nat /\ s.T[j] # 0 /\ s.C[j] \in Nat
    BY <2>0 DEF ServiceSet
  <2>4. CeilDiv(a, s.T[j]) <= CeilDiv(c, s.T[j])
    OBVIOUS
  <2>5. CeilDiv(a, s.T[j]) \in Nat /\ CeilDiv(c, s.T[j]) \in Nat
    BY <2>3, CeilBounds
  <2> DEFINE p == CeilDiv(a, s.T[j])
             q == CeilDiv(c, s.T[j])
  <2>6. f[j] = p * s.C[j] /\ g[j] = q * s.C[j] /\ p \in Nat /\ q \in Nat /\ p <= q
    BY <2>1, <2>4, <2>5
  <2> HIDE DEF f, g, p, q
  <2>7. s.C[j] * p <= s.C[j] * q
    <3>1. p \in Int /\ q \in Int /\ s.C[j] \in Nat /\ p <= q
      BY <2>3, <2>6
    <3> QED
      BY <3>1, ProductOrder, Zenon
  <2>8. s.C[j] * p = p * s.C[j] /\ s.C[j] * q = q * s.C[j]
    BY <2>3, <2>6
  <2> QED
    BY <2>2, <2>6, <2>7, <2>8
<1> HIDE DEF f, g
<1>3. SumTo(f, i) <= SumTo(g, i)
  BY <1>1, <1>2, SumLess
<1> QED
  BY <1>3 DEF Load, f, g

\* More is asked for in a longer time.
LEMMA LoadLess ==
    ASSUME NEW s, ServiceSet(s), NEW a \in Nat, NEW c \in Nat, a <= c,
           NEW i \in 0 .. Len(s.T)
    PROVE  Load(s, i, a) <= Load(s, i, c)
<1>1. ASSUME NEW j \in 1 .. i
      PROVE  CeilDiv(a, s.T[j]) <= CeilDiv(c, s.T[j])
  <2>1. j \in Services(s)
    BY DEF ServiceSet, Services
  <2>2. s.T[j] \in Nat /\ s.T[j] # 0
    BY <2>1 DEF ServiceSet
  <2> QED
    BY <2>2, CeilMonotone
<1> QED
  BY <1>1, LoadFewer

\* No stretch asks for more than the same time from the start, when all are released at once.
LEMMA LoadSubadditive ==
    ASSUME NEW s, ServiceSet(s), NEW a \in Nat, NEW c \in Nat, NEW i \in 0 .. Len(s.T)
    PROVE  Load(s, i, a + c) <= Load(s, i, a) + Load(s, i, c)
<1> DEFINE f == [j \in Services(s) |-> CeilDiv(a, s.T[j]) * s.C[j]]
           g == [j \in Services(s) |-> CeilDiv(c, s.T[j]) * s.C[j]]
           h == [j \in Services(s) |-> CeilDiv(a + c, s.T[j]) * s.C[j]]
           e == [j \in Services(s) |-> f[j] + g[j]]
<1>1. i \in Nat /\ \A j \in 1 .. i : j \in Services(s)
  BY DEF ServiceSet, Services
<1>2. ASSUME NEW j \in Services(s)
      PROVE  f[j] \in Int /\ g[j] \in Int /\ h[j] \in Int /\ e[j] \in Int
             /\ e[j] = f[j] + g[j] /\ h[j] <= e[j]
  <2>1. /\ f[j] = CeilDiv(a, s.T[j]) * s.C[j] /\ g[j] = CeilDiv(c, s.T[j]) * s.C[j]
        /\ h[j] = CeilDiv(a + c, s.T[j]) * s.C[j] /\ e[j] = f[j] + g[j]
    OBVIOUS
  <2>2. f[j] \in Nat /\ g[j] \in Nat /\ h[j] \in Nat
    <3>1. a + c \in Nat
      OBVIOUS
    <3> QED
      BY <2>1, <3>1, TermNat
  <2>3. s.T[j] \in Nat /\ s.T[j] # 0 /\ s.C[j] \in Nat
    BY DEF ServiceSet
  <2> DEFINE p == CeilDiv(a, s.T[j])
             q == CeilDiv(c, s.T[j])
             r == CeilDiv(a + c, s.T[j])
  <2>4. r <= p + q
    BY <2>3, CeilSubadditive
  <2>5. p \in Nat /\ q \in Nat /\ r \in Nat
    <3>1. a + c \in Nat
      OBVIOUS
    <3> QED
      BY <2>3, <3>1, CeilBounds
  <2>6. f[j] = p * s.C[j] /\ g[j] = q * s.C[j] /\ h[j] = r * s.C[j] /\ e[j] = f[j] + g[j]
    BY <2>1
  <2> HIDE DEF f, g, h, e, p, q, r
  <2>7. s.C[j] * r <= s.C[j] * (p + q)
    BY <2>3, <2>4, <2>5, ProductOrder
  <2>8. s.C[j] * (p + q) = p * s.C[j] + q * s.C[j] /\ s.C[j] * r = r * s.C[j]
    BY <2>3, <2>5
  <2> QED
    BY <2>2, <2>6, <2>7, <2>8
<1> HIDE DEF f, g, h, e
<1>3. SumTo(h, i) <= SumTo(e, i)
  BY <1>1, <1>2, SumLess
<1>4. SumTo(e, i) = SumTo(f, i) + SumTo(g, i)
  BY <1>1, <1>2, SumAdd
<1>5. SumTo(h, i) <= SumTo(f, i) + SumTo(g, i)
  BY <1>3, <1>4
<1> QED
  BY <1>5 DEF Load, f, g, h

\* No time asks for nothing.
LEMMA LoadNothing ==
    ASSUME NEW s, ServiceSet(s), NEW i \in 0 .. Len(s.T)
    PROVE  Load(s, i, 0) = 0
<1> DEFINE f == [j \in Services(s) |-> CeilDiv(0, s.T[j]) * s.C[j]]
<1>1. i \in Nat /\ \A j \in 1 .. i : j \in Services(s)
  BY DEF ServiceSet, Services
<1>2. ASSUME NEW j \in Services(s)
      PROVE  f[j] = 0
  <2>1. s.T[j] \in Nat /\ s.T[j] # 0 /\ s.C[j] \in Nat
    BY DEF ServiceSet
  <2>2. CeilDiv(0, s.T[j]) = 0
    BY <2>1, CeilBounds
  <2> QED
    BY <2>1, <2>2
<1> HIDE DEF f
<1>3. \A j \in 1 .. i : f[j] \in Int /\ f[j] = 0 * f[j]
  <2>1. ASSUME NEW j \in 1 .. i
        PROVE  f[j] = 0
    BY <1>1, <1>2
  <2>2. ASSUME NEW x, x = 0
        PROVE  x \in Int /\ x = 0 * x
    BY <2>2
  <2> QED
    BY <2>1, <2>2
<1>4. SumTo(f, i) = 0 * SumTo(f, i) /\ SumTo(f, i) \in Int
  <2>1. 0 \in Int
    OBVIOUS
  <2>2. SumTo(f, i) = 0 * SumTo(f, i)
    BY <1>1, <1>3, <2>1, SumScale
  <2>3. SumTo(f, i) \in Int
    <3>1. i \in 0 .. i /\ \A j \in 1 .. i : f[j] \in Int
      BY <1>1, <1>3
    <3> QED
      BY <1>1, <3>1, SumToRule
  <2> QED
    BY <2>2, <2>3
<1> QED
  BY <1>4 DEF Load, f

\* k times as long asks for no more than k times as much.
LEMMA LoadMultiple ==
    ASSUME NEW s, ServiceSet(s), NEW a \in Nat, NEW k \in Nat, NEW i \in 0 .. Len(s.T)
    PROVE  Load(s, i, k * a) <= k * Load(s, i, a)
<1> DEFINE S == {m \in 0 .. k : Load(s, i, m * a) <= m * Load(s, i, a)}
<1>1. \A x \in Nat : Load(s, i, x) \in Nat
  BY LoadRule
<1>2. 0 \in S
  <2>1. 0 * a = 0 /\ 0 * Load(s, i, a) = 0
    BY <1>1
  <2> QED
    BY <2>1, LoadNothing
<1>3. ASSUME NEW m \in 1 .. k, m - 1 \in S
      PROVE  m \in S
  <2>1. (m - 1) * a \in Nat /\ m * a = (m - 1) * a + a /\ m * a \in Nat
    OBVIOUS
  <2>2. Load(s, i, m * a) <= Load(s, i, (m - 1) * a) + Load(s, i, a)
    BY <2>1, LoadSubadditive
  <2>3. Load(s, i, (m - 1) * a) <= (m - 1) * Load(s, i, a)
    BY <1>3
  <2>4. (m - 1) * Load(s, i, a) + Load(s, i, a) = m * Load(s, i, a)
    BY <1>1
  <2>5. /\ Load(s, i, m * a) \in Nat /\ Load(s, i, (m - 1) * a) \in Nat
        /\ Load(s, i, a) \in Nat
    BY <1>1, <2>1
  <2>6. (m - 1) * Load(s, i, a) \in Nat /\ m * Load(s, i, a) \in Nat
    <3>1. m \in Nat /\ m - 1 \in Nat
      OBVIOUS
    <3> QED
      BY <2>5, <3>1, ProductNat
  <2> QED
    BY <2>2, <2>3, <2>4, <2>5, <2>6
<1>4. \A m \in 0 .. k : m \in S
  <2> HIDE DEF S
  <2> QED
    BY <1>2, <1>3, UpTo
<1> QED
  BY <1>4

-----------------------------------------------------------------------------
(***************************************************************************)
(* The loop of the completion time test: from below, it ends at the least  *)
(* value that stays.                                                       *)
(***************************************************************************)

\* The equation of the loop that repeats D until its value stays.
Settling(f, D) == f = [an \in Nat |-> IF D[an] = an THEN an ELSE f[D[an]]]

\* What takes more to no less.
Rising(D) == D \in [Nat -> Nat] /\ \A x, y \in Nat : x <= y => D[x] <= D[y]

\* Some function satisfies the equation of the loop, also where the loop does not end.
LEMMA SettlingExists ==
    ASSUME NEW D, Rising(D)
    PROVE  \E f : Settling(f, D)
<1> DEFINE Up(a) == {p \in Nat : D[p] = p /\ a <= p}
           Down(a) == {p \in Nat : D[p] = p /\ p <= a}
           f == [a \in Nat |->
                   IF a <= D[a] THEN CHOOSE m \in Up(a) : \A k \in Up(a) : m <= k
                                ELSE CHOOSE m \in Down(a) : \A k \in Down(a) : k <= m]
<1>1. \A x \in Nat : D[x] \in Nat
  BY DEF Rising
<1>2. \A x, y \in Nat : x <= y => D[x] <= D[y]
  BY DEF Rising
<1>3. ASSUME NEW a \in Nat, D[a] = a
      PROVE  f[a] = a
  <2>1. a \in Up(a) /\ \A k \in Up(a) : a <= k
    BY <1>3
  <2>2. \A m \in Up(a) : (\A k \in Up(a) : m <= k) => m = a
    BY <2>1
  <2>3. (CHOOSE m \in Up(a) : \A k \in Up(a) : m <= k) = a
    <3> HIDE DEF Up
    <3> QED
      BY <2>1, <2>2
  <2>4. a <= D[a]
    BY <1>3
  <2> QED
    BY <2>3, <2>4
<1>4. ASSUME NEW a \in Nat, a < D[a]
      PROVE  f[a] = f[D[a]]
  <2>1. D[a] <= D[D[a]] /\ D[a] \in Nat
    BY <1>1, <1>2, <1>4
  <2>2. \A p \in Nat : D[p] = p => (a <= p <=> D[a] <= p)
    BY <1>1, <1>2, <1>4
  <2>3. Up(a) = Up(D[a])
    BY <2>2
  <2>4. f[a] = CHOOSE m \in Up(a) : \A k \in Up(a) : m <= k
    <3>1. a <= D[a]
      BY <1>4, <2>1
    <3> QED
      BY <3>1
  <2>5. f[D[a]] = CHOOSE m \in Up(D[a]) : \A k \in Up(D[a]) : m <= k
    BY <2>1
  <2> HIDE DEF Up, f
  <2> QED
    BY <2>3, <2>4, <2>5
<1>5. ASSUME NEW a \in Nat, D[a] < a
      PROVE  f[a] = f[D[a]]
  <2>1. D[D[a]] <= D[a] /\ D[a] \in Nat /\ D[D[a]] \in Nat
    BY <1>1, <1>2, <1>5
  <2>2. \A p \in Nat : D[p] = p => (p <= a <=> p <= D[a])
    BY <1>1, <1>2, <1>5
  <2>3. Down(a) = Down(D[a])
    BY <2>2
  <2>4. ~(a <= D[a])
    BY <1>5, <2>1
  <2>5. f[a] = CHOOSE m \in Down(a) : \A k \in Down(a) : k <= m
    BY <2>4
  <2>6. CASE D[D[a]] = D[a]
    <3>1. f[D[a]] = D[a]
      BY <1>3, <2>1, <2>6
    <3>2. D[a] \in Down(D[a]) /\ \A k \in Down(D[a]) : k <= D[a]
      BY <2>1, <2>6
    <3>3. \A m \in Down(D[a]) : (\A k \in Down(D[a]) : k <= m) => m = D[a]
      BY <2>1, <3>2
    <3> HIDE DEF Down, f
    <3>4. (CHOOSE m \in Down(D[a]) : \A k \in Down(D[a]) : k <= m) = D[a]
      BY <3>2, <3>3
    <3> QED
      BY <2>3, <2>5, <3>1, <3>4
  <2>7. CASE D[D[a]] # D[a]
    <3>1. ~(D[a] <= D[D[a]])
      BY <2>1, <2>7
    <3>2. f[D[a]] = CHOOSE m \in Down(D[a]) : \A k \in Down(D[a]) : k <= m
      BY <2>1, <3>1
    <3> HIDE DEF Down, f
    <3> QED
      BY <2>3, <2>5, <3>2
  <2> QED
    BY <2>6, <2>7
<1>6. ASSUME NEW a \in Nat
      PROVE  f[a] = IF D[a] = a THEN a ELSE f[D[a]]
  <2> HIDE DEF f
  <2>1. D[a] = a \/ a < D[a] \/ D[a] < a
    BY <1>1
  <2> QED
    BY <1>3, <1>4, <1>5, <2>1
<1>7. f = [a \in Nat |-> f[a]]
  OBVIOUS
<1> HIDE DEF f
<1>8. f = [a \in Nat |-> IF D[a] = a THEN a ELSE f[D[a]]]
  BY <1>6, <1>7
<1> QED
  BY <1>8 DEF Settling

\* From below, the loop ends at the first value that stays.
LEMMA SettlingLeast ==
    ASSUME NEW D, Rising(D), NEW f, Settling(f, D),
           NEW a \in Nat, a <= D[a], NEW p \in Nat, D[p] = p, a <= p
    PROVE  f[a] \in Nat /\ D[f[a]] = f[a] /\ a <= f[a] /\ f[a] <= p
<1> DEFINE Up == {q \in Nat : D[q] = q /\ a <= q}
<1>1. Up \in SUBSET Nat /\ p \in Up
  OBVIOUS
<1>2. PICK m \in Up : \A k \in Up : m <= k
  <2> HIDE DEF Up
  <2> QED
    BY <1>1, LeastNatural
<1>3. m \in Nat /\ D[m] = m /\ a <= m /\ m <= p
  BY <1>1, <1>2
<1>4. \A x \in Nat : D[x] \in Nat
  BY DEF Rising
<1>5. \A x, y \in Nat : x <= y => D[x] <= D[y]
  BY DEF Rising
<1>6. \A x \in Nat : f[x] = IF D[x] = x THEN x ELSE f[D[x]]
  BY DEF Settling
<1> DEFINE No == {x \in a .. m : x <= D[x] /\ f[x] # m}
<1>7. No = {}
  <2>1. SUFFICES ASSUME No # {} PROVE FALSE
    OBVIOUS
  <2>2. No \in SUBSET Nat /\ \A k \in No : k <= m
    OBVIOUS
  <2>3. PICK x \in No : \A k \in No : k <= x
    <3> HIDE DEF No
    <3> QED
      BY <1>3, <2>1, <2>2, GreatestNatural
  <2>4. x \in Nat /\ a <= x /\ x <= m /\ x <= D[x] /\ f[x] # m
    OBVIOUS
  <2>5. D[x] # x
    <3>1. SUFFICES ASSUME D[x] = x PROVE FALSE
      OBVIOUS
    <3>2. x \in Up /\ f[x] = x
      BY <1>6, <2>4, <3>1
    <3>3. m <= x
      BY <1>2, <3>2
    <3> QED
      BY <1>3, <2>4, <3>2, <3>3
  <2>6. D[x] \in Nat /\ D[x] <= m /\ D[x] <= D[D[x]] /\ x < D[x]
    BY <1>3, <1>4, <1>5, <2>4, <2>5
  <2>7. f[D[x]] = f[x]
    BY <1>6, <2>4, <2>5
  <2>8. D[x] \in No
    BY <2>4, <2>6, <2>7
  <2> QED
    BY <2>3, <2>6, <2>8, <2>4
<1>8. f[a] = m
  BY <1>3, <1>7
<1> QED
  BY <1>3, <1>8

\* What takes some number to no more than itself has a value that stays below that number.
LEMMA RisingStays ==
    ASSUME NEW D, Rising(D), NEW p \in Nat, D[p] <= p
    PROVE  \E q \in Nat : D[q] = q /\ q <= p
<1> DEFINE S == {x \in 0 .. p : x <= D[x]}
<1>1. \A x \in Nat : D[x] \in Nat
  BY DEF Rising
<1>2. \A x, y \in Nat : x <= y => D[x] <= D[y]
  BY DEF Rising
<1>3. S \in SUBSET Nat /\ 0 \in S /\ \A k \in S : k <= p
  BY <1>1
<1>4. PICK x \in S : \A k \in S : k <= x
  <2> HIDE DEF S
  <2> QED
    BY <1>3, GreatestNatural
<1>5. x \in Nat /\ x <= p /\ x <= D[x] /\ D[x] \in Nat
  BY <1>1
<1>6. D[x] <= p /\ D[x] <= D[D[x]]
  BY <1>1, <1>2, <1>5
<1>7. D[x] \in S
  BY <1>5, <1>6
<1>8. D[x] <= x
  BY <1>4, <1>7
<1> QED
  BY <1>5, <1>8

-----------------------------------------------------------------------------
(***************************************************************************)
(* CompletionTime and Hyperperiod.                                         *)
(***************************************************************************)

\* What Demand computes, and that it rises with time.
LEMMA DemandRule ==
    ASSUME NEW s, ServiceSet(s), NEW i \in Services(s)
    PROVE  /\ i \in Nat /\ i - 1 \in 0 .. Len(s.T) /\ i \in 0 .. Len(s.T)
           /\ \A a \in Nat : /\ Demand(s, i, a) \in Nat
                             /\ Demand(s, i, a) = s.C[i] + Load(s, i - 1, a)
                             /\ Load(s, i - 1, a) \in Nat
           /\ \A a, c \in Nat : a <= c => Demand(s, i, a) <= Demand(s, i, c)
<1>1. i \in Nat /\ i - 1 \in 0 .. Len(s.T) /\ i \in 0 .. Len(s.T) /\ s.C[i] \in Nat
  BY DEF ServiceSet, Services
<1>2. \A a \in Nat : Load(s, i - 1, a) \in Nat
  BY <1>1, LoadRule
<1>3. \A a \in Nat : Demand(s, i, a) = s.C[i] + Load(s, i - 1, a)
  BY DEF Demand
<1>4. \A a, c \in Nat : a <= c => Load(s, i - 1, a) <= Load(s, i - 1, c)
  BY <1>1, LoadLess
<1>5. ASSUME NEW a \in Nat
      PROVE  Demand(s, i, a) \in Nat
  <2>1. Load(s, i - 1, a) \in Nat /\ s.C[i] \in Nat
    BY <1>1, <1>2
  <2>2. Demand(s, i, a) = s.C[i] + Load(s, i - 1, a)
    BY <1>3
  <2> QED
    BY <2>1, <2>2
<1>6. ASSUME NEW a \in Nat, NEW c \in Nat, a <= c
      PROVE  Demand(s, i, a) <= Demand(s, i, c)
  <2>1. Load(s, i - 1, a) \in Nat /\ Load(s, i - 1, c) \in Nat /\ s.C[i] \in Nat
    BY <1>1, <1>2
  <2>2. /\ Demand(s, i, a) = s.C[i] + Load(s, i - 1, a)
        /\ Demand(s, i, c) = s.C[i] + Load(s, i - 1, c)
    BY <1>3
  <2>3. Load(s, i - 1, a) <= Load(s, i - 1, c)
    BY <1>4, <1>6
  <2> QED
    BY <2>1, <2>2, <2>3
<1> QED
  BY <1>1, <1>2, <1>3, <1>5, <1>6

\* The completion time is the least time that is all asked for.
LEMMA CompletionTimeRule ==
    ASSUME NEW s, ServiceSet(s), NEW i \in Services(s), NEW p \in Nat, Demand(s, i, p) <= p
    PROVE  /\ CompletionTime(s, i) \in Nat /\ 0 < CompletionTime(s, i)
           /\ Demand(s, i, CompletionTime(s, i)) = CompletionTime(s, i)
           /\ CompletionTime(s, i) <= p
<1> DEFINE D == [a \in Nat |-> Demand(s, i, a)]
           body(g) == [an \in Nat |->
                         IF Demand(s, i, an) = an THEN an ELSE g[Demand(s, i, an)]]
           settle == CHOOSE g : g = body(g)
           start == Load(s, i, 1)
<1>1. CompletionTime(s, i) = settle[start]
  BY DEF CompletionTime
<1>2. \A a \in Nat : /\ Demand(s, i, a) \in Nat
                     /\ Demand(s, i, a) = s.C[i] + Load(s, i - 1, a)
                     /\ Load(s, i - 1, a) \in Nat
  BY DemandRule
<1>3. \A a, c \in Nat : a <= c => Demand(s, i, a) <= Demand(s, i, c)
  BY DemandRule
<1>4. Rising(D)
  BY <1>2, <1>3 DEF Rising
<1>5. \A a \in Nat : D[a] = Demand(s, i, a)
  OBVIOUS
<1>6. \A g : Settling(g, D) <=> g = body(g)
  <2>1. ASSUME NEW g
        PROVE  body(g) = [an \in Nat |-> IF D[an] = an THEN an ELSE g[D[an]]]
    <3> HIDE DEF D
    <3> QED
      BY <1>5
  <2> QED
    BY <2>1 DEF Settling
<1>7. Settling(settle, D)
  <2>1. PICK g : Settling(g, D)
    <3> HIDE DEF D
    <3> QED
      BY <1>4, SettlingExists
  <2>2. g = body(g)
    BY <1>6, <2>1
  <2>3. settle = body(settle)
    <3> HIDE DEF body
    <3> QED
      BY <2>2
  <2> HIDE DEF settle, body, D
  <2> QED
    BY <1>6, <2>3
<1> HIDE DEF settle, D, body, start
<1>8. /\ s.C[i] \in Nat /\ s.C[i] # 0 /\ s.T[i] \in Nat /\ s.T[i] # 0
      /\ i - 1 \in 0 .. Len(s.T) /\ i \in 0 .. Len(s.T)
  BY DemandRule DEF ServiceSet
<1>9. start = Load(s, i - 1, 1) + s.C[i] /\ Load(s, i - 1, 1) \in Nat /\ start \in Nat
  <2>1. Load(s, i, 1) = Load(s, i - 1, 1) + CeilDiv(1, s.T[i]) * s.C[i]
    BY LoadRule
  <2>2. CeilDiv(1, s.T[i]) = 1
    <3>1. 0 < 1 /\ 1 <= s.T[i] /\ 1 \in Nat
      BY <1>8
    <3> QED
      BY <1>8, <3>1, CeilBounds
  <2>3. 1 * s.C[i] = s.C[i]
    BY <1>8
  <2>4. Load(s, i - 1, 1) \in Nat /\ s.C[i] \in Nat
    <3>1. 1 \in Nat
      OBVIOUS
    <3> QED
      BY <1>2, <1>8, <3>1
  <2>5. start = Load(s, i - 1, 1) + s.C[i]
    BY <2>1, <2>2, <2>3 DEF start
  <2> QED
    BY <2>4, <2>5
<1>10. ASSUME NEW x \in Nat, 1 <= x
       PROVE  start <= D[x]
  <2>1. Load(s, i - 1, 1) <= Load(s, i - 1, x)
    BY <1>8, <1>10, LoadLess
  <2>2. D[x] = s.C[i] + Load(s, i - 1, x) /\ Load(s, i - 1, x) \in Nat
    BY <1>2, <1>5
  <2>3. s.C[i] \in Nat
    BY <1>8
  <2> QED
    BY <1>9, <2>1, <2>2, <2>3
<1>11. start <= D[start] /\ 1 <= start
  BY <1>8, <1>9, <1>10
<1>12. PICK q \in Nat : D[q] = q /\ q <= p
  <2>1. D[p] <= p
    BY <1>5
  <2> QED
    BY <1>4, <2>1, RisingStays
<1>13. 1 <= q /\ start <= q
  <2>1. 1 <= q
    <3>1. q = s.C[i] + Load(s, i - 1, q) /\ Load(s, i - 1, q) \in Nat
      BY <1>2, <1>5, <1>12
    <3>2. s.C[i] \in Nat /\ s.C[i] # 0
      BY <1>8
    <3> QED
      BY <3>1, <3>2
  <2> QED
    BY <1>10, <1>12, <2>1
<1>14. settle[start] \in Nat /\ D[settle[start]] = settle[start] /\ start <= settle[start]
       /\ settle[start] <= q
  BY <1>4, <1>7, <1>9, <1>11, <1>12, <1>13, SettlingLeast
<1> QED
  BY <1>1, <1>5, <1>9, <1>11, <1>12, <1>14

\* The product of the periods is a number, and not 0.
LEMMA HyperperiodRule ==
    ASSUME NEW s, ServiceSet(s)
    PROVE  Hyperperiod(s) \in Nat /\ Hyperperiod(s) # 0
<1> DEFINE n == Len(s.T)
           step == [p \in Int \X (1 .. n) |-> p[1] * s.T[p[2]]]
           body(g) == [j \in 0 .. n |-> IF j = 0 THEN 1 ELSE g[j - 1] * s.T[j]]
           product == CHOOSE g : g = body(g)
<1>1. n \in Nat /\ \A j \in 1 .. n : s.T[j] \in Nat /\ s.T[j] # 0
  BY DEF ServiceSet, Services
<1>2. \A a \in Int, j \in 1 .. n : step[<<a, j>>] = a * s.T[j]
  OBVIOUS
<1>3. step \in [Int \X (1 .. n) -> Int]
  <2>1. \A a \in Int, j \in 1 .. n : a * s.T[j] \in Int
    BY <1>1
  <2> QED
    BY <2>1
<1>4. Hyperperiod(s) = product[n]
  BY DEF Hyperperiod
<1>5. PICK F : Recursion(F, 1, step, n)
  <2>1. 1 \in Int
    OBVIOUS
  <2> HIDE DEF step, n
  <2> QED
    BY <1>1, <1>3, <2>1, RecursionExists, Zenon
<1>6. F \in [0 .. n -> Int] /\ F[0] = 1 /\ \A j \in 1 .. n : F[j] = step[<<F[j - 1], j>>]
  BY <1>5 DEF Recursion
<1>7. F = body(F)
  <2>1. ASSUME NEW j \in 0 .. n
        PROVE  F[j] = IF j = 0 THEN 1 ELSE F[j - 1] * s.T[j]
    <3>1. CASE j = 0
      BY <1>6, <3>1
    <3>2. CASE j # 0
      <4>1. j \in 1 .. n /\ F[j - 1] \in Int
        BY <1>1, <1>6, <3>2
      <4>2. F[j] = step[<<F[j - 1], j>>]
        BY <1>6, <4>1
      <4> QED
        BY <1>2, <3>2, <4>1, <4>2
    <3> QED
      BY <3>1, <3>2
  <2>2. F = [j \in 0 .. n |-> F[j]]
    BY <1>6
  <2> QED
    BY <2>1, <2>2
<1>8. product = body(product)
  <2> HIDE DEF body
  <2> QED
    BY <1>7
<1> DEFINE S == {k \in 0 .. n : product[k] \in Nat /\ product[k] # 0}
<1>9. \A k \in 0 .. n : product[k] = IF k = 0 THEN 1 ELSE product[k - 1] * s.T[k]
  <2> HIDE DEF product
  <2> QED
    BY <1>8
<1> HIDE DEF product, n
<1>10. 0 \in S
  BY <1>1, <1>9
<1>11. ASSUME NEW k \in 1 .. n, k - 1 \in S
       PROVE  k \in S
  <2>1. product[k] = product[k - 1] * s.T[k]
    BY <1>9
  <2>2. \A x, y \in Nat : x # 0 /\ y # 0 => x * y \in Nat /\ x * y # 0
    OBVIOUS
  <2>3. s.T[k] \in Nat /\ s.T[k] # 0 /\ product[k - 1] \in Nat /\ product[k - 1] # 0
    BY <1>1, <1>11
  <2>4. k \in 0 .. n
    OBVIOUS
  <2> QED
    BY <2>1, <2>2, <2>3, <2>4
<1>12. \A k \in 0 .. n : k \in S
  <2> HIDE DEF S
  <2> QED
    BY <1>1, <1>10, <1>11, UpTo
<1> QED
  BY <1>1, <1>4, <1>12

-----------------------------------------------------------------------------
(***************************************************************************)
(* The two tests of feasibility/ have the same verdict.                    *)
(***************************************************************************)

\* What fits into a number fits its quotient.
LEMMA DivLeast ==
    ASSUME NEW a \in Nat, NEW b \in Nat, b # 0, NEW n \in Nat, b * n <= a
    PROVE  n <= a \div b
<1> DEFINE q == a \div b
<1>1. q \in Nat /\ a < b * q + b
  BY DivRule
<1> HIDE DEF q
<1>2. SUFFICES ASSUME q + 1 <= n PROVE FALSE
  BY <1>1 DEF q
<1>3. b * (q + 1) <= b * n
  BY <1>1, <1>2, ProductOrder
<1>4. b * (q + 1) = b * q + b /\ b * q \in Int /\ b * n \in Int
  BY <1>1
<1> QED
  BY <1>1, <1>3, <1>4

\* When the services before leave some time, there is a time that holds all that is asked for.
LEMMA SettlesRule ==
    ASSUME NEW s, ServiceSet(s), Settles(s), NEW i \in Services(s)
    PROVE  \E p \in Nat : Demand(s, i, p) <= p
<1> DEFINE H == Hyperperiod(s)
           p == s.C[i] * H
           used == Load(s, i - 1, H)
<1>1. H \in Nat
  BY HyperperiodRule
<1>2. s.C[i] \in Nat /\ i - 1 \in 0 .. Len(s.T)
  BY DemandRule DEF ServiceSet
<1>3. used \in Nat /\ used < H
  <2>1. used < H
    BY DEF Settles, Below
  <2>2. used \in Nat
    BY <1>1, <1>2, LoadRule
  <2> QED
    BY <2>1, <2>2
<1>4. p \in Nat
  BY <1>1, <1>2, ProductNat
<1>5. Load(s, i - 1, p) <= s.C[i] * used
  BY <1>1, <1>2, LoadMultiple
<1>6. Demand(s, i, p) = s.C[i] + Load(s, i - 1, p) /\ Load(s, i - 1, p) \in Nat
  BY <1>4, DemandRule
<1> HIDE DEF used, H, p
<1>7. s.C[i] * used <= s.C[i] * (H - 1)
  BY <1>1, <1>2, <1>3, ProductOrder
<1>8. s.C[i] * (H - 1) = p - s.C[i]
  <2>1. \A x, y \in Int : x * (y - 1) = x * y - x
    OBVIOUS
  <2>2. s.C[i] \in Int /\ H \in Int
    BY <1>1, <1>2
  <2> QED
    BY <2>1, <2>2, Zenon DEF p
<1>9. s.C[i] * used \in Int
  BY <1>2, <1>3
<1>10. Demand(s, i, p) <= p
  BY <1>2, <1>4, <1>5, <1>6, <1>7, <1>8, <1>9
<1> QED
  BY <1>4, <1>10

\* What the loop of the completion time test computes.
LEMMA CompletionTimeLeast ==
    ASSUME NEW s, ServiceSet(s), Settles(s), NEW i \in Services(s)
    PROVE  /\ CompletionTime(s, i) \in Nat /\ 0 < CompletionTime(s, i)
           /\ Demand(s, i, CompletionTime(s, i)) = CompletionTime(s, i)
           /\ \A p \in Nat : Demand(s, i, p) <= p => CompletionTime(s, i) <= p
<1>1. PICK p \in Nat : Demand(s, i, p) <= p
  BY SettlesRule
<1>2. /\ CompletionTime(s, i) \in Nat /\ 0 < CompletionTime(s, i)
      /\ Demand(s, i, CompletionTime(s, i)) = CompletionTime(s, i)
  BY <1>1, CompletionTimeRule
<1>3. ASSUME NEW q \in Nat, Demand(s, i, q) <= q
      PROVE  CompletionTime(s, i) <= q
  BY <1>3, CompletionTimeRule
<1> QED
  BY <1>2, <1>3

\* Within its first period a service asks for one run.
LEMMA LoadIsDemand ==
    ASSUME NEW s, ServiceSet(s), NEW i \in Services(s), NEW a \in Nat, 0 < a, a <= s.T[i]
    PROVE  Load(s, i, a) = Demand(s, i, a)
<1>1. Load(s, i, a) = Load(s, i - 1, a) + CeilDiv(a, s.T[i]) * s.C[i]
  BY LoadRule
<1>2. s.T[i] \in Nat /\ s.T[i] # 0 /\ s.C[i] \in Nat
  BY DEF ServiceSet
<1>3. CeilDiv(a, s.T[i]) = 1
  BY <1>2, CeilBounds
<1>4. Demand(s, i, a) = s.C[i] + Load(s, i - 1, a) /\ Load(s, i - 1, a) \in Nat
  BY DemandRule
<1>5. 1 * s.C[i] = s.C[i]
  BY <1>2
<1> QED
  BY <1>1, <1>2, <1>3, <1>4, <1>5

\* A multiple of a period that holds the load is no earlier than the completion time.
LEMMA PointsSuffice ==
    ASSUME NEW s, ServiceSet(s), Settles(s), SchedulingPointFeasible(s), NEW i \in Services(s)
    PROVE  CompletionTime(s, i) <= s.T[i]
<1>0. PICK S \in 1 .. i :
         \E n \in 1 .. s.T[i] \div s.T[S] : Load(s, i, n * s.T[S]) <= n * s.T[S]
  BY DEF SchedulingPointFeasible
<1>1. PICK n \in 1 .. s.T[i] \div s.T[S] : Load(s, i, n * s.T[S]) <= n * s.T[S]
  BY <1>0
<1>2. S \in Services(s) /\ i \in Nat
  BY DEF ServiceSet, Services
<1>3. s.T[S] \in Nat /\ s.T[S] # 0 /\ s.T[i] \in Nat /\ s.T[i] # 0
  BY <1>2 DEF ServiceSet
<1> DEFINE b == s.T[S]
           a == n * b
           q == s.T[i] \div b
<1>4. q \in Nat /\ b * q <= s.T[i]
  BY <1>3, DivRule
<1>5. n \in Nat /\ 1 <= n /\ n <= q
  BY <1>4
<1>6. b \in Nat /\ b # 0 /\ a = n * b
  BY <1>3
<1>7. Load(s, i, a) <= a
  BY <1>1
<1> HIDE DEF a, b, q
<1>8. b * n <= b * q /\ b * 1 <= b * n
  <2>1. b * n <= b * q
    BY <1>4, <1>5, <1>6, ProductOrder
  <2>2. b * 1 <= b * n
    BY <1>4, <1>5, <1>6, ProductOrder
  <2> QED
    BY <2>1, <2>2
<1>9. b * 1 = b /\ b * n = a /\ a \in Nat /\ b * q \in Nat
  <2>1. b * 1 = b /\ b * n = a
    BY <1>5, <1>6
  <2>2. b * n \in Nat
    BY <1>5, <1>6, ProductNat
  <2>3. b * q \in Nat
    BY <1>4, <1>6, ProductNat
  <2> QED
    BY <2>1, <2>2, <2>3
<1>10. 0 < a /\ a <= s.T[i]
  BY <1>3, <1>4, <1>6, <1>8, <1>9
<1>11. Demand(s, i, a) <= a
  BY <1>7, <1>9, <1>10, LoadIsDemand
<1>12. CompletionTime(s, i) <= a /\ CompletionTime(s, i) \in Nat
  BY <1>9, <1>11, CompletionTimeLeast
<1> QED
  BY <1>3, <1>9, <1>10, <1>12

\* The last multiple of a period between the completion time and the deadline holds the load.
LEMMA PointsNeeded ==
    ASSUME NEW s, ServiceSet(s), Settles(s), NEW i \in Services(s),
           CompletionTime(s, i) <= s.T[i]
    PROVE  \E S \in 1 .. i : \E n \in 1 .. s.T[i] \div s.T[S] :
               Load(s, i, n * s.T[S]) <= n * s.T[S]
<1> DEFINE w == CompletionTime(s, i)
           M == {a \in w .. s.T[i] : \E S \in 1 .. i : \E n \in Nat : a = n * s.T[S]}
<1>1. w \in Nat /\ 0 < w /\ Demand(s, i, w) = w
  BY CompletionTimeLeast
<1>2. i \in Nat /\ i \in 1 .. i /\ i - 1 \in 0 .. Len(s.T) /\ \A S \in 1 .. i : S \in Services(s)
  BY DEF ServiceSet, Services
<1>3. \A S \in 1 .. i : s.T[S] \in Nat /\ s.T[S] # 0
  BY <1>2 DEF ServiceSet
<1>4. w <= s.T[i]
  OBVIOUS
<1> HIDE DEF w
<1>5. s.T[i] \in M
  <2>1. s.T[i] = 1 * s.T[i] /\ s.T[i] \in w .. s.T[i]
    BY <1>1, <1>2, <1>3, <1>4
  <2> QED
    BY <1>2, <2>1
<1>6. M \in SUBSET Nat
  BY <1>1
<1>7. PICK a \in M : \A k \in M : a <= k
  <2> HIDE DEF M
  <2> QED
    BY <1>5, <1>6, LeastNatural
<1>8. a \in Nat /\ w <= a /\ a <= s.T[i] /\ s.T[i] \in Nat
  BY <1>1, <1>2, <1>3
<1>9. PICK S \in 1 .. i, n \in Nat : a = n * s.T[S]
  OBVIOUS
<1>10. ASSUME NEW j \in 1 .. i
       PROVE  CeilDiv(a, s.T[j]) <= CeilDiv(w, s.T[j])
  <2> DEFINE q == CeilDiv(w, s.T[j])
  <2>1. s.T[j] \in Nat /\ s.T[j] # 0
    BY <1>3
  <2>2. q \in Nat /\ w <= s.T[j] * q
    BY <1>1, <2>1, CeilBounds
  <2> HIDE DEF q
  <2>3. s.T[j] * q \in Nat /\ s.T[j] * q = q * s.T[j]
    BY <2>1, <2>2
  <2>4. a <= s.T[j] * q
    <3>1. SUFFICES ASSUME s.T[j] * q < a PROVE FALSE
      BY <1>8, <2>3
    <3>2. s.T[j] * q \in w .. s.T[i]
      BY <1>1, <1>8, <2>2, <2>3, <3>1
    <3>3. s.T[j] * q \in M
      BY <2>2, <2>3, <3>2
    <3>4. a <= s.T[j] * q
      BY <1>7, <3>3
    <3> QED
      BY <1>8, <2>3, <3>1, <3>4
  <2>5. CeilDiv(a, s.T[j]) <= q
    <3>1. \A k \in Int : a <= s.T[j] * k <=> CeilDiv(a, s.T[j]) <= k
      BY <1>8, <2>1, CeilLeast
    <3> QED
      BY <2>2, <2>4, <3>1
  <2> QED
    BY <2>5 DEF q
<1> HIDE DEF M
<1>11. Load(s, i - 1, a) <= Load(s, i - 1, w)
  <2>1. \A j \in 1 .. i - 1 : j \in 1 .. i
    BY <1>2
  <2> QED
    BY <1>1, <1>2, <1>8, <1>10, <2>1, LoadFewer
<1>12. Load(s, i, a) <= a
  <2>1. Load(s, i, a) = Demand(s, i, a)
    BY <1>1, <1>8, LoadIsDemand
  <2>2. /\ Demand(s, i, a) = s.C[i] + Load(s, i - 1, a) /\ Load(s, i - 1, a) \in Nat
        /\ Demand(s, i, w) = s.C[i] + Load(s, i - 1, w) /\ Load(s, i - 1, w) \in Nat
    BY <1>1, <1>8, DemandRule
  <2>3. s.C[i] \in Nat
    BY DEF ServiceSet
  <2> QED
    BY <1>1, <1>8, <1>11, <2>1, <2>2, <2>3
<1>13. n \in 1 .. s.T[i] \div s.T[S]
  <2> DEFINE b == s.T[S]
  <2>1. b \in Nat /\ b # 0 /\ a = n * b
    BY <1>3, <1>9
  <2> HIDE DEF b
  <2>2. n # 0
    <3>1. 0 * b = 0
      BY <2>1
    <3> QED
      BY <1>1, <1>8, <2>1, <3>1
  <2>3. b * n = a
    BY <2>1
  <2>4. b * n <= s.T[i]
    BY <1>8, <2>3
  <2>5. n <= s.T[i] \div b
    BY <1>8, <2>1, <2>4, DivLeast
  <2>6. s.T[i] \div b \in Nat
    BY <1>8, <2>1, DivRule
  <2> QED
    BY <2>2, <2>5, <2>6 DEF b
<1> QED
  BY <1>9, <1>12, <1>13

\* completion_time_feasibility and scheduling_point_feasibility have the same verdict on every set
\* of services, in any order, for which the first one comes to an end.
THEOREM TestsAreTheSame ==
    ASSUME NEW s, ServiceSet(s), Settles(s)
    PROVE  CompletionFeasible(s) <=> SchedulingPointFeasible(s)
<1>1. ASSUME CompletionFeasible(s)
      PROVE  SchedulingPointFeasible(s)
  <2>1. \A i \in Services(s) : CompletionTime(s, i) <= s.T[i]
    BY <1>1 DEF CompletionFeasible
  <2> QED
    BY <2>1, PointsNeeded DEF SchedulingPointFeasible
<1>2. ASSUME SchedulingPointFeasible(s)
      PROVE  CompletionFeasible(s)
  BY <1>2, PointsSuffice DEF CompletionFeasible
<1> QED
  BY <1>1, <1>2

-----------------------------------------------------------------------------
(***************************************************************************)
(* The simulator: where each service is in its period.                     *)
(***************************************************************************)

\* How often each service was released before t; all are at the start.
Releases(j) == IF t = 0 THEN 1 ELSE CeilDiv(t, set.T[j])

\* A deadline is the period times the releases so far, less the time.
ScheduleTypeInv ==
    /\ ServiceSet(set)
    /\ protocol \in Protocols
    /\ t \in Nat
    /\ misses \in Nat
    /\ Deadline \in [Services(set) -> Nat]
    /\ Runtime \in [Services(set) -> Nat]
    /\ \A j \in Services(set) : /\ Deadline[j] = set.T[j] * Releases(j) - t
                                /\ Runtime[j] <= set.C[j]
                                /\ t = 0 => Runtime[j] = 0
    /\ events \in Seq(Nat) /\ Len(events) = t

\* A function over 1 .. n is a sequence of length n.
LEMMA LenOfFunction ==
    ASSUME NEW n \in Nat, NEW f, NEW B, f \in [1 .. n -> B]
    PROVE  f \in Seq(B) /\ Len(f) = n
<1>1. f \in Seq(B)
  BY SeqDef
<1>2. Len(f) \in Nat /\ DOMAIN f = 1 .. Len(f)
  BY <1>1, LenProperties
<1>3. DOMAIN f = 1 .. n
  OBVIOUS
<1> QED
  BY <1>1, <1>2, <1>3

\* What -c can be given.
LEMMA CustomSets ==
    ASSUME NEW s \in Custom
    PROVE  ServiceSet(s)
<1>1. PICK n \in 1 .. MaxServices :
         s \in [T : [1 .. n -> 1 .. MaxPeriod], C : [1 .. n -> 1 .. MaxPeriod]]
  BY DEF Custom
<1>2. s.T \in [1 .. n -> 1 .. MaxPeriod] /\ s.C \in [1 .. n -> 1 .. MaxPeriod]
  BY <1>1
<1>3. n \in Nat
  BY ScheduleAssumption
<1>4. Len(s.T) = n
  BY <1>2, <1>3, LenOfFunction
<1>5. MaxPeriod \in Nat
  BY ScheduleAssumption
<1>6. \A j \in 1 .. n : s.T[j] \in Nat /\ s.T[j] # 0 /\ s.C[j] \in Nat /\ s.C[j] # 0
  BY <1>2, <1>5
<1>7. s.T \in Seq(Nat)
  <2>1. s.T \in [1 .. n -> Nat]
    BY <1>2, <1>5
  <2> QED
    BY <1>3, <2>1, LenOfFunction
<1> QED
  BY <1>3, <1>4, <1>6, <1>7 DEF ServiceSet, Services

\* Every set the simulator is given has services with periods and run times of a tick or more.
LEMMA CaseSets ==
    ASSUME NEW s \in Cases
    PROVE  ServiceSet(s)
<1>1. ASSUME s \in TestCases \cup Examples
      PROVE  ServiceSet(s)
  <2>1. ServiceSet([T |-> <<2, 10, 15>>, C |-> <<1, 1, 2>>])
    BY DEF ServiceSet, Services
  <2>2. ServiceSet([T |-> <<2, 5, 7>>, C |-> <<1, 1, 2>>])
    BY DEF ServiceSet, Services
  <2>3. ServiceSet([T |-> <<2, 5, 7, 13>>, C |-> <<1, 1, 1, 2>>])
    BY DEF ServiceSet, Services
  <2>4. ServiceSet([T |-> <<3, 5, 15>>, C |-> <<1, 2, 3>>])
    BY DEF ServiceSet, Services
  <2>5. ServiceSet([T |-> <<2, 4, 16>>, C |-> <<1, 1, 4>>])
    BY DEF ServiceSet, Services
  <2>6. ServiceSet([T |-> <<2, 5, 10>>, C |-> <<1, 2, 1>>])
    BY DEF ServiceSet, Services
  <2>7. ServiceSet([T |-> <<3, 5, 15>>, C |-> <<1, 2, 4>>])
    BY DEF ServiceSet, Services
  <2>8. ServiceSet([T |-> <<6, 8, 12, 24>>, C |-> <<1, 2, 4, 6>>])
    BY DEF ServiceSet, Services
  <2>9. ServiceSet([T |-> <<2, 5, 7, 14>>, C |-> <<1, 1, 1, 2>>])
    BY DEF ServiceSet, Services
  <2>10. ServiceSet([T |-> <<3, 6, 9>>, C |-> <<1, 2, 3>>])
    BY DEF ServiceSet, Services
  <2>11. ServiceSet([T |-> <<4, 8, 12, 16>>, C |-> <<1, 2, 3, 4>>])
    BY DEF ServiceSet, Services
  <2>12. ServiceSet([T |-> <<2, 5, 10>>, C |-> <<1, 1, 3>>])
    BY DEF ServiceSet, Services
  <2>13. ServiceSet([T |-> <<2, 5, 10>>, C |-> <<1, 2, 3>>])
    BY DEF ServiceSet, Services
  <2>14. ServiceSet([T |-> <<10, 40, 100>>, C |-> <<1, 33, 72>>])
    BY DEF ServiceSet, Services
  <2>15. ServiceSet([T |-> <<10, 40>>, C |-> <<1, 33>>])
    BY DEF ServiceSet, Services
  <2>16. ServiceSet([T |-> <<10, 40, 100>>, C |-> <<1, 33, 6>>])
    BY DEF ServiceSet, Services
  <2> QED
    BY <1>1, <2>1, <2>2, <2>3, <2>4, <2>5, <2>6, <2>7, <2>8, <2>9, <2>10,
       <2>11, <2>12, <2>13, <2>14, <2>15, <2>16 DEF TestCases, Examples
<1>2. s \in Custom => ServiceSet(s)
  BY CustomSets
<1> QED
  BY <1>1, <1>2 DEF Cases

\* The first tick begins with all services released.
LEMMA InitType ==
    ASSUME ScheduleInit
    PROVE  ScheduleTypeInv
<1>1. ServiceSet(set)
  BY CaseSets DEF ScheduleInit
<1>2. \A j \in Services(set) : set.T[j] \in Nat /\ set.C[j] \in Nat
  BY <1>1 DEF ServiceSet
<1>3. t = 0 /\ misses = 0 /\ protocol \in Protocols /\ events = <<>>
  BY DEF ScheduleInit
<1>4. ASSUME NEW j \in Services(set)
      PROVE  Deadline[j] = set.T[j] * Releases(j) - t /\ Deadline[j] \in Nat /\ Runtime[j] = 0
  <2>1. Deadline[j] = set.T[j] /\ Runtime[j] = 0
    BY DEF ScheduleInit
  <2>2. Releases(j) = 1
    BY <1>3 DEF Releases
  <2>3. set.T[j] * 1 - 0 = set.T[j]
    BY <1>2
  <2> QED
    BY <1>2, <1>3, <2>1, <2>2, <2>3
<1>5. DOMAIN Deadline = Services(set) /\ Deadline = [j \in Services(set) |-> Deadline[j]]
  <2>1. set.T \in Seq(Nat)
    BY <1>1 DEF ServiceSet
  <2>2. DOMAIN set.T = 1 .. Len(set.T) /\ set.T = [j \in 1 .. Len(set.T) |-> set.T[j]]
    BY <2>1, LenProperties
  <2> QED
    BY <2>2 DEF ScheduleInit, Services
<1>6. Deadline \in [Services(set) -> Nat]
  BY <1>4, <1>5
<1>7. Runtime \in [Services(set) -> Nat]
  BY DEF ScheduleInit
<1>8. events \in Seq(Nat) /\ Len(events) = 0
  BY <1>3
<1> QED
  BY <1>1, <1>2, <1>3, <1>4, <1>6, <1>7, <1>8 DEF ScheduleTypeInv

\* Where a service is after the expired ones were released again.
LEMMA Released ==
    ASSUME ScheduleTypeInv, NEW j \in Services(set)
    PROVE  /\ ToDeadline[j] \in Nat /\ 0 < ToDeadline[j]
           /\ HasRun[j] \in Nat /\ HasRun[j] <= set.C[j]
           /\ ToDeadline[j] = set.T[j] * CeilDiv(t + 1, set.T[j]) - t
           /\ ToDeadline[j] <= set.T[j]
           /\ Deadline[j] # 0 => CeilDiv(t + 1, set.T[j]) = Releases(j)
           /\ Deadline[j] = 0 => /\ t # 0
                                 /\ CeilDiv(t + 1, set.T[j]) = CeilDiv(t, set.T[j]) + 1
<1> DEFINE T == set.T[j]
           q == CeilDiv(t + 1, T)
           r == CeilDiv(t, T)
           R == Releases(j)
           d == Deadline[j]
<1>1. T \in Nat /\ T # 0 /\ set.C[j] \in Nat
  BY DEF ScheduleTypeInv, ServiceSet
<1>2. /\ t \in Nat /\ d \in Nat /\ Runtime[j] \in Nat /\ Runtime[j] <= set.C[j]
      /\ d = T * R - t
  BY DEF ScheduleTypeInv
<1>3. /\ ToDeadline[j] = IF d = 0 THEN T ELSE d
      /\ HasRun[j] = IF d = 0 THEN 0 ELSE Runtime[j]
  BY DEF ToDeadline, HasRun, Expired
<1>4. R = IF t = 0 THEN 1 ELSE r
  BY DEF Releases
<1>5. q \in Nat /\ \A k \in Int : t + 1 <= T * k <=> q <= k
  <2>1. t + 1 \in Nat
    BY <1>2
  <2> QED
    BY <1>1, <2>1, CeilLeast
<1>6. r \in Nat /\ t <= T * r /\ T * r < t + T /\ \A k \in Int : t <= T * k <=> r <= k
  <2>1. r \in Nat /\ t <= T * r /\ T * r < t + T
    BY <1>1, <1>2, CeilBounds
  <2>2. \A k \in Int : t <= T * k <=> r <= k
    BY <1>1, <1>2, CeilLeast
  <2> QED
    BY <2>1, <2>2
<1>7. r <= q
  <2>1. t + 1 \in Nat /\ t <= t + 1
    BY <1>2
  <2> QED
    BY <1>1, <1>2, <2>1, CeilMonotone
<1>8. t + 1 <= T * q /\ T * q \in Nat /\ T * r \in Nat
  <2>1. t + 1 <= T * q
    BY <1>5
  <2>2. T * q \in Nat
    BY <1>1, <1>5, ProductNat
  <2>3. T * r \in Nat
    BY <1>1, <1>6, ProductNat
  <2> QED
    BY <2>1, <2>2, <2>3
<1>9. T * 1 = T /\ T * 0 = 0 /\ T * (r + 1) = T * r + T
  BY <1>1, <1>6
<1> HIDE DEF T, q, r, R, d
<1>10. ASSUME d = 0
       PROVE  t # 0 /\ q = r + 1 /\ T = T * q - t
  <2>1. t # 0
    BY <1>1, <1>2, <1>4, <1>9, <1>10
  <2>2. t = T * r
    BY <1>2, <1>4, <1>8, <1>10, <2>1
  <2>3. t + 1 <= T * (r + 1)
    BY <1>1, <1>2, <1>8, <1>9, <2>2
  <2>4. q <= r + 1
    <3>1. r + 1 \in Int
      BY <1>6
    <3> QED
      BY <1>5, <2>3, <3>1
  <2>5. ~(t + 1 <= T * r)
    BY <1>2, <1>8, <2>2
  <2>6. ~(q <= r)
    BY <1>5, <1>6, <2>5
  <2>7. q = r + 1
    BY <1>5, <1>6, <2>4, <2>6
  <2> QED
    BY <1>1, <1>2, <1>8, <1>9, <2>1, <2>2, <2>7
<1>11. ASSUME d # 0
       PROVE  q = R /\ d = T * q - t /\ d <= T
  <2>1. CASE t = 0
    <3>1. R = 1 /\ d = T
      BY <1>1, <1>2, <1>4, <1>9, <2>1
    <3>2. q <= 1
      BY <1>1, <1>5, <1>9, <2>1
    <3>3. ~(q <= 0)
      BY <1>1, <1>5, <1>9, <2>1
    <3>4. q = 1
      BY <1>5, <3>2, <3>3
    <3> QED
      BY <1>1, <1>2, <1>9, <2>1, <3>1, <3>4
  <2>2. CASE t # 0
    <3>1. R = r /\ d = T * r - t
      BY <1>2, <1>4, <2>2
    <3>2. t + 1 <= T * r
      BY <1>2, <1>8, <1>11, <3>1
    <3>3. q <= r
      BY <1>5, <1>6, <3>2
    <3>4. q = r
      BY <1>5, <1>6, <1>7, <3>3
    <3> QED
      BY <1>1, <1>2, <1>6, <1>8, <3>1, <3>4
  <2> QED
    BY <2>1, <2>2
<1>12. CASE d = 0
  BY <1>1, <1>2, <1>3, <1>10, <1>12 DEF T, q, r, R, d
<1>13. CASE d # 0
  BY <1>1, <1>2, <1>3, <1>11, <1>13 DEF T, q, r, R, d
<1> QED
  BY <1>12, <1>13

\* Who has work left.
LEMMA WaitingServices ==
    ASSUME ScheduleTypeInv
    PROVE  /\ Len(set.T) \in Nat /\ Services(set) = 1 .. Len(set.T) /\ Services(set) \subseteq Nat
           /\ Waiting \subseteq Services(set)
           /\ \A j \in Services(set) : /\ j \in Waiting <=> HasRun[j] < set.C[j]
                                       /\ j \notin Waiting => HasRun[j] = set.C[j]
<1>1. Len(set.T) \in Nat /\ Services(set) = 1 .. Len(set.T)
  BY DEF ScheduleTypeInv, ServiceSet, Services
<1>2. ASSUME NEW j \in Services(set)
      PROVE  (j \in Waiting <=> HasRun[j] < set.C[j]) /\ (j \notin Waiting => HasRun[j] = set.C[j])
  <2>1. j \in Waiting <=> HasRun[j] < set.C[j]
    BY DEF Waiting
  <2>2. HasRun[j] \in Nat /\ HasRun[j] <= set.C[j] /\ set.C[j] \in Nat
    BY Released DEF ScheduleTypeInv, ServiceSet
  <2> QED
    BY <2>1, <2>2
<1> QED
  BY <1>1, <1>2 DEF Waiting

\* There is one that comes first of those with the least value.
LEMMA LeastExists ==
    ASSUME ScheduleTypeInv, Waiting # {}, NEW value, \A j \in Services(set) : value[j] \in Int
    PROVE  \E m \in Waiting : Least(value) = {m} /\ \A u \in Waiting : value[m] <= value[u]
<1> DEFINE n == Len(set.T)
           First(m, k) == /\ m \in Waiting /\ m <= k
                          /\ \A u \in Waiting : u <= k =>
                                value[m] < value[u] \/ (value[m] = value[u] /\ m <= u)
           S == {k \in 0 .. n : (\E u \in Waiting : u <= k) => \E m \in Waiting : First(m, k)}
<1>1. n \in Nat /\ Services(set) = 1 .. n /\ Waiting \subseteq 1 .. n
  BY WaitingServices
<1>2. \A u \in Waiting : u \in Nat /\ 1 <= u /\ u <= n /\ value[u] \in Int
  BY <1>1
<1> HIDE DEF n
<1>3. 0 \in S
  BY <1>1, <1>2
<1>4. ASSUME NEW k \in 1 .. n, k - 1 \in S
      PROVE  k \in S
  <2>1. SUFFICES ASSUME \E u \in Waiting : u <= k PROVE \E m \in Waiting : First(m, k)
    BY <1>1
  <2>2. CASE \E u \in Waiting : u <= k - 1
    <3>1. PICK m \in Waiting : First(m, k - 1)
      BY <1>4, <2>2
    <3>2. CASE k \in Waiting /\ value[k] < value[m]
      <4>1. First(k, k)
        BY <1>2, <3>1, <3>2
      <4> QED
        BY <3>2, <4>1
    <3>3. CASE ~(k \in Waiting /\ value[k] < value[m])
      <4>1. First(m, k)
        BY <1>2, <3>1, <3>3
      <4> QED
        BY <4>1
    <3> QED
      BY <3>2, <3>3
  <2>3. CASE ~\E u \in Waiting : u <= k - 1
    <3>1. k \in Waiting /\ \A u \in Waiting : u <= k => u = k
      BY <1>2, <2>1, <2>3
    <3>2. First(k, k)
      BY <1>2, <3>1
    <3> QED
      BY <3>1, <3>2
  <2> QED
    BY <2>2, <2>3
<1>5. \A k \in 0 .. n : k \in S
  <2> HIDE DEF S
  <2> QED
    BY <1>1, <1>3, <1>4, UpTo
<1>6. \E u \in Waiting : u <= n
  BY <1>2
<1>7. PICK m \in Waiting : First(m, n)
  <2>1. n \in S
    <3>1. n \in 0 .. n
      BY <1>1
    <3> HIDE DEF S
    <3> QED
      BY <1>5, <3>1
  <2>2. (\E u \in Waiting : u <= n) => \E m \in Waiting : First(m, n)
    BY <2>1
  <2> QED
    BY <1>6, <2>2
<1>8. \A u \in Waiting : value[m] < value[u] \/ (value[m] = value[u] /\ m <= u)
  BY <1>2, <1>7
<1>9. m \in Least(value)
  BY <1>8 DEF Least
<1>10. ASSUME NEW e \in Least(value)
       PROVE  e = m
  <2>1. e \in Waiting /\ (value[e] < value[m] \/ (value[e] = value[m] /\ e <= m))
    BY DEF Least
  <2> QED
    BY <1>2, <1>8, <2>1
<1>11. \A u \in Waiting : value[m] <= value[u]
  BY <1>2, <1>8
<1> QED
  BY <1>9, <1>10, <1>11

\* Who runs in a tick: nobody, if nobody has work; or one that has.
LEMMA WhoRuns ==
    ASSUME ScheduleTypeInv
    PROVE  \/ Waiting = {} /\ ServiceToRun = {}
           \/ \E m \in Waiting :
                /\ ServiceToRun = {m}
                /\ protocol = "RM" => \A u \in Waiting : m <= u
                /\ protocol = "EDF" => \A u \in Waiting : ToDeadline[m] <= ToDeadline[u]
                /\ protocol = "LLF" => \A u \in Waiting :
                       ToDeadline[m] - (set.C[m] - HasRun[m]) <= ToDeadline[u] - (set.C[u] - HasRun[u])
<1>1. protocol \in {"RM", "EDF", "LLF"}
  BY DEF ScheduleTypeInv, Protocols
<1>2. /\ protocol = "RM" => ServiceToRun = RateMonotonic
      /\ protocol = "EDF" => ServiceToRun = EarliestDeadlineFirst
      /\ protocol = "LLF" => ServiceToRun = LeastLaxityFirst
  BY <1>1 DEF ServiceToRun
<1>3. "RM" # "EDF" /\ "RM" # "LLF" /\ "EDF" # "LLF"
  OBVIOUS
<1>4. CASE Waiting = {}
  <2>1. RateMonotonic = {} /\ EarliestDeadlineFirst = {} /\ LeastLaxityFirst = {}
    BY <1>4 DEF RateMonotonic, EarliestDeadlineFirst, LeastLaxityFirst, Least
  <2> QED
    BY <1>1, <1>2, <1>4, <2>1
<1>5. CASE Waiting # {}
  <2>1. Waiting \subseteq Services(set) /\ Services(set) \subseteq Nat
    BY WaitingServices
  <2>2. ASSUME NEW j \in Services(set)
        PROVE  ToDeadline[j] \in Int /\ set.C[j] \in Int /\ HasRun[j] \in Int
    BY Released DEF ScheduleTypeInv, ServiceSet
  <2>3. CASE protocol = "RM"
    <3>1. PICK m \in Waiting : \A u \in Waiting : m <= u
      <4>1. Waiting \in SUBSET Nat
        BY <2>1
      <4> QED
        BY <1>5, <4>1, LeastNatural
    <3>2. ASSUME NEW e \in RateMonotonic
          PROVE  e = m
      <4>1. e \in Waiting /\ e <= m /\ m <= e
        BY <3>1 DEF RateMonotonic
      <4> QED
        BY <2>1, <4>1
    <3>3. RateMonotonic = {m}
      BY <3>1, <3>2 DEF RateMonotonic
    <3> QED
      BY <1>2, <1>3, <2>3, <3>1, <3>3, Zenon
  <2>4. CASE protocol = "EDF"
    <3>1. PICK m \in Waiting : Least(ToDeadline) = {m}
                               /\ \A u \in Waiting : ToDeadline[m] <= ToDeadline[u]
      BY <1>5, <2>2, LeastExists, Zenon
    <3> QED
      BY <1>2, <1>3, <2>4, <3>1, Zenon DEF EarliestDeadlineFirst
  <2>5. CASE protocol = "LLF"
    <3> DEFINE value == [j \in Services(set) |-> ToDeadline[j] - (set.C[j] - HasRun[j])]
    <3>2. \A j \in Services(set) : value[j] = ToDeadline[j] - (set.C[j] - HasRun[j])
      OBVIOUS
    <3>1. ASSUME NEW j \in Services(set)
          PROVE  value[j] \in Int
      <4>1. value[j] = ToDeadline[j] - (set.C[j] - HasRun[j])
        OBVIOUS
      <4>2. ToDeadline[j] \in Int /\ set.C[j] \in Int /\ HasRun[j] \in Int
        BY <2>2
      <4> HIDE DEF value
      <4> QED
        BY <4>1, <4>2
    <3>3. LeastLaxityFirst = Least(value)
      BY DEF LeastLaxityFirst
    <3> HIDE DEF value
    <3>4. PICK m \in Waiting : Least(value) = {m} /\ \A u \in Waiting : value[m] <= value[u]
      BY <1>5, <3>1, LeastExists, Zenon
    <3>5. \A u \in Waiting :
             ToDeadline[m] - (set.C[m] - HasRun[m]) <= ToDeadline[u] - (set.C[u] - HasRun[u])
      BY <2>1, <3>2, <3>4
    <3> QED
      BY <1>2, <1>3, <2>5, <3>3, <3>4, <3>5, Zenon
  <2> QED
    BY <1>1, <2>3, <2>4, <2>5
<1> QED
  BY <1>4, <1>5

\* A tick counts a miss exactly if somebody missed.
LEMMA MissedFinite ==
    ASSUME ScheduleTypeInv
    PROVE  /\ Cardinality(Missed) \in Nat
           /\ Cardinality(Missed) = 0 <=> Missed = {}
<1>1. Services(set) = 1 .. Len(set.T) /\ Len(set.T) \in Nat
  BY WaitingServices
<1>2. IsFiniteSet(Services(set))
  BY <1>1, FS_Interval
<1>3. Missed \subseteq Services(set)
  BY DEF Missed, Expired
<1>4. IsFiniteSet(Missed)
  BY <1>2, <1>3, FS_Subset
<1> QED
  BY <1>4, FS_CardinalityType, FS_EmptySet

\* A tick, service by service.
LEMMA TickEffect ==
    ASSUME ScheduleTypeInv, Tick
    PROVE  /\ set' = set /\ protocol' = protocol /\ t' = t + 1 /\ t \in Nat
           /\ misses' \in Nat
           /\ misses' = 0 => misses = 0 /\ Missed = {}
           /\ misses = 0 /\ Missed = {} => misses' = 0
           /\ \A j \in Services(set) :
                /\ Deadline'[j] = ToDeadline[j] - 1
                /\ j \in ServiceToRun => Runtime'[j] = HasRun[j] + 1
                /\ j \notin ServiceToRun => Runtime'[j] = HasRun[j]
           /\ Len(events') = t + 1
           /\ \A k \in 1 .. t : events'[k] = events[k]
           /\ ServiceToRun = {} => events'[t + 1] = None
           /\ \A m : ServiceToRun = {m} => events'[t + 1] = m
<1>1. /\ set' = set /\ protocol' = protocol /\ t' = t + 1 /\ t \in Nat /\ misses \in Nat
      /\ misses' = misses + Cardinality(Missed)
  BY DEF Tick, ScheduleTypeInv
<1>2. misses' \in Nat /\ (misses' = 0 <=> misses = 0 /\ Missed = {})
  BY <1>1, MissedFinite
<1>3. ASSUME NEW j \in Services(set)
      PROVE  /\ Deadline'[j] = ToDeadline[j] - 1
             /\ j \in ServiceToRun => Runtime'[j] = HasRun[j] + 1
             /\ j \notin ServiceToRun => Runtime'[j] = HasRun[j]
  BY DEF Tick
<1> DEFINE e == IF ServiceToRun = {} THEN None ELSE CHOOSE s \in ServiceToRun : TRUE
<1>4. events' = Append(events, e) /\ Len(events) = t /\ events \in Seq(Nat)
  BY DEF Tick, ScheduleTypeInv
<1>5. e \in Nat
  <2>1. ServiceToRun \subseteq Nat
    BY WhoRuns, WaitingServices
  <2>2. ServiceToRun # {} => (CHOOSE s \in ServiceToRun : TRUE) \in ServiceToRun
    OBVIOUS
  <2> QED
    BY <2>1, <2>2 DEF None
<1>6. ServiceToRun = {} => e = None
  OBVIOUS
<1>7. \A m : ServiceToRun = {m} => e = m
  OBVIOUS
<1> HIDE DEF e
<1>8. Len(events') = t + 1 /\ (\A k \in 1 .. t : events'[k] = events[k]) /\ events'[t + 1] = e
  BY <1>1, <1>4, <1>5
<1> QED
  BY <1>1, <1>2, <1>3, <1>6, <1>7, <1>8

\* A tick keeps each service where its deadline says.
LEMMA TickType ==
    ASSUME ScheduleTypeInv, Tick
    PROVE  ScheduleTypeInv'
<1>1. set' = set /\ protocol' = protocol /\ t' = t + 1 /\ t \in Nat /\ misses' \in Nat
  BY TickEffect
<1>2. Services(set)' = Services(set) /\ ServiceSet(set)'
  BY <1>1 DEF ScheduleTypeInv, ServiceSet, Services
<1>3. ASSUME NEW j \in Services(set)
      PROVE  /\ Deadline'[j] \in Nat /\ Deadline'[j] = set.T[j] * Releases(j)' - (t + 1)
             /\ Runtime'[j] \in Nat /\ Runtime'[j] <= set.C[j]
  <2>1. /\ Deadline'[j] = ToDeadline[j] - 1
        /\ j \in ServiceToRun => Runtime'[j] = HasRun[j] + 1
        /\ j \notin ServiceToRun => Runtime'[j] = HasRun[j]
    BY TickEffect
  <2>2. Releases(j)' = CeilDiv(t + 1, set.T[j])
    <3>1. t' # 0
      BY <1>1
    <3> QED
      BY <1>1, <3>1 DEF Releases
  <2>3. /\ ToDeadline[j] \in Nat /\ 0 < ToDeadline[j]
        /\ HasRun[j] \in Nat /\ HasRun[j] <= set.C[j]
        /\ ToDeadline[j] = set.T[j] * CeilDiv(t + 1, set.T[j]) - t
    BY Released
  <2>4. j \in ServiceToRun => HasRun[j] < set.C[j]
    <3>1. j \in ServiceToRun => j \in Waiting
      BY WhoRuns
    <3> QED
      BY <3>1, WaitingServices
  <2>5. set.T[j] \in Nat /\ set.T[j] # 0 /\ set.C[j] \in Nat
    BY DEF ScheduleTypeInv, ServiceSet
  <2>6. set.T[j] * CeilDiv(t + 1, set.T[j]) \in Nat
    <3>1. t + 1 \in Nat
      BY <1>1
    <3>2. CeilDiv(t + 1, set.T[j]) \in Nat
      BY <2>5, <3>1, CeilBounds
    <3> QED
      BY <2>5, <3>2, ProductNat
  <2>7. Deadline'[j] \in Nat /\ Deadline'[j] = set.T[j] * Releases(j)' - (t + 1)
    BY <1>1, <2>1, <2>2, <2>3, <2>6
  <2>8. Runtime'[j] \in Nat /\ Runtime'[j] <= set.C[j]
    BY <2>1, <2>3, <2>4, <2>5
  <2> QED
    BY <2>7, <2>8
<1>4. /\ DOMAIN Deadline' = Services(set) /\ Deadline' = [j \in Services(set) |-> Deadline'[j]]
      /\ DOMAIN Runtime' = Services(set) /\ Runtime' = [j \in Services(set) |-> Runtime'[j]]
  BY DEF Tick
<1>5. Deadline' \in [Services(set) -> Nat] /\ Runtime' \in [Services(set) -> Nat]
  BY <1>3, <1>4
<1>6. events' \in Seq(Nat) /\ Len(events') = t + 1
  <2> DEFINE e == IF ServiceToRun = {} THEN None ELSE CHOOSE s \in ServiceToRun : TRUE
  <2>1. ServiceToRun \subseteq Nat
    BY WhoRuns, WaitingServices
  <2>2. ServiceToRun # {} => (CHOOSE s \in ServiceToRun : TRUE) \in ServiceToRun
    OBVIOUS
  <2>3. e \in Nat
    BY <2>1, <2>2 DEF None
  <2>4. events' = Append(events, e) /\ events \in Seq(Nat)
    BY DEF Tick, ScheduleTypeInv
  <2> HIDE DEF e
  <2>5. events' \in Seq(Nat)
    BY <2>3, <2>4
  <2> QED
    BY <2>5, TickEffect
<1>7. protocol' \in Protocols
  BY <1>1 DEF ScheduleTypeInv
<1>8. ASSUME NEW j \in Services(set)'
      PROVE  /\ Deadline'[j] = set'.T[j] * Releases(j)' - t'
             /\ Runtime'[j] <= set'.C[j]
             /\ t' = 0 => Runtime'[j] = 0
  BY <1>1, <1>2, <1>3
<1> QED
  BY <1>1, <1>2, <1>5, <1>6, <1>7, <1>8 DEF ScheduleTypeInv

\* In the engine's loop (schedule.c 138-225) the deadline that is counted down and the run time
\* that is counted up always say where a service is in its period, whatever the policy.
THEOREM ScheduleTypeTheorem == ScheduleSpec => []ScheduleTypeInv
<1>1. ScheduleTypeInv /\ [ScheduleNext]_scheduleVars => ScheduleTypeInv'
  <2>1. SUFFICES ASSUME ScheduleTypeInv, [ScheduleNext]_scheduleVars PROVE ScheduleTypeInv'
    OBVIOUS
  <2>2. CASE ScheduleNext
    BY <2>1, <2>2, TickType DEF ScheduleNext
  <2>3. CASE UNCHANGED scheduleVars
    BY <2>1, <2>3 DEF scheduleVars, ScheduleTypeInv, Releases, ServiceSet, Services
  <2> QED
    BY <2>1, <2>2, <2>3
<1> QED
  BY <1>1, InitType, PTL DEF ScheduleSpec

-----------------------------------------------------------------------------
(***************************************************************************)
(* Deadlines and laxities: nobody asks for more than the time there is.    *)
(***************************************************************************)

\* What j asks for until x ticks from now, its next releases included.
Asked(left, run, j, x) ==
    IF x < left[j] THEN 0
    ELSE set.C[j] - run[j] + ((x - left[j]) \div set.T[j]) * set.C[j]

\* What all ask for until x ticks from now.
TotalAsked(left, run, x) ==
    SumTo([j \in Services(set) |-> Asked(left, run, j, x)], Len(set.T))

\* Under deadlines or laxities nobody asks for more than the time there is.
Demanded ==
    protocol # "RM" /\ Within(set, Len(set.T)) =>
        \A x \in Nat : TotalAsked(Deadline, Runtime, x) <= x

\* The quotient is the only number with its two inequalities.
LEMMA DivUnique ==
    ASSUME NEW a \in Nat, NEW b \in Nat, b # 0, NEW q \in Nat, b * q <= a, a < b * q + b
    PROVE  a \div b = q
<1> DEFINE p == a \div b
<1>1. p \in Nat /\ b * p <= a /\ a < b * p + b
  BY DivRule
<1> HIDE DEF p
<1>2. b * p \in Nat /\ b * q \in Nat
  <2>1. b * p \in Nat
    BY <1>1, ProductNat
  <2>2. b * q \in Nat
    BY ProductNat
  <2> QED
    BY <2>1, <2>2
<1>3. ASSUME p < q
      PROVE  FALSE
  <2>1. b * (p + 1) <= b * q
    BY <1>1, <1>3, ProductOrder
  <2>2. b * (p + 1) = b * p + b
    BY <1>1
  <2> QED
    BY <1>1, <1>2, <2>1, <2>2
<1>4. ASSUME q < p
      PROVE  FALSE
  <2>1. b * (q + 1) <= b * p
    BY <1>1, <1>4, ProductOrder
  <2>2. b * (q + 1) = b * q + b
    OBVIOUS
  <2> QED
    BY <1>1, <1>2, <2>1, <2>2
<1>5. p = q
  BY <1>1, <1>3, <1>4
<1> QED
  BY <1>5 DEF p

\* Quotients follow the order of what is divided.
LEMMA DivOrder ==
    ASSUME NEW a \in Nat, NEW c \in Nat, NEW b \in Nat, b # 0, a <= c
    PROVE  a \div b <= c \div b
<1>1. a \div b \in Nat /\ b * (a \div b) <= a
  BY DivRule
<1>2. b * (a \div b) \in Nat
  BY <1>1, ProductNat
<1>3. b * (a \div b) <= c
  BY <1>1, <1>2
<1> QED
  BY <1>1, <1>3, DivLeast

\* A whole period is one run.
LEMMA DivPeriod ==
    ASSUME NEW x \in Nat, NEW b \in Nat, b # 0
    PROVE  /\ x < b => x \div b = 0
           /\ b <= x => (x - b) \div b = (x \div b) - 1 /\ x - b \in Nat
           /\ 0 \div b = 0
<1>1. b * 0 = 0
  OBVIOUS
<1>2. x < b => x \div b = 0
  BY <1>1, DivUnique
<1>3. 0 \div b = 0
  BY <1>1, DivUnique
<1>4. ASSUME b <= x
      PROVE  (x - b) \div b = (x \div b) - 1 /\ x - b \in Nat
  <2> DEFINE q == x \div b
  <2>1. q \in Nat /\ b * q <= x /\ x < b * q + b
    BY DivRule
  <2> HIDE DEF q
  <2>2. q # 0
    BY <1>1, <1>4, <2>1
  <2>3. b * (q - 1) = b * q - b /\ b * q \in Nat
    BY <2>1
  <2>4. x - b \in Nat /\ q - 1 \in Nat
    BY <1>4, <2>1, <2>2
  <2>5. b * (q - 1) <= x - b /\ x - b < b * (q - 1) + b
    BY <2>1, <2>3
  <2>6. (x - b) \div b = q - 1
    BY <2>4, <2>5, DivUnique
  <2> QED
    BY <2>4, <2>6 DEF q
<1> QED
  BY <1>2, <1>3, <1>4

\* A service that is released now asks for a run in each period.
LEMMA FreshAsks ==
    ASSUME NEW x \in Nat, NEW b \in Nat, b # 0, NEW c \in Nat
    PROVE  (IF x < b THEN 0 ELSE c - 0 + ((x - b) \div b) * c) = (x \div b) * c
<1> DEFINE q == x \div b
<1>1. q \in Nat
  BY DivRule
<1>2. /\ x < b => q = 0
      /\ b <= x => (x - b) \div b = q - 1
  BY DivPeriod
<1> HIDE DEF q
<1>3. 0 * c = 0 /\ (q - 1) * c = q * c - c /\ q * c \in Int
  BY <1>1
<1>4. CASE x < b
  BY <1>2, <1>3, <1>4 DEF q
<1>5. CASE ~(x < b)
  <2>1. (x - b) \div b = q - 1
    BY <1>2, <1>5
  <2>2. c - 0 + (q - 1) * c = q * c
    BY <1>1, <1>3
  <2> QED
    BY <1>5, <2>1, <2>2 DEF q
<1> QED
  BY <1>4, <1>5

\* Utilisation of at most one: the whole periods in any time hold their runs.
LEMMA Utilisation ==
    ASSUME NEW s, ServiceSet(s), Within(s, Len(s.T)), NEW x \in Nat
    PROVE  SumTo([j \in Services(s) |-> (x \div s.T[j]) * s.C[j]], Len(s.T)) <= x
<1> DEFINE n == Len(s.T)
           H == Hyperperiod(s)
           f == [j \in Services(s) |-> (x \div s.T[j]) * s.C[j]]
           g == [j \in Services(s) |-> CeilDiv(H, s.T[j]) * s.C[j]]
           Hf == [j \in Services(s) |-> H * f[j]]
           xg == [j \in Services(s) |-> x * g[j]]
<1>1. n \in Nat /\ Services(s) = 1 .. n
  BY DEF ServiceSet, Services
<1>2. H \in Nat /\ H # 0
  BY HyperperiodRule
<1>3. Load(s, n, H) = SumTo(g, n) /\ Load(s, n, H) <= H
  BY DEF Load, Within
<1>4. ASSUME NEW j \in Services(s)
      PROVE  f[j] \in Int /\ g[j] \in Int /\ Hf[j] = H * f[j] /\ xg[j] = x * g[j]
             /\ Hf[j] \in Int /\ xg[j] \in Int /\ Hf[j] <= xg[j]
  <2> DEFINE b == s.T[j]
             c == s.C[j]
             q == x \div b
             r == CeilDiv(H, b)
  <2>1. b \in Nat /\ b # 0 /\ c \in Nat
    BY DEF ServiceSet
  <2>2. q \in Nat /\ b * q <= x
    BY <2>1, DivRule
  <2>3. r \in Nat /\ H <= b * r
    BY <1>2, <2>1, CeilBounds
  <2>4. f[j] = q * c /\ g[j] = r * c /\ Hf[j] = H * f[j] /\ xg[j] = x * g[j]
    OBVIOUS
  <2> HIDE DEF b, c, q, r, f, g, Hf, xg, H
  <2>5. b * q \in Nat /\ b * r \in Nat
    <3>1. b * q \in Nat
      BY <2>1, <2>2, ProductNat
    <3>2. b * r \in Nat
      BY <2>1, <2>3, ProductNat
    <3> QED
      BY <3>1, <3>2
  <2>6. q * H <= q * (b * r)
    BY <1>2, <2>2, <2>3, <2>5, ProductOrder
  <2>7. r * (b * q) <= r * x
    BY <2>2, <2>3, <2>5, ProductOrder
  <2>8. q * (b * r) = r * (b * q) /\ q * H \in Nat /\ r * x \in Nat /\ r * (b * q) \in Nat
    <3>1. q * (b * r) = r * (b * q)
      BY <2>1, <2>2, <2>3
    <3>2. q * H \in Nat
      BY <1>2, <2>2, ProductNat
    <3>3. r * x \in Nat
      BY <2>3, ProductNat
    <3>4. r * (b * q) \in Nat
      BY <2>3, <2>5, ProductNat
    <3> QED
      BY <3>1, <3>2, <3>3, <3>4
  <2>9. q * H <= r * x
    BY <2>6, <2>7, <2>8
  <2>10. c * (q * H) <= c * (r * x)
    BY <2>1, <2>8, <2>9, ProductOrder
  <2>11. H * (q * c) = c * (q * H) /\ x * (r * c) = c * (r * x)
    BY <1>2, <2>1, <2>2, <2>3
  <2>12. q * c \in Nat /\ r * c \in Nat
    <3>1. q * c \in Nat
      BY <2>1, <2>2, ProductNat
    <3>2. r * c \in Nat
      BY <2>1, <2>3, ProductNat
    <3> QED
      BY <3>1, <3>2
  <2>13. H * (q * c) \in Nat /\ x * (r * c) \in Nat
    <3>1. H * (q * c) \in Nat
      BY <1>2, <2>12, ProductNat
    <3>2. x * (r * c) \in Nat
      BY <2>12, ProductNat
    <3> QED
      BY <3>1, <3>2
  <2> QED
    BY <2>4, <2>10, <2>11, <2>12, <2>13
<1> HIDE DEF n, H, f, g, Hf, xg
<1>5. SumTo(Hf, n) <= SumTo(xg, n)
  BY <1>1, <1>4, SumLess
<1>6. SumTo(Hf, n) = H * SumTo(f, n)
  <2>1. H \in Int
    BY <1>2
  <2> QED
    BY <1>1, <1>4, <2>1, SumScale
<1>7. SumTo(xg, n) = x * SumTo(g, n)
  <2>1. x \in Int
    OBVIOUS
  <2> QED
    BY <1>1, <1>4, <2>1, SumScale
<1>8. SumTo(f, n) \in Int /\ SumTo(g, n) \in Int
  <2>1. n \in 0 .. n
    BY <1>1
  <2>2. SumTo(f, n) \in Int
    BY <1>1, <1>4, <2>1, SumToRule
  <2>3. SumTo(g, n) \in Int
    BY <1>1, <1>4, <2>1, SumToRule
  <2> QED
    BY <2>2, <2>3
<1> DEFINE F == SumTo(f, n)
           G == SumTo(g, n)
<1>9. F \in Int /\ G \in Int /\ G <= H /\ H * F <= x * G
  BY <1>3, <1>5, <1>6, <1>7, <1>8
<1> HIDE DEF F, G
<1>10. F <= x
  <2>1. SUFFICES ASSUME x + 1 <= F PROVE FALSE
    BY <1>9
  <2>2. H * (x + 1) <= H * F
    BY <1>2, <1>9, <2>1, ProductOrder
  <2>3. x * G <= x * H
    BY <1>2, <1>9, ProductOrder
  <2>4. H * (x + 1) = x * H + H
    BY <1>2
  <2>5. x * H \in Int /\ x * G \in Int /\ H * F \in Int
    BY <1>2, <1>9
  <2> QED
    BY <1>2, <1>9, <2>2, <2>3, <2>4, <2>5
<1> QED
  BY <1>10 DEF F, f, n

\* What is asked for rises with time, and at the deadline it is the rest of the run.
LEMMA AskedRule ==
    ASSUME ScheduleTypeInv, NEW j \in Services(set), NEW left, NEW run,
           left[j] \in Nat, run[j] \in Nat, run[j] <= set.C[j], NEW x \in Nat
    PROVE  /\ Asked(left, run, j, x) \in Nat
           /\ \A y \in Nat : x <= y => Asked(left, run, j, x) <= Asked(left, run, j, y)
           /\ x = left[j] => Asked(left, run, j, x) = set.C[j] - run[j]
<1> DEFINE T == set.T[j]
           C == set.C[j]
           L == left[j]
           R == run[j]
<1>1. T \in Nat /\ T # 0 /\ C \in Nat /\ L \in Nat /\ R \in Nat /\ R <= C
  BY DEF ScheduleTypeInv, ServiceSet
<1>2. \A y : Asked(left, run, j, y) = IF y < L THEN 0 ELSE C - R + ((y - L) \div T) * C
  BY DEF Asked
<1> HIDE DEF T, C, L, R
<1>3. ASSUME NEW y \in Nat, L <= y
      PROVE  /\ y - L \in Nat /\ (y - L) \div T \in Nat /\ ((y - L) \div T) * C \in Nat
             /\ Asked(left, run, j, y) = C - R + ((y - L) \div T) * C
             /\ Asked(left, run, j, y) \in Nat
  <2>1. y - L \in Nat
    BY <1>1, <1>3
  <2>2. (y - L) \div T \in Nat
    BY <1>1, <2>1, DivRule
  <2>3. ((y - L) \div T) * C \in Nat
    BY <1>1, <2>2, ProductNat
  <2>4. ~(y < L)
    BY <1>1, <1>3
  <2>5. Asked(left, run, j, y) = C - R + ((y - L) \div T) * C
    BY <1>2, <2>4
  <2> QED
    BY <1>1, <2>1, <2>2, <2>3, <2>5
<1>4. ASSUME NEW y \in Nat, y < L
      PROVE  Asked(left, run, j, y) = 0
  BY <1>2, <1>4
<1>5. ASSUME NEW y \in Nat
      PROVE  Asked(left, run, j, y) \in Nat
  <2>1. CASE y < L
    BY <1>4, <2>1
  <2>2. CASE L <= y
    BY <1>3, <2>2
  <2> QED
    BY <1>1, <2>1, <2>2
<1>6. ASSUME NEW y \in Nat, x <= y
      PROVE  Asked(left, run, j, x) <= Asked(left, run, j, y)
  <2>1. CASE x < L
    <3>1. Asked(left, run, j, x) = 0 /\ Asked(left, run, j, y) \in Nat
      BY <1>4, <1>5, <2>1
    <3> QED
      BY <3>1
  <2>2. CASE L <= x
    <3>1. L <= y
      BY <1>1, <1>6, <2>2
    <3>2. /\ x - L \in Nat /\ (x - L) \div T \in Nat /\ ((x - L) \div T) * C \in Nat
          /\ Asked(left, run, j, x) = C - R + ((x - L) \div T) * C
      BY <1>3, <2>2
    <3>3. /\ y - L \in Nat /\ (y - L) \div T \in Nat /\ ((y - L) \div T) * C \in Nat
          /\ Asked(left, run, j, y) = C - R + ((y - L) \div T) * C
      BY <1>3, <3>1
    <3> DEFINE p == (x - L) \div T
               q == (y - L) \div T
    <3>4. p <= q
      <4>1. x - L <= y - L
        BY <1>1, <1>6
      <4> QED
        BY <1>1, <3>2, <3>3, <4>1, DivOrder
    <3>5. p \in Nat /\ q \in Nat /\ p * C \in Nat /\ q * C \in Nat
      BY <3>2, <3>3
    <3>6. Asked(left, run, j, x) = C - R + p * C /\ Asked(left, run, j, y) = C - R + q * C
      BY <3>2, <3>3
    <3> HIDE DEF p, q
    <3>7. C * p <= C * q
      BY <1>1, <3>4, <3>5, ProductOrder
    <3>8. C * p = p * C /\ C * q = q * C
      BY <1>1, <3>5
    <3> QED
      BY <1>1, <3>5, <3>6, <3>7, <3>8
  <2> QED
    BY <1>1, <2>1, <2>2
<1>7. ASSUME x = L
      PROVE  Asked(left, run, j, x) = C - R
  <2>1. Asked(left, run, j, x) = C - R + ((x - L) \div T) * C
    <3>1. L <= x
      BY <1>1, <1>7
    <3> QED
      BY <1>3, <3>1
  <2>2. x - L = 0 /\ 0 \div T = 0 /\ 0 * C = 0
    <3>1. 0 \div T = 0
      BY <1>1, DivPeriod
    <3> QED
      BY <1>1, <1>7, <3>1
  <2> QED
    BY <1>1, <2>1, <2>2
<1> QED
  BY <1>5, <1>6, <1>7 DEF L, R, C

\* Nobody asks for more than all do.
LEMMA TotalRule ==
    ASSUME ScheduleTypeInv, NEW left, NEW run, NEW x \in Nat,
           \A j \in Services(set) : left[j] \in Nat /\ run[j] \in Nat /\ run[j] <= set.C[j]
    PROVE  /\ TotalAsked(left, run, x) \in Nat
           /\ \A j \in Services(set) : Asked(left, run, j, x) <= TotalAsked(left, run, x)
<1> DEFINE f == [j \in Services(set) |-> Asked(left, run, j, x)]
           n == Len(set.T)
<1>1. Services(set) = 1 .. n /\ n \in Nat
  BY WaitingServices
<1>2. \A j \in Services(set) : f[j] = Asked(left, run, j, x)
  OBVIOUS
<1>3. \A j \in Services(set) : Asked(left, run, j, x) \in Nat
  BY AskedRule
<1>4. TotalAsked(left, run, x) = SumTo(f, n)
  BY DEF TotalAsked
<1> HIDE DEF f, n
<1>5. \A j \in 1 .. n : f[j] \in Nat
  BY <1>1, <1>2, <1>3
<1>6. SumTo(f, n) \in Nat /\ \A j \in 1 .. n : f[j] <= SumTo(f, n)
  BY <1>1, <1>5, SumTerms
<1> QED
  BY <1>1, <1>2, <1>4, <1>6

\* Within what is asked for, no deadline is missed.
LEMMA NoneMissed ==
    ASSUME ScheduleTypeInv, TotalAsked(Deadline, Runtime, 0) <= 0
    PROVE  Missed = {}
<1>1. \A j \in Services(set) : Deadline[j] \in Nat /\ Runtime[j] \in Nat /\ Runtime[j] <= set.C[j]
  BY DEF ScheduleTypeInv
<1>2. SUFFICES ASSUME NEW j \in Missed PROVE FALSE
  OBVIOUS
<1>3. j \in Services(set) /\ Deadline[j] = 0 /\ Runtime[j] # set.C[j]
  BY DEF Missed, Expired
<1>4. 0 \in Nat
  OBVIOUS
<1>5. TotalAsked(Deadline, Runtime, 0) \in Nat
      /\ Asked(Deadline, Runtime, j, 0) <= TotalAsked(Deadline, Runtime, 0)
  BY <1>1, <1>3, <1>4, TotalRule
<1>6. Asked(Deadline, Runtime, j, 0) = set.C[j] - Runtime[j]
  BY <1>1, <1>3, <1>4, AskedRule
<1>7. set.C[j] \in Nat
  BY <1>3 DEF ScheduleTypeInv, ServiceSet
<1> QED
  BY <1>1, <1>3, <1>5, <1>6, <1>7

\* A release after a run that was in time changes nothing of what is asked for.
LEMMA ReleaseAsks ==
    ASSUME ScheduleTypeInv, Missed = {}, NEW j \in Services(set), NEW x \in Nat
    PROVE  Asked(ToDeadline, HasRun, j, x) = Asked(Deadline, Runtime, j, x)
<1>1. /\ ToDeadline[j] = IF Deadline[j] = 0 THEN set.T[j] ELSE Deadline[j]
      /\ HasRun[j] = IF Deadline[j] = 0 THEN 0 ELSE Runtime[j]
  BY DEF ToDeadline, HasRun, Expired
<1>2. CASE Deadline[j] # 0
  BY <1>1, <1>2 DEF Asked
<1>3. CASE Deadline[j] = 0
  <2>1. Runtime[j] = set.C[j]
    BY <1>3 DEF Missed, Expired
  <2>2. set.T[j] \in Nat /\ set.T[j] # 0 /\ set.C[j] \in Nat
    BY DEF ScheduleTypeInv, ServiceSet
  <2>3. Asked(ToDeadline, HasRun, j, x) =
            IF x < set.T[j] THEN 0 ELSE set.C[j] - 0 + ((x - set.T[j]) \div set.T[j]) * set.C[j]
    BY <1>1, <1>3 DEF Asked
  <2>4. Asked(ToDeadline, HasRun, j, x) = (x \div set.T[j]) * set.C[j]
    BY <2>2, <2>3, FreshAsks
  <2>5. ~(x < 0) /\ x - 0 = x
    OBVIOUS
  <2>6. Asked(Deadline, Runtime, j, x) = set.C[j] - set.C[j] + (x \div set.T[j]) * set.C[j]
    BY <1>3, <2>1, <2>5 DEF Asked
  <2>7. (x \div set.T[j]) * set.C[j] \in Nat
    <3>1. x \div set.T[j] \in Nat
      BY <2>2, DivRule
    <3> QED
      BY <2>2, <3>1, ProductNat
  <2> QED
    BY <2>2, <2>4, <2>6, <2>7
<1> QED
  BY <1>2, <1>3

\* At the start the utilisation says it.
LEMMA InitDemanded ==
    ASSUME ScheduleInit
    PROVE  Demanded
<1>1. ScheduleTypeInv
  BY InitType
<1>2. Deadline = set.T /\ \A j \in Services(set) : Runtime[j] = 0
  BY DEF ScheduleInit
<1>3. ASSUME Within(set, Len(set.T)), NEW x \in Nat
      PROVE  TotalAsked(Deadline, Runtime, x) <= x
  <2> DEFINE f == [j \in Services(set) |-> Asked(Deadline, Runtime, j, x)]
             g == [j \in Services(set) |-> (x \div set.T[j]) * set.C[j]]
  <2>1. ASSUME NEW j \in Services(set)
        PROVE  f[j] = g[j]
    <3>1. set.T[j] \in Nat /\ set.T[j] # 0 /\ set.C[j] \in Nat
      BY <1>1 DEF ScheduleTypeInv, ServiceSet
    <3>2. f[j] = IF x < set.T[j] THEN 0
                 ELSE set.C[j] - 0 + ((x - set.T[j]) \div set.T[j]) * set.C[j]
      BY <1>2 DEF Asked
    <3>3. g[j] = (x \div set.T[j]) * set.C[j]
      OBVIOUS
    <3> HIDE DEF f, g
    <3> QED
      BY <3>1, <3>2, <3>3, FreshAsks
  <2>2. f = g
    BY <2>1
  <2>3. SumTo(g, Len(set.T)) <= x
    BY <1>1, <1>3, Utilisation DEF ScheduleTypeInv
  <2>4. TotalAsked(Deadline, Runtime, x) = SumTo(f, Len(set.T))
    BY DEF TotalAsked
  <2> HIDE DEF f, g
  <2> QED
    BY <2>2, <2>3, <2>4
<1> QED
  BY <1>3 DEF Demanded

\* What each service asks for after a tick, told by what it asked for before.
LEMMA TickAsks ==
    ASSUME ScheduleTypeInv, Tick, NEW j \in Services(set), NEW x \in Nat
    PROVE  /\ Asked(ToDeadline, HasRun, j, x + 1) \in Nat
           /\ j \in ServiceToRun /\ ToDeadline[j] <= x + 1 =>
                Asked(Deadline, Runtime, j, x)' = Asked(ToDeadline, HasRun, j, x + 1) - 1
           /\ j \notin ServiceToRun \/ x + 1 < ToDeadline[j] =>
                Asked(Deadline, Runtime, j, x)' = Asked(ToDeadline, HasRun, j, x + 1)
<1> DEFINE L == ToDeadline[j]
           R == HasRun[j]
           T == set.T[j]
           C == set.C[j]
           D1 == Deadline'[j]
           R1 == Runtime'[j]
<1>1. L \in Nat /\ 0 < L /\ R \in Nat /\ R <= C
  BY Released
<1>2. T \in Nat /\ T # 0 /\ C \in Nat
  BY DEF ScheduleTypeInv, ServiceSet
<1>3. /\ D1 = L - 1
      /\ j \in ServiceToRun => R1 = R + 1
      /\ j \notin ServiceToRun => R1 = R
  BY TickEffect
<1>4. set' = set
  BY TickEffect
<1>5. Asked(Deadline, Runtime, j, x)' = IF x < D1 THEN 0 ELSE C - R1 + ((x - D1) \div T) * C
  BY <1>4 DEF Asked
<1>6. Asked(ToDeadline, HasRun, j, x + 1) =
          IF x + 1 < L THEN 0 ELSE C - R + (((x + 1) - L) \div T) * C
  BY Zenon DEF Asked
<1>7. Asked(ToDeadline, HasRun, j, x + 1) \in Nat
  <2>1. x + 1 \in Nat
    OBVIOUS
  <2> HIDE DEF L, R, T, C, D1, R1
  <2> QED
    BY <1>1, <2>1, AskedRule DEF L, R, C
<1> HIDE DEF L, R, T, C, D1, R1
<1>8. CASE x + 1 < L
  <2>1. x < D1
    BY <1>1, <1>3, <1>8
  <2>2. Asked(Deadline, Runtime, j, x)' = 0
    BY <1>5, <2>1
  <2>3. Asked(ToDeadline, HasRun, j, x + 1) = 0
    BY <1>6, <1>8
  <2>4. ~(L <= x + 1)
    BY <1>1, <1>8
  <2> QED
    BY <1>7, <2>2, <2>3, <2>4 DEF L
<1>9. CASE ~(x + 1 < L)
  <2> DEFINE more == (((x + 1) - L) \div T) * C
  <2>1. ~(x < D1) /\ x - D1 = (x + 1) - L /\ (x + 1) - L \in Nat
    BY <1>1, <1>3, <1>9
  <2>2. Asked(Deadline, Runtime, j, x)' = C - R1 + more
    BY <1>5, <2>1
  <2>3. Asked(ToDeadline, HasRun, j, x + 1) = C - R + more
    BY <1>6, <1>9
  <2>4. more \in Nat
    <3>1. ((x + 1) - L) \div T \in Nat
      BY <1>2, <2>1, DivRule
    <3> QED
      BY <1>2, <3>1, ProductNat
  <2> HIDE DEF more
  <2>5. j \in ServiceToRun => C - R1 + more = C - R + more - 1
    BY <1>1, <1>2, <1>3, <2>4
  <2>6. j \notin ServiceToRun => C - R1 + more = C - R + more
    BY <1>3
  <2> DEFINE after == Asked(Deadline, Runtime, j, x)'
             before == Asked(ToDeadline, HasRun, j, x + 1)
  <2>7. after = C - R1 + more /\ before = C - R + more /\ before \in Nat
    BY <1>7, <2>2, <2>3
  <2> HIDE DEF after, before
  <2>8. j \in ServiceToRun => after = before - 1
    BY <1>1, <1>2, <2>4, <2>5, <2>7
  <2>9. j \notin ServiceToRun => after = before
    BY <2>6, <2>7
  <2>10. ~(x + 1 < ToDeadline[j])
    BY <1>9 DEF L
  <2> QED
    BY <2>7, <2>8, <2>9, <2>10, Zenon DEF after, before
<1> QED
  BY <1>8, <1>9

\* A tick keeps it: one tick was used for what was asked for, or there was room.
LEMMA TickDemanded ==
    ASSUME ScheduleTypeInv, Tick, Demanded
    PROVE  Demanded'
<1>1. set' = set /\ protocol' = protocol
  BY TickEffect
<1>2. SUFFICES ASSUME protocol # "RM", Within(set, Len(set.T)), NEW x \in Nat
               PROVE  TotalAsked(Deadline, Runtime, x)' <= x
  BY <1>1 DEF Demanded
<1>3. \A y \in Nat : TotalAsked(Deadline, Runtime, y) <= y
  BY <1>2 DEF Demanded
<1>4. Missed = {}
  <2>1. 0 \in Nat
    OBVIOUS
  <2> QED
    BY <1>3, <2>1, NoneMissed
<1> DEFINE n == Len(set.T)
           f == [j \in Services(set) |-> Asked(Deadline, Runtime, j, x)']
           At(y) == [j \in Services(set) |-> Asked(ToDeadline, HasRun, j, y)]
<1>5. n \in Nat /\ Services(set) = 1 .. n /\ Services(set) \subseteq Nat
      /\ Waiting \subseteq Services(set) /\ n \in 0 .. n
  <2>1. n \in Nat /\ Services(set) = 1 .. n /\ Services(set) \subseteq Nat
        /\ Waiting \subseteq Services(set)
    BY WaitingServices
  <2>2. n \in 0 .. n
    BY <2>1
  <2> QED
    BY <2>1, <2>2
<1>6. TotalAsked(Deadline, Runtime, x)' = SumTo(f, n)
  BY <1>1 DEF TotalAsked, Services
<1>7. \A y \in Nat : \A j \in Services(set) :
         At(y)[j] = Asked(ToDeadline, HasRun, j, y)
  OBVIOUS
<1>8. \A j \in Services(set) : f[j] = Asked(Deadline, Runtime, j, x)'
  OBVIOUS
<1>9. ASSUME NEW j \in Services(set)
      PROVE  /\ ToDeadline[j] \in Nat /\ 0 < ToDeadline[j] /\ HasRun[j] \in Nat
             /\ HasRun[j] <= set.C[j] /\ set.C[j] \in Nat
             /\ \A y \in Nat : Asked(ToDeadline, HasRun, j, y) \in Nat
  <2>1. /\ ToDeadline[j] \in Nat /\ 0 < ToDeadline[j] /\ HasRun[j] \in Nat
        /\ HasRun[j] <= set.C[j] /\ set.C[j] \in Nat
    BY Released DEF ScheduleTypeInv, ServiceSet
  <2> QED
    BY <2>1, AskedRule
<1>20. ASSUME NEW y \in Nat, NEW j \in Services(set)
       PROVE  Asked(ToDeadline, HasRun, j, y) \in Int
  <2>1. Asked(ToDeadline, HasRun, j, y) \in Nat
    BY <1>9
  <2> QED
    BY <2>1
<1>10. ASSUME NEW y \in Nat
       PROVE  SumTo(At(y), n) <= y /\ SumTo(At(y), n) \in Int
  <2> DEFINE g == [j \in Services(set) |-> Asked(Deadline, Runtime, j, y)]
             h == At(y)
  <2>1. \A j \in Services(set) : h[j] = g[j]
    BY <1>4, ReleaseAsks
  <2>2. SumTo(g, n) <= y
    BY <1>3 DEF TotalAsked
  <2>3. \A j \in Services(set) : h[j] \in Int
    <3>1. \A j \in Services(set) : h[j] = Asked(ToDeadline, HasRun, j, y)
      OBVIOUS
    <3> HIDE DEF h
    <3> QED
      BY <1>20, <3>1
  <2>4. h = g
    BY <2>1
  <2> HIDE DEF g, h, n
  <2>5. SumTo(h, n) \in Int
    BY <1>5, <2>3, SumToRule
  <2> QED
    BY <2>2, <2>4, <2>5 DEF h
<1>11. x + 1 \in Nat
  OBVIOUS
<1> DEFINE g == At(x + 1)
<1>12. \A j \in Services(set) : g[j] = Asked(ToDeadline, HasRun, j, x + 1) /\ g[j] \in Nat
  BY <1>7, <1>9, <1>11
<1>13. SumTo(g, n) <= x + 1 /\ SumTo(g, n) \in Int
  BY <1>10, <1>11
<1> HIDE DEF n, f, g, At
<1>14. ASSUME NEW K \in Services(set), ServiceToRun = {K}, ToDeadline[K] <= x + 1
       PROVE  SumTo(f, n) <= x
  <2>1. f[K] = g[K] - 1
    BY <1>8, <1>12, <1>14, TickAsks
  <2>2. \A j \in Services(set) : j # K => f[j] = g[j]
    BY <1>8, <1>12, <1>14, TickAsks
  <2>3. \A j \in 1 .. n : g[j] \in Int /\ f[j] \in Int /\ (j # K => g[j] = f[j])
    BY <1>5, <1>12, <2>1, <2>2
  <2>4. SumTo(f, n) = SumTo(g, n) + f[K] - g[K]
    BY <1>5, <2>3, SumOne
  <2>5. f[K] \in Int /\ g[K] \in Int
    BY <1>5, <2>3
  <2> QED
    BY <1>13, <2>1, <2>4, <2>5
<1>15. ASSUME \A j \in Services(set) : j \notin ServiceToRun \/ x + 1 < ToDeadline[j],
              SumTo(g, n) <= x
       PROVE  SumTo(f, n) <= x
  <2>1. \A j \in Services(set) : f[j] = g[j]
    BY <1>8, <1>12, <1>15, TickAsks
  <2>2. \A j \in 1 .. n : f[j] \in Int /\ f[j] = g[j]
    BY <1>5, <1>12, <2>1
  <2>3. SumTo(f, n) = SumTo(g, n)
    BY <1>5, <2>2, SumSame
  <2> QED
    BY <1>15, <2>3
<1>16. ASSUME \A j \in Waiting : x + 1 < ToDeadline[j]
       PROVE  SumTo(g, n) <= x
  <2> DEFINE h == [j \in Services(set) |-> (x \div set.T[j]) * set.C[j]]
  <2>1. ASSUME NEW j \in Services(set)
        PROVE  h[j] \in Int /\ g[j] <= h[j]
    <3> DEFINE L == ToDeadline[j]
               T == set.T[j]
               C == set.C[j]
    <3>1. T \in Nat /\ T # 0 /\ C \in Nat /\ L \in Nat /\ 0 < L
      BY <1>9 DEF ScheduleTypeInv, ServiceSet
    <3>2. h[j] = (x \div T) * C /\ x \div T \in Nat /\ (x \div T) * C \in Nat
      <4>1. x \div T \in Nat
        BY <3>1, DivRule
      <4>2. (x \div T) * C \in Nat
        BY <3>1, <4>1, ProductNat
      <4> QED
        BY <4>1, <4>2
    <3>3. g[j] = IF x + 1 < L THEN 0 ELSE C - HasRun[j] + (((x + 1) - L) \div T) * C
      <4>1. Asked(ToDeadline, HasRun, j, x + 1) =
                IF x + 1 < L THEN 0 ELSE C - HasRun[j] + (((x + 1) - L) \div T) * C
        BY Zenon DEF Asked
      <4> QED
        BY <1>12, <4>1
    <3> HIDE DEF h, L, T, C
    <3>4. CASE x + 1 < L
      BY <3>2, <3>3, <3>4
    <3>5. CASE ~(x + 1 < L)
      <4>1. j \notin Waiting
        BY <1>16, <3>5 DEF L
      <4>2. HasRun[j] = C
        BY <4>1, WaitingServices DEF C
      <4>3. (x + 1) - L \in Nat /\ (x + 1) - L <= x
        BY <3>1, <3>5
      <4> DEFINE p == ((x + 1) - L) \div T
                 q == x \div T
      <4>4. p <= q
        BY <3>1, <4>3, DivOrder
      <4>5. p \in Nat /\ q \in Nat
        <5>1. p \in Nat
          BY <3>1, <4>3, DivRule
        <5> QED
          BY <3>2, <5>1
      <4>6. g[j] = C - C + p * C /\ h[j] = q * C
        BY <3>2, <3>3, <3>5, <4>2
      <4> HIDE DEF p, q
      <4>7. C * p <= C * q
        BY <3>1, <4>4, <4>5, ProductOrder
      <4>8. C * p = p * C /\ C * q = q * C /\ p * C \in Nat /\ q * C \in Nat
        <5>1. C * p = p * C /\ C * q = q * C
          BY <3>1, <4>5
        <5>2. p * C \in Nat
          BY <3>1, <4>5, ProductNat
        <5>3. q * C \in Nat
          BY <3>1, <4>5, ProductNat
        <5> QED
          BY <5>1, <5>2, <5>3
      <4> QED
        BY <3>1, <4>6, <4>7, <4>8
    <3> QED
      BY <3>4, <3>5
  <2>2. SumTo(h, n) <= x
    BY <1>2, Utilisation DEF ScheduleTypeInv, n
  <2> HIDE DEF h
  <2>3. \A j \in 1 .. n : g[j] \in Int /\ h[j] \in Int /\ g[j] <= h[j]
    BY <1>5, <1>12, <2>1
  <2>4. SumTo(g, n) <= SumTo(h, n)
    BY <1>5, <2>3, SumLess
  <2>5. SumTo(h, n) \in Int
    BY <1>5, <2>3, SumToRule
  <2> QED
    BY <1>13, <2>2, <2>4, <2>5
<1>17. ASSUME NEW K \in Waiting, x + 1 < ToDeadline[K],
              ToDeadline[K] - (set.C[K] - HasRun[K]) <= x
       PROVE  SumTo(g, n) <= x
  <2> DEFINE y == ToDeadline[K]
             h == At(y)
             e == [j \in Services(set) |-> IF j = K THEN 0 ELSE h[j]]
             rest == set.C[K] - HasRun[K]
  <2>1. K \in Services(set) /\ y \in Nat /\ rest \in Nat /\ x + 1 <= y
    <3>1. K \in Services(set)
      BY <1>5
    <3>2. y \in Nat /\ HasRun[K] \in Nat /\ HasRun[K] <= set.C[K] /\ set.C[K] \in Nat
      BY <1>9, <3>1
    <3> QED
      BY <1>17, <3>1, <3>2
  <2>2. \A j \in Services(set) : h[j] = Asked(ToDeadline, HasRun, j, y) /\ h[j] \in Int
    <3>1. \A j \in Services(set) : h[j] = Asked(ToDeadline, HasRun, j, y)
      BY <1>7, <2>1
    <3> HIDE DEF h, y
    <3> QED
      BY <1>20, <2>1, <3>1
  <2>3. h[K] = rest
    <3>1. Asked(ToDeadline, HasRun, K, y) = rest
      BY <1>9, <2>1, AskedRule
    <3> QED
      BY <2>1, <2>2, <3>1
  <2>4. g[K] = 0
    <3>1. Asked(ToDeadline, HasRun, K, x + 1) = 0
      BY <1>17 DEF Asked
    <3> QED
      BY <1>12, <2>1, <3>1
  <2>5. ASSUME NEW j \in Services(set)
        PROVE  g[j] <= h[j]
    <3>1. Asked(ToDeadline, HasRun, j, x + 1) <= Asked(ToDeadline, HasRun, j, y)
      BY <1>9, <1>11, <2>1, AskedRule
    <3> QED
      BY <1>12, <2>2, <3>1
  <2>6. e[K] = 0 /\ \A j \in Services(set) : j # K => e[j] = h[j]
    BY <2>1
  <2>7. SumTo(h, n) <= y /\ SumTo(h, n) \in Int
    BY <1>10, <2>1
  <2> HIDE DEF y, h, e, rest
  <2>8. \A j \in 1 .. n : h[j] \in Int /\ e[j] \in Int /\ (j # K => h[j] = e[j])
    BY <1>5, <2>2, <2>6
  <2>9. SumTo(e, n) = SumTo(h, n) + e[K] - h[K]
    <3>1. K \in 1 .. n
      BY <1>5, <2>1
    <3> QED
      BY <1>5, <2>8, <3>1, SumOne
  <2>10. \A j \in 1 .. n : g[j] \in Int /\ e[j] \in Int /\ g[j] <= e[j]
    BY <1>5, <1>12, <2>4, <2>5, <2>6, <2>8
  <2>11. SumTo(g, n) <= SumTo(e, n)
    BY <1>5, <2>10, SumLess
  <2>12. SumTo(e, n) = SumTo(h, n) - rest
    BY <2>1, <2>3, <2>6, <2>7, <2>9
  <2>13. y - rest <= x
    BY <1>17 DEF y, rest
  <2> QED
    BY <1>13, <2>1, <2>7, <2>11, <2>12, <2>13
<1>18. CASE Waiting = {}
  <2>1. ServiceToRun = {}
    BY <1>18, WhoRuns
  <2>2. SumTo(g, n) <= x
    BY <1>16, <1>18
  <2> QED
    BY <1>6, <1>15, <2>1, <2>2
<1>19. CASE Waiting # {}
  <2>1. PICK K \in Waiting :
          /\ ServiceToRun = {K}
          /\ protocol = "EDF" => \A u \in Waiting : ToDeadline[K] <= ToDeadline[u]
          /\ protocol = "LLF" => \A u \in Waiting :
                 ToDeadline[K] - (set.C[K] - HasRun[K]) <= ToDeadline[u] - (set.C[u] - HasRun[u])
    BY <1>19, WhoRuns
  <2>2. K \in Services(set) /\ ToDeadline[K] \in Nat
    BY <1>5, <1>9
  <2>3. CASE ToDeadline[K] <= x + 1
    BY <1>6, <1>14, <2>1, <2>2, <2>3
  <2>4. CASE x + 1 < ToDeadline[K]
    <3>1. SumTo(g, n) <= x
      <4>1. CASE \A j \in Waiting : x + 1 < ToDeadline[j]
        BY <1>16, <4>1
      <4>2. CASE \E j \in Waiting : ~(x + 1 < ToDeadline[j])
        <5>1. PICK J \in Waiting : ~(x + 1 < ToDeadline[J])
          BY <4>2
        <5>2. J \in Services(set) /\ ToDeadline[J] \in Nat /\ HasRun[J] < set.C[J]
              /\ HasRun[J] \in Nat /\ set.C[J] \in Nat
          <6>1. J \in Services(set)
            BY <1>5
          <6> QED
            BY <1>9, <6>1, WaitingServices
        <5>3. protocol # "EDF"
          <6>1. ~(ToDeadline[K] <= ToDeadline[J])
            BY <2>2, <2>4, <5>1, <5>2
          <6> QED
            BY <2>1, <6>1
        <5>4. protocol = "LLF"
          BY <1>2, <5>3 DEF ScheduleTypeInv, Protocols
        <5>5. ToDeadline[K] - (set.C[K] - HasRun[K]) <= ToDeadline[J] - (set.C[J] - HasRun[J])
          BY <2>1, <5>4
        <5>6. HasRun[K] \in Nat /\ set.C[K] \in Nat
          BY <1>9, <2>2
        <5>7. ToDeadline[K] - (set.C[K] - HasRun[K]) <= x
          BY <2>2, <5>1, <5>2, <5>5, <5>6
        <5> QED
          BY <1>17, <2>4, <5>7
      <4> QED
        BY <4>1, <4>2
    <3>2. \A j \in Services(set) : j \notin ServiceToRun \/ x + 1 < ToDeadline[j]
      BY <2>1, <2>4
    <3> QED
      BY <1>6, <1>15, <3>1, <3>2
  <2> QED
    BY <2>2, <2>3, <2>4
<1> QED
  BY <1>18, <1>19

\* The two functions of feasibility_tests_updated.c agree on every set the simulator is given.
THEOREM TestsAgreeTheorem == ScheduleSpec => []TestsAgree
<1>1. ScheduleTypeInv => TestsAgree
  BY TestsAreTheSame DEF ScheduleTypeInv, TestsAgree
<1> QED
  BY <1>1, ScheduleTypeTheorem, PTL

\* The inductive invariant of the two dynamic policies.
DynamicInv == ScheduleTypeInv /\ Demanded /\ DynamicNeverMisses

\* A tick keeps it.
LEMMA DynamicTick ==
    ASSUME DynamicInv, Tick
    PROVE  DynamicInv'
<1>1. ScheduleTypeInv /\ Demanded /\ DynamicNeverMisses
  BY DEF DynamicInv
<1>2. ScheduleTypeInv'
  BY <1>1, TickType
<1>3. Demanded'
  BY <1>1, TickDemanded
<1>4. set' = set /\ protocol' = protocol
  BY <1>1, TickEffect
<1>5. ASSUME protocol # "RM", Within(set, Len(set.T))
      PROVE  misses' = 0
  <2>1. misses = 0
    BY <1>1, <1>5 DEF DynamicNeverMisses
  <2>2. TotalAsked(Deadline, Runtime, 0) <= 0
    <3>1. 0 \in Nat
      OBVIOUS
    <3> QED
      BY <1>1, <1>5, <3>1 DEF Demanded
  <2>3. Missed = {}
    BY <1>1, <2>2, NoneMissed
  <2> QED
    BY <1>1, <2>1, <2>3, TickEffect
<1>6. DynamicNeverMisses'
  BY <1>4, <1>5 DEF DynamicNeverMisses
<1> QED
  BY <1>2, <1>3, <1>6 DEF DynamicInv

\* schedule.c counts no miss under its two dynamic policies on a set that asks for no more than
\* all of the time, however many services it has and however long the simulation lasts.
THEOREM DynamicNeverMissesTheorem == ScheduleSpec => []DynamicNeverMisses
<1>1. ScheduleInit => DynamicInv
  BY InitType, InitDemanded DEF ScheduleInit, DynamicInv, DynamicNeverMisses
<1>2. DynamicInv /\ [ScheduleNext]_scheduleVars => DynamicInv'
  <2>1. SUFFICES ASSUME DynamicInv, [ScheduleNext]_scheduleVars PROVE DynamicInv'
    OBVIOUS
  <2>2. CASE ScheduleNext
    BY <2>1, <2>2, DynamicTick DEF ScheduleNext
  <2>3. CASE UNCHANGED scheduleVars
    <3>1. ScheduleTypeInv'
      BY <2>1, <2>3 DEF scheduleVars, ScheduleTypeInv, Releases, ServiceSet, Services, DynamicInv
    <3>2. Demanded'
      BY <2>1, <2>3 DEF scheduleVars, Demanded, TotalAsked, Asked, Services, DynamicInv
    <3>3. DynamicNeverMisses'
      BY <2>1, <2>3 DEF scheduleVars, DynamicNeverMisses, DynamicInv
    <3> QED
      BY <3>1, <3>2, <3>3 DEF DynamicInv
  <2> QED
    BY <2>1, <2>2, <2>3
<1>3. DynamicInv => DynamicNeverMisses
  BY DEF DynamicInv
<1> QED
  BY <1>1, <1>2, <1>3, PTL DEF ScheduleSpec

-----------------------------------------------------------------------------
(***************************************************************************)
(* Rate monotonic: a service has been kept from the processor for less than *)
(* its completion time.                                                    *)
(***************************************************************************)

\* What is left of the released runs of the services up to i.
Backlog(i) == SumTo([j \in Services(set) |-> IF t = 0 THEN 0 ELSE set.C[j] - Runtime[j]], i)

\* The same when the expired services are released again.
Rest(i) == SumTo([j \in Services(set) |-> set.C[j] - HasRun[j]], i)

\* Both are numbers, 0 at the start and where nobody has work.
LEMMA BacklogRule ==
    ASSUME ScheduleTypeInv, NEW i \in 0 .. Len(set.T)
    PROVE  /\ Backlog(i) \in Nat /\ Rest(i) \in Nat
           /\ t = 0 => Backlog(i) = 0
           /\ (\A j \in 1 .. i : j \notin Waiting) => Rest(i) = 0
<1> DEFINE f == [j \in Services(set) |-> IF t = 0 THEN 0 ELSE set.C[j] - Runtime[j]]
           g == [j \in Services(set) |-> set.C[j] - HasRun[j]]
           z == [j \in Services(set) |-> 0]
<1>1. i \in Nat /\ i \in 0 .. i /\ \A j \in 1 .. i : j \in Services(set)
  <2>1. Len(set.T) \in Nat /\ Services(set) = 1 .. Len(set.T)
    BY WaitingServices
  <2> QED
    BY <2>1
<1>2. ASSUME NEW j \in Services(set)
      PROVE  /\ f[j] \in Nat /\ g[j] \in Nat /\ z[j] = 0
             /\ t = 0 => f[j] = 0
             /\ j \notin Waiting => g[j] = 0
  <2>1. /\ set.C[j] \in Nat /\ Runtime[j] \in Nat /\ Runtime[j] <= set.C[j]
    BY DEF ScheduleTypeInv, ServiceSet
  <2>2. HasRun[j] \in Nat /\ HasRun[j] <= set.C[j]
    BY Released
  <2>3. j \notin Waiting => HasRun[j] = set.C[j]
    BY WaitingServices
  <2>4. f[j] = (IF t = 0 THEN 0 ELSE set.C[j] - Runtime[j]) /\ g[j] = set.C[j] - HasRun[j] /\ z[j] = 0
    OBVIOUS
  <2> HIDE DEF f, g, z
  <2> QED
    BY <2>1, <2>2, <2>3, <2>4
<1>3. Backlog(i) = SumTo(f, i) /\ Rest(i) = SumTo(g, i)
  BY DEF Backlog, Rest
<1> HIDE DEF f, g, z
<1>4. SumTo(f, i) \in Nat
  BY <1>1, <1>2, SumTerms
<1>5. SumTo(g, i) \in Nat
  BY <1>1, <1>2, SumTerms
<1>6. SumTo(z, i) = 0
  <2>1. \A j \in 1 .. i : z[j] \in Int /\ z[j] = 0 * z[j]
    <3>1. ASSUME NEW x, x = 0
          PROVE  x \in Int /\ x = 0 * x
      BY <3>1
    <3> QED
      BY <1>1, <1>2, <3>1
  <2>2. 0 \in Int
    OBVIOUS
  <2>3. SumTo(z, i) = 0 * SumTo(z, i)
    BY <1>1, <2>1, <2>2, SumScale
  <2>4. SumTo(z, i) \in Int
    BY <1>1, <2>1, SumToRule
  <2> QED
    BY <2>3, <2>4
<1>7. ASSUME t = 0
      PROVE  SumTo(f, i) = 0
  <2>1. ASSUME NEW j \in 1 .. i
        PROVE  f[j] \in Int /\ f[j] = z[j]
    <3>1. j \in Services(set)
      BY <1>1
    <3>2. f[j] \in Nat /\ f[j] = 0 /\ z[j] = 0
      BY <1>2, <1>7, <3>1
    <3> QED
      BY <3>2
  <2>2. SumTo(f, i) = SumTo(z, i)
    BY <1>1, <2>1, SumSame
  <2> QED
    BY <1>6, <2>2
<1>8. ASSUME \A j \in 1 .. i : j \notin Waiting
      PROVE  SumTo(g, i) = 0
  <2>1. ASSUME NEW j \in 1 .. i
        PROVE  g[j] \in Int /\ g[j] = z[j]
    <3>1. j \in Services(set)
      BY <1>1
    <3>2. g[j] \in Nat /\ g[j] = 0 /\ z[j] = 0
      BY <1>2, <1>8, <3>1
    <3> QED
      BY <3>2
  <2>2. SumTo(g, i) = SumTo(z, i)
    BY <1>1, <2>1, SumSame
  <2> QED
    BY <1>6, <2>2
<1> QED
  BY <1>3, <1>4, <1>5, <1>7, <1>8

\* What is released at t.
LEMMA RestIsBacklog ==
    ASSUME ScheduleTypeInv, Missed = {}, NEW i \in 0 .. Len(set.T)
    PROVE  Rest(i) + Load(set, i, t) = Backlog(i) + Load(set, i, t + 1)
<1> DEFINE f == [j \in Services(set) |-> IF t = 0 THEN 0 ELSE set.C[j] - Runtime[j]]
           g == [j \in Services(set) |-> set.C[j] - HasRun[j]]
           a == [j \in Services(set) |-> CeilDiv(t, set.T[j]) * set.C[j]]
           b == [j \in Services(set) |-> CeilDiv(t + 1, set.T[j]) * set.C[j]]
           h == [j \in Services(set) |-> g[j] + a[j]]
<1>1. i \in Nat /\ \A j \in 1 .. i : j \in Services(set)
  <2>1. Len(set.T) \in Nat /\ Services(set) = 1 .. Len(set.T)
    BY WaitingServices
  <2> QED
    BY <2>1
<1>2. ASSUME NEW j \in Services(set)
      PROVE  f[j] \in Int /\ g[j] \in Int /\ a[j] \in Int /\ b[j] \in Int
             /\ h[j] = g[j] + a[j] /\ h[j] = f[j] + b[j]
  <2> DEFINE T == set.T[j]
             C == set.C[j]
             p == CeilDiv(t, T)
             q == CeilDiv(t + 1, T)
  <2>1. T \in Nat /\ T # 0 /\ C \in Nat /\ Runtime[j] \in Nat /\ t \in Nat /\ t + 1 \in Nat
        /\ (t = 0 => Runtime[j] = 0)
    BY DEF ScheduleTypeInv, ServiceSet
  <2>2. p \in Nat /\ q \in Nat /\ (t = 0 => p = 0)
    <3>1. p \in Nat /\ (t = 0 => p = 0)
      BY <2>1, CeilBounds
    <3>2. q \in Nat
      BY <2>1, CeilBounds
    <3> QED
      BY <3>1, <3>2
  <2>3. /\ Deadline[j] # 0 => q = Releases(j)
        /\ Deadline[j] = 0 => t # 0 /\ q = p + 1
    BY Released
  <2>4. HasRun[j] = IF Deadline[j] = 0 THEN 0 ELSE Runtime[j]
    BY DEF HasRun, Expired
  <2>5. Deadline[j] = 0 => Runtime[j] = C
    BY DEF Missed, Expired
  <2>6. Releases(j) = IF t = 0 THEN 1 ELSE p
    BY DEF Releases
  <2>7. /\ f[j] = (IF t = 0 THEN 0 ELSE C - Runtime[j])
        /\ g[j] = C - HasRun[j] /\ a[j] = p * C /\ b[j] = q * C /\ h[j] = g[j] + a[j]
    OBVIOUS
  <2> HIDE DEF T, C, p, q, f, g, a, b, h
  <2>8. p * C \in Nat /\ q * C \in Nat /\ (p + 1) * C = p * C + C /\ 0 * C = 0 /\ 1 * C = C
    <3>1. p * C \in Nat
      BY <2>1, <2>2, ProductNat
    <3>2. q * C \in Nat
      BY <2>1, <2>2, ProductNat
    <3>3. (p + 1) * C = p * C + C /\ 0 * C = 0 /\ 1 * C = C
      BY <2>1, <2>2
    <3> QED
      BY <3>1, <3>2, <3>3
  <2>9. f[j] \in Int /\ g[j] \in Int /\ a[j] \in Int /\ b[j] \in Int
    BY <2>1, <2>4, <2>7, <2>8
  <2>10. g[j] + a[j] = f[j] + b[j]
    <3>1. CASE Deadline[j] = 0
      <4>1. f[j] = 0
        BY <2>1, <2>3, <2>5, <2>7, <3>1
      <4>2. g[j] = C
        BY <2>1, <2>4, <2>7, <3>1
      <4>3. b[j] = p * C + C
        BY <2>3, <2>7, <2>8, <3>1
      <4> QED
        BY <2>1, <2>7, <2>8, <4>1, <4>2, <4>3
    <3>2. CASE Deadline[j] # 0 /\ t = 0
      <4>1. f[j] = 0 /\ a[j] = 0 /\ b[j] = C
        BY <2>2, <2>3, <2>6, <2>7, <2>8, <3>2
      <4>2. g[j] = C
        BY <2>1, <2>4, <2>7, <3>2
      <4> QED
        BY <2>1, <4>1, <4>2
    <3>3. CASE Deadline[j] # 0 /\ t # 0
      <4>1. q = p
        BY <2>3, <2>6, <3>3
      <4>2. f[j] = g[j] /\ a[j] = b[j]
        BY <2>4, <2>7, <3>3, <4>1
      <4> QED
        BY <4>2
    <3> QED
      BY <3>1, <3>2, <3>3
  <2> QED
    BY <2>7, <2>9, <2>10
<1>3. /\ Rest(i) = SumTo(g, i) /\ Backlog(i) = SumTo(f, i)
      /\ Load(set, i, t) = SumTo(a, i) /\ Load(set, i, t + 1) = SumTo(b, i)
  BY DEF Rest, Backlog, Load
<1> HIDE DEF f, g, a, b, h
<1>4. SumTo(h, i) = SumTo(g, i) + SumTo(a, i)
  BY <1>1, <1>2, SumAdd
<1>5. SumTo(h, i) = SumTo(f, i) + SumTo(b, i)
  BY <1>1, <1>2, SumAdd
<1> QED
  BY <1>3, <1>4, <1>5

\* And what a tick leaves of it.
LEMMA BacklogTick ==
    ASSUME ScheduleTypeInv, Tick, NEW i \in 0 .. Len(set.T)
    PROVE  /\ Backlog(i)' \in Nat
           /\ \A m \in 1 .. i : ServiceToRun = {m} => Backlog(i)' = Rest(i) - 1
           /\ (\A j \in 1 .. i : j \notin ServiceToRun) => Backlog(i)' = Rest(i)
<1> DEFINE f == [j \in Services(set) |-> set.C[j] - Runtime'[j]]
           g == [j \in Services(set) |-> set.C[j] - HasRun[j]]
<1>1. i \in Nat /\ \A j \in 1 .. i : j \in Services(set)
  <2>1. Len(set.T) \in Nat /\ Services(set) = 1 .. Len(set.T)
    BY WaitingServices
  <2> QED
    BY <2>1
<1>2. ASSUME NEW j \in Services(set)
      PROVE  /\ f[j] \in Int /\ g[j] \in Int /\ f[j] \in Nat
             /\ j \in ServiceToRun => f[j] = g[j] - 1
             /\ j \notin ServiceToRun => f[j] = g[j]
  <2>1. set.C[j] \in Nat
    BY DEF ScheduleTypeInv, ServiceSet
  <2>2. HasRun[j] \in Nat /\ HasRun[j] <= set.C[j] /\ (j \in ServiceToRun => HasRun[j] < set.C[j])
    <3>1. HasRun[j] \in Nat /\ HasRun[j] <= set.C[j]
      BY Released
    <3>2. j \in ServiceToRun => j \in Waiting
      BY WhoRuns
    <3> QED
      BY <3>1, <3>2, WaitingServices
  <2>3. /\ j \in ServiceToRun => Runtime'[j] = HasRun[j] + 1
        /\ j \notin ServiceToRun => Runtime'[j] = HasRun[j]
    BY TickEffect
  <2>4. f[j] = set.C[j] - Runtime'[j] /\ g[j] = set.C[j] - HasRun[j]
    OBVIOUS
  <2> HIDE DEF f, g
  <2> QED
    BY <2>1, <2>2, <2>3, <2>4
<1>3. Backlog(i)' = SumTo(f, i)
  <2>1. t' # 0 /\ set' = set
    BY TickEffect
  <2> QED
    BY <2>1 DEF Backlog, Services
<1>4. Rest(i) = SumTo(g, i)
  BY DEF Rest
<1> HIDE DEF f, g
<1>5. ASSUME NEW m \in 1 .. i, ServiceToRun = {m}
      PROVE  SumTo(f, i) = SumTo(g, i) - 1
  <2>1. \A j \in 1 .. i : g[j] \in Int /\ f[j] \in Int /\ (j # m => g[j] = f[j])
    BY <1>1, <1>2, <1>5
  <2>2. SumTo(f, i) = SumTo(g, i) + f[m] - g[m]
    BY <1>1, <2>1, SumOne
  <2>3. f[m] = g[m] - 1 /\ g[m] \in Int
    BY <1>1, <1>2, <1>5
  <2>4. SumTo(g, i) \in Int
    <3>1. Rest(i) \in Nat
      BY BacklogRule
    <3> QED
      BY <1>4, <3>1
  <2> QED
    BY <2>2, <2>3, <2>4
<1>6. ASSUME \A j \in 1 .. i : j \notin ServiceToRun
      PROVE  SumTo(f, i) = SumTo(g, i)
  <2>1. \A j \in 1 .. i : f[j] \in Int /\ f[j] = g[j]
    BY <1>1, <1>2, <1>6
  <2> QED
    BY <1>1, <2>1, SumSame
<1>7. SumTo(f, i) \in Nat
  <2>1. \A j \in 1 .. i : f[j] \in Nat
    BY <1>1, <1>2
  <2> QED
    BY <1>1, <2>1, SumTerms
<1> QED
  BY <1>3, <1>4, <1>5, <1>6, <1>7

\* i's last run is not over.
Pending(i) == Runtime[i] < set.C[i]

\* Since u the processor had work at i's rate or above, for less than i's completion time, and
\* a run of i that is not over was released at u or after.
BusySince(i, u) ==
    /\ t - u < CompletionTime(set, i)
    /\ Backlog(i - 1) + (t - u) =
           Load(set, i - 1, t) - Load(set, i - 1, u) + (IF Pending(i) THEN Runtime[i] ELSE 0)
    /\ Pending(i) => u <= t + Deadline[i] - set.T[i]

\* Every service is in such a window, as long as nobody missed.
Window ==
    protocol = "RM" /\ misses = 0 /\ Settles(set) =>
        \A i \in Services(set) : \E u \in 0 .. t : BusySince(i, u)

\* A rate monotonic tick, told for service i.
LEMMA RmTick ==
    ASSUME ScheduleTypeInv, Tick, Missed = {}, protocol = "RM", NEW i \in Services(set)
    PROVE  /\ Backlog(i - 1)' \in Nat
           /\ \/ /\ i \notin ServiceToRun /\ Backlog(i - 1)' = Rest(i - 1) - 1
              \/ /\ Rest(i - 1) = 0 /\ Backlog(i - 1)' = 0
                 /\ ServiceToRun = {i} /\ i \in Waiting
              \/ /\ Rest(i - 1) = 0 /\ Backlog(i - 1)' = 0
                 /\ i \notin ServiceToRun /\ i \notin Waiting
<1> DEFINE m == i - 1
<1>1. i \in Nat /\ m \in 0 .. Len(set.T) /\ \A j \in 1 .. m : j \in Nat /\ j < i
  BY DemandRule DEF ScheduleTypeInv
<1>2. Waiting \subseteq Nat /\ \A j \in Waiting : 1 <= j
  BY WaitingServices
<1>5. Backlog(i - 1)' \in Nat
  BY <1>1, BacklogTick
<1> HIDE DEF m
<1>3. CASE Waiting = {}
  <2>1. ServiceToRun = {}
    BY <1>3, WhoRuns
  <2>2. Rest(m) = 0
    BY <1>1, <1>3, BacklogRule
  <2>3. Backlog(m)' = Rest(m)
    BY <1>1, <2>1, BacklogTick
  <2> QED
    BY <1>3, <2>1, <2>2, <2>3 DEF m
<1>4. CASE Waiting # {}
  <2>1. PICK K \in Waiting : ServiceToRun = {K} /\ \A u \in Waiting : K <= u
    BY <1>4, WhoRuns
  <2>2. K \in Nat /\ 1 <= K
    BY <1>2
  <2>3. CASE K < i
    <3>1. K \in 1 .. m
      BY <1>1, <2>2, <2>3 DEF m
    <3>2. Backlog(m)' = Rest(m) - 1
      BY <1>1, <2>1, <3>1, BacklogTick
    <3>3. i \notin ServiceToRun
      BY <1>1, <2>1, <2>2, <2>3
    <3> QED
      BY <1>5, <3>2, <3>3 DEF m
  <2>4. CASE ~(K < i)
    <3>1. \A j \in 1 .. m : j \notin Waiting /\ j \notin ServiceToRun
      <4>1. ASSUME NEW j \in 1 .. m
            PROVE  j \notin Waiting /\ j \notin ServiceToRun
        <5>1. j \in Nat /\ j < i
          BY <1>1
        <5>2. j < K
          BY <1>1, <2>2, <2>4, <5>1
        <5>3. j \notin Waiting
          BY <2>1, <2>2, <5>1, <5>2
        <5>4. j \notin ServiceToRun
          BY <2>1, <2>2, <5>1, <5>2
        <5> QED
          BY <5>3, <5>4
      <4> QED
        BY <4>1
    <3>2. Rest(m) = 0
      BY <1>1, <3>1, BacklogRule
    <3>3. Backlog(m)' = 0
      BY <1>1, <3>1, <3>2, BacklogTick
    <3>4. CASE K = i
      BY <2>1, <3>2, <3>3, <3>4 DEF m
    <3>5. CASE K # i
      <4>1. i \notin ServiceToRun
        BY <2>1, <3>5
      <4>2. i \notin Waiting
        BY <1>1, <2>1, <2>2, <2>4, <3>5
      <4> QED
        BY <3>2, <3>3, <4>1, <4>2 DEF m
    <3> QED
      BY <3>4, <3>5
  <2> QED
    BY <2>3, <2>4
<1> QED
  BY <1>3, <1>4, <1>5

\* A busy window of i is shorter than i's completion time.
LEMMA WindowShort ==
    ASSUME NEW s, ServiceSet(s), Settles(s), NEW i \in Services(s),
           NEW u \in Nat, NEW x \in Nat, x <= CompletionTime(s, i),
           NEW back \in Nat, NEW own \in Nat, own < s.C[i],
           back + x = Load(s, i - 1, u + x) - Load(s, i - 1, u) + own
    PROVE  x < CompletionTime(s, i)
<1> DEFINE dux == Load(s, i - 1, u + x)
           du == Load(s, i - 1, u)
           dx == Load(s, i - 1, x)
           C == s.C[i]
           w == CompletionTime(s, i)
<1>1. w \in Nat /\ Demand(s, i, w) = w
  BY CompletionTimeLeast
<1>2. i - 1 \in 0 .. Len(s.T) /\ C \in Nat
  BY DemandRule DEF ServiceSet
<1>3. Demand(s, i, x) = C + dx
  BY DemandRule
<1>4. dux \in Nat /\ du \in Nat /\ dx \in Nat
  <2>1. u + x \in Nat
    OBVIOUS
  <2> QED
    BY <1>2, <2>1, LoadRule
<1>5. dux <= du + dx
  BY <1>2, LoadSubadditive
<1>6. back + x = dux - du + own /\ x <= w /\ own < C
  OBVIOUS
<1>7. x = w => x = C + dx
  BY <1>1, <1>3
<1> HIDE DEF dux, du, dx, C, w
<1>8. x < w
  BY <1>1, <1>2, <1>4, <1>5, <1>6, <1>7
<1> QED
  BY <1>8 DEF w

\* The busy window after the release of the expired services.
LEMMA WindowReleased ==
    ASSUME ScheduleTypeInv, Missed = {}, NEW i \in Services(set), NEW u \in 0 .. t, BusySince(i, u)
    PROVE  /\ Rest(i - 1) + (t - u) = Load(set, i - 1, t + 1) - Load(set, i - 1, u)
                                        + (IF i \in Waiting THEN HasRun[i] ELSE 0)
           /\ i \in Waiting => u <= t + ToDeadline[i] - set.T[i]
           /\ t - u < CompletionTime(set, i)
<1> DEFINE m == i - 1
           C == set.C[i]
           T == set.T[i]
           lt == Load(set, m, t)
           ln == Load(set, m, t + 1)
           lu == Load(set, m, u)
           back == Backlog(m)
           rest == Rest(m)
           r == Runtime[i]
           h == HasRun[i]
           d == Deadline[i]
           e == ToDeadline[i]
<1>1. m \in 0 .. Len(set.T)
  BY DemandRule DEF ScheduleTypeInv
<1>2. /\ C \in Nat /\ C # 0 /\ T \in Nat /\ r \in Nat /\ d \in Nat /\ t \in Nat /\ u \in Nat
      /\ u <= t
  BY DEF ScheduleTypeInv, ServiceSet
<1>3. lt \in Nat /\ ln \in Nat /\ lu \in Nat
  <2>1. t + 1 \in Nat
    BY <1>2
  <2>2. ServiceSet(set)
    BY DEF ScheduleTypeInv
  <2> QED
    BY <1>1, <1>2, <2>1, <2>2, LoadRule
<1>4. back \in Nat /\ rest \in Nat
  BY <1>1, BacklogRule
<1>5. rest + lt = back + ln
  BY <1>1, RestIsBacklog
<1>6. /\ t - u < CompletionTime(set, i)
      /\ back + (t - u) = lt - lu + (IF r < C THEN r ELSE 0)
      /\ r < C => u <= t + d - T
  BY DEF BusySince, Pending
<1>7. /\ h = IF d = 0 THEN 0 ELSE r
      /\ e = IF d = 0 THEN T ELSE d
  BY DEF HasRun, ToDeadline, Expired
<1>8. d = 0 => r = C
  BY DEF Missed, Expired
<1>9. i \in Waiting <=> h < C
  BY WaitingServices
<1> HIDE DEF m, C, T, lt, ln, lu, back, rest, r, h, d, e
<1>10. CASE d = 0
  <2>1. back + (t - u) = lt - lu /\ h = 0 /\ e = T
    <3>1. ~(r < C)
      BY <1>2, <1>8, <1>10
    <3>2. back + (t - u) = lt - lu + 0
      BY <1>6, <3>1
    <3>3. back + (t - u) = lt - lu
      BY <1>3, <3>2
    <3> QED
      BY <1>7, <1>10, <3>3
  <2>2. rest + (t - u) = ln - lu + 0
    BY <1>2, <1>3, <1>4, <1>5, <2>1
  <2>3. u <= t + e - T
    BY <1>2, <2>1
  <2> QED
    BY <1>6, <2>1, <2>2, <2>3 DEF m, C, T, lt, ln, lu, back, rest, r, h, d, e
<1>11. CASE d # 0
  <2>1. h = r /\ e = d
    BY <1>7, <1>11
  <2>2. rest + (t - u) = ln - lu + (IF h < C THEN h ELSE 0)
    BY <1>2, <1>3, <1>4, <1>5, <1>6, <2>1
  <2>3. i \in Waiting => u <= t + e - T
    BY <1>6, <1>9, <2>1
  <2> QED
    BY <1>6, <1>9, <2>2, <2>3 DEF m, C, T, lt, ln, lu, back, rest, r, h, d, e
<1> QED
  BY <1>10, <1>11

\* A window goes on as long as it is busy, and i's run in it is not over.
LEMMA WindowGoesOn ==
    ASSUME ScheduleTypeInv, Tick, Missed = {}, Settles(set), NEW i \in Services(set),
           NEW u \in 0 .. t, BusySince(i, u), NEW own \in Nat, own < set.C[i],
           Backlog(i - 1)' \in Nat,
           Backlog(i - 1)' + (t + 1 - u) = Load(set, i - 1, t + 1) - Load(set, i - 1, u) + own,
           own = IF Pending(i)' THEN Runtime'[i] ELSE 0,
           Pending(i)' => i \in Waiting
    PROVE  BusySince(i, u)'
<1> DEFINE x == t + 1 - u
           w == CompletionTime(set, i)
           back == Backlog(i - 1)'
           T == set.T[i]
<1>1. /\ t \in Nat /\ u \in Nat /\ u <= t /\ ServiceSet(set)
      /\ set' = set /\ t' = t + 1
  BY TickEffect DEF ScheduleTypeInv
<1>2. w \in Nat
  BY <1>1, CompletionTimeLeast
<1>3. x \in Nat /\ u + x = t + 1
  BY <1>1
<1>4. t - u < w /\ (i \in Waiting => u <= t + ToDeadline[i] - T)
  BY WindowReleased
<1>5. back \in Nat /\ back + x = Load(set, i - 1, u + x) - Load(set, i - 1, u) + own
  BY <1>3
<1>6. x <= w
  BY <1>1, <1>2, <1>4
<1>7. Deadline'[i] = ToDeadline[i] - 1 /\ ToDeadline[i] \in Nat /\ T \in Nat
  <2>1. Deadline'[i] = ToDeadline[i] - 1
    BY TickEffect
  <2>2. ToDeadline[i] \in Nat
    BY Released
  <2> QED
    BY <1>1, <2>1, <2>2 DEF ServiceSet
<1> HIDE DEF x, back
<1>8. x < w
  BY <1>1, <1>3, <1>5, <1>6, WindowShort DEF w
<1>9. Pending(i)' => u <= (t + 1) + Deadline'[i] - T
  BY <1>1, <1>4, <1>7
<1>10. t' - u < CompletionTime(set', i)
  BY <1>1, <1>8 DEF x, w
<1>11. Pending(i)' => u <= t' + Deadline'[i] - set'.T[i]
  BY <1>1, <1>9
<1>12. Backlog(i - 1)' + (t' - u) = Load(set', i - 1, t') - Load(set', i - 1, u)
           + (IF Pending(i)' THEN Runtime'[i] ELSE 0)
  BY <1>1
<1> QED
  BY <1>10, <1>11, <1>12 DEF BusySince

\* Or the next tick starts a new one.
LEMMA WindowStarts ==
    ASSUME ScheduleTypeInv, Tick, Settles(set), NEW i \in Services(set),
           Backlog(i - 1)' = 0, ~Pending(i)', NEW v \in Nat, v = t + 1
    PROVE  BusySince(i, v)'
<1>1. t \in Nat /\ set' = set /\ t' = v /\ ServiceSet(set)
  BY TickEffect DEF ScheduleTypeInv
<1>2. CompletionTime(set, i) \in Nat /\ 0 < CompletionTime(set, i)
  BY <1>1, CompletionTimeLeast
<1>3. Load(set, i - 1, v) \in Nat
  <2>1. i - 1 \in 0 .. Len(set.T)
    BY <1>1, DemandRule
  <2> QED
    BY <1>1, <2>1, LoadRule
<1>4. t' - v < CompletionTime(set', i)
  <2>1. v - v < CompletionTime(set, i)
    BY <1>1, <1>2
  <2> QED
    BY <1>1, <2>1
<1>5. Backlog(i - 1)' + (t' - v) = Load(set', i - 1, t') - Load(set', i - 1, v)
          + (IF Pending(i)' THEN Runtime'[i] ELSE 0)
  <2>1. 0 + (v - v) = Load(set, i - 1, v) - Load(set, i - 1, v) + 0
    BY <1>1, <1>3
  <2>2. (IF Pending(i)' THEN Runtime'[i] ELSE 0) = 0
    OBVIOUS
  <2> QED
    BY <1>1, <2>1, <2>2
<1> QED
  BY <1>4, <1>5 DEF BusySince

\* A tick keeps i busy since u, or starts anew.
LEMMA WindowTick ==
    ASSUME ScheduleTypeInv, Tick, Missed = {}, protocol = "RM", Settles(set),
           NEW i \in Services(set), NEW u \in 0 .. t, BusySince(i, u)
    PROVE  \E z \in 0 .. t + 1 : BusySince(i, z)'
<1> DEFINE C == set.C[i]
           h == HasRun[i]
           r == Runtime'[i]
           rest == Rest(i - 1)
           next == Backlog(i - 1)'
           lu == Load(set, i - 1, u)
           ln == Load(set, i - 1, t + 1)
<1>1. t \in Nat /\ u \in Nat /\ u <= t /\ set' = set /\ C \in Nat /\ ServiceSet(set)
  BY TickEffect DEF ScheduleTypeInv, ServiceSet
<1>13. PICK v \in Nat : v = t + 1
  BY <1>1
<1>2. /\ h \in Nat /\ h <= C
      /\ i \in ServiceToRun => r = h + 1
      /\ i \notin ServiceToRun => r = h
  BY TickEffect, Released
<1>3. i \in Waiting <=> h < C
  BY WaitingServices
<1>4. Pending(i)' <=> r < C
  BY <1>1 DEF Pending
<1>5. rest + (t - u) = ln - lu + (IF i \in Waiting THEN h ELSE 0)
  BY WindowReleased
<1>6. rest \in Nat /\ ln \in Int /\ lu \in Int
  <2>1. i - 1 \in 0 .. Len(set.T)
    BY <1>1, DemandRule
  <2>4. t + 1 \in Nat
    BY <1>1
  <2>2. ln \in Nat /\ lu \in Nat
    BY <1>1, <2>1, <2>4, LoadRule
  <2>3. rest \in Nat
    BY <2>1, BacklogRule
  <2> QED
    BY <2>2, <2>3
<1>7. /\ next \in Nat
      /\ \/ i \notin ServiceToRun /\ next = rest - 1
         \/ rest = 0 /\ next = 0 /\ ServiceToRun = {i} /\ i \in Waiting
         \/ rest = 0 /\ next = 0 /\ i \notin ServiceToRun /\ i \notin Waiting
  BY RmTick
<1>8. u \in 0 .. t + 1 /\ v \in 0 .. t + 1
  BY <1>1, <1>13
<1>9. CASE i \notin ServiceToRun /\ next = rest - 1
  <2> DEFINE own == IF i \in Waiting THEN h ELSE 0
  <2>1. r = h /\ (Pending(i)' <=> i \in Waiting)
    BY <1>2, <1>3, <1>4, <1>9
  <2>2. own \in Nat /\ own < C
    <3>1. C # 0
      BY <1>1 DEF ServiceSet
    <3> QED
      BY <1>1, <1>2, <1>3, <3>1
  <2>3. next + (t + 1 - u) = ln - lu + own
    <3> HIDE DEF rest, next, ln, lu, h
    <3>1. own \in Nat /\ rest + (t - u) = ln - lu + own
      BY <1>5, <2>2
    <3> HIDE DEF own
    <3> QED
      BY <1>1, <1>6, <1>9, <3>1
  <2>4. own = IF Pending(i)' THEN r ELSE 0
    BY <2>1
  <2> HIDE DEF own, rest
  <2>5. BusySince(i, u)'
    BY <1>7, <2>1, <2>2, <2>3, <2>4, WindowGoesOn
  <2> QED
    BY <1>8, <2>5
<1>10. CASE rest = 0 /\ next = 0 /\ ServiceToRun = {i} /\ i \in Waiting /\ h + 1 < C
  <2>1. r = h + 1 /\ Pending(i)'
    BY <1>2, <1>4, <1>10
  <2>2. r \in Nat /\ r < C
    BY <1>2, <1>10, <2>1
  <2>3. next + (t + 1 - u) = ln - lu + r
    <3>1. rest + (t - u) = ln - lu + h
      BY <1>5, <1>10
    <3> HIDE DEF rest, next, ln, lu, h, r
    <3> QED
      BY <1>1, <1>2, <1>6, <1>10, <2>1, <3>1
  <2>4. BusySince(i, u)'
    BY <1>7, <1>10, <2>1, <2>2, <2>3, WindowGoesOn
  <2> QED
    BY <1>8, <2>4
<1>11. CASE rest = 0 /\ next = 0 /\ ServiceToRun = {i} /\ i \in Waiting /\ ~(h + 1 < C)
  <2>1. ~Pending(i)'
    BY <1>2, <1>4, <1>11
  <2>2. BusySince(i, v)'
    BY <1>11, <2>1, <1>13, WindowStarts
  <2> QED
    BY <1>8, <2>2
<1>12. CASE rest = 0 /\ next = 0 /\ i \notin ServiceToRun /\ i \notin Waiting
  <2>1. ~Pending(i)'
    BY <1>2, <1>3, <1>4, <1>12
  <2>2. BusySince(i, v)'
    BY <1>12, <2>1, <1>13, WindowStarts
  <2> QED
    BY <1>8, <2>2
<1> QED
  BY <1>7, <1>9, <1>10, <1>11, <1>12

\* The first windows begin with the schedule.
LEMMA WindowInit ==
    ASSUME ScheduleInit
    PROVE  Window
<1> SUFFICES ASSUME Settles(set), NEW i \in Services(set) PROVE \E u \in 0 .. t : BusySince(i, u)
  BY DEF Window
<1>1. t = 0 /\ ScheduleTypeInv /\ ServiceSet(set)
  BY InitType DEF ScheduleInit, ScheduleTypeInv
<1>2. Runtime[i] = 0 /\ Deadline[i] = set.T[i] /\ set.T[i] \in Nat
  BY <1>1 DEF ScheduleInit, ServiceSet
<1>3. i - 1 \in 0 .. Len(set.T)
  BY <1>1, DemandRule
<1>4. Backlog(i - 1) = 0
  BY <1>1, <1>3, BacklogRule
<1>5. Load(set, i - 1, 0) = 0
  BY <1>1, <1>3, LoadNothing
<1>6. CompletionTime(set, i) \in Nat /\ 0 < CompletionTime(set, i)
  BY <1>1, CompletionTimeLeast
<1>7. BusySince(i, 0)
  <2>1. t - 0 < CompletionTime(set, i)
    BY <1>1, <1>6
  <2>2. Backlog(i - 1) + (t - 0) = Load(set, i - 1, t) - Load(set, i - 1, 0)
            + (IF Pending(i) THEN Runtime[i] ELSE 0)
    BY <1>1, <1>2, <1>4, <1>5
  <2>3. 0 <= t + Deadline[i] - set.T[i]
    BY <1>1, <1>2
  <2> QED
    BY <2>1, <2>2, <2>3 DEF BusySince
<1>8. 0 \in 0 .. t
  BY <1>1
<1> QED
  BY <1>7, <1>8

\* Every tick goes on with the windows or starts new ones.
LEMMA WindowStep ==
    ASSUME ScheduleTypeInv, Window, Tick
    PROVE  Window'
<1>1. /\ set' = set /\ protocol' = protocol /\ t' = t + 1
      /\ misses' = 0 => misses = 0 /\ Missed = {}
  BY TickEffect
<1>2. Services(set)' = Services(set) /\ Settles(set)' = Settles(set)
  BY <1>1
<1>3. SUFFICES ASSUME protocol = "RM", misses' = 0, Settles(set), NEW i \in Services(set)
               PROVE  (\E u \in 0 .. t : BusySince(i, u))'
  BY <1>1, <1>2 DEF Window
<1>4. PICK u \in 0 .. t : BusySince(i, u)
  BY <1>1, <1>3 DEF Window
<1>5. PICK v \in 0 .. t + 1 : BusySince(i, v)'
  BY <1>1, <1>3, <1>4, WindowTick
<1> QED
  BY <1>1, <1>5

\* A service that misses its deadline has been busy for a whole period.
LEMMA FeasibleMissesNone ==
    ASSUME ScheduleTypeInv, Window, protocol = "RM", misses = 0, Settles(set),
           CompletionFeasible(set)
    PROVE  Missed = {}
<1> SUFFICES ASSUME NEW i \in Missed PROVE FALSE
  OBVIOUS
<1>1. i \in Services(set) /\ Deadline[i] = 0 /\ Runtime[i] # set.C[i]
  BY DEF Missed, Expired
<1>2. /\ Runtime[i] \in Nat /\ Runtime[i] <= set.C[i] /\ set.C[i] \in Nat /\ set.T[i] \in Nat
      /\ t \in Nat /\ ServiceSet(set)
  BY <1>1 DEF ScheduleTypeInv, ServiceSet
<1>3. PICK u \in 0 .. t : BusySince(i, u)
  BY <1>1 DEF Window
<1>4. Pending(i)
  BY <1>1, <1>2 DEF Pending
<1>5. t - u < CompletionTime(set, i) /\ u <= t + Deadline[i] - set.T[i]
  BY <1>3, <1>4 DEF BusySince
<1>6. CompletionTime(set, i) <= set.T[i] /\ CompletionTime(set, i) \in Nat
  BY <1>1, <1>2, CompletionTimeLeast DEF CompletionFeasible
<1> QED
  BY <1>1, <1>2, <1>5, <1>6

\* Rate monotonic scheduling misses no deadline of a set that is feasible.
RmInv == protocol = "RM" /\ Settles(set) /\ CompletionFeasible(set) => misses = 0

\* A tick keeps it.
LEMMA RmStep ==
    ASSUME ScheduleTypeInv, Window, RmInv, Tick
    PROVE  RmInv'
<1>1. /\ set' = set /\ protocol' = protocol
      /\ misses = 0 /\ Missed = {} => misses' = 0
  BY TickEffect
<1>2. SUFFICES ASSUME protocol = "RM", Settles(set), CompletionFeasible(set) PROVE misses' = 0
  BY <1>1 DEF RmInv
<1>3. misses = 0
  BY <1>2 DEF RmInv
<1> QED
  BY <1>1, <1>2, <1>3, FeasibleMissesNone

\* The ticks in which i ran.
Ran(i) == {k \in 1 .. t : events[k] = i}

\* The first run of i ended in the tick the completion time test computes, or there was an
\* earlier tick by which all that was asked for was done.
FirstRunEnded(i) ==
    \E c \in 1 .. t : events[c] = i /\ Demand(set, i, c) = c /\ c <= set.T[i]

\* Until i's first run is over, the backlog before i and the time tell what i has run.
FirstRunOf(i) ==
    /\ t <= set.T[i] => Cardinality(Ran(i)) = Runtime[i]
    /\ t <= set.T[i] /\ Pending(i) => Backlog(i - 1) + t = Load(set, i - 1, t) + Runtime[i]
    /\ (t <= set.T[i] /\ Pending(i)) \/ FirstRunEnded(i)

\* This holds of every service, as long as nobody missed.
FirstRun == protocol = "RM" /\ misses = 0 => \A i \in Services(set) : FirstRunOf(i)

\* At the start nobody has run.
LEMMA FirstRunInit ==
    ASSUME ScheduleInit
    PROVE  FirstRun
<1> SUFFICES ASSUME NEW i \in Services(set) PROVE FirstRunOf(i)
  BY DEF FirstRun
<1>1. t = 0 /\ ScheduleTypeInv /\ ServiceSet(set)
  BY InitType DEF ScheduleInit, ScheduleTypeInv
<1>2. Runtime[i] = 0 /\ set.T[i] \in Nat /\ set.C[i] \in Nat /\ set.C[i] # 0
  BY <1>1 DEF ScheduleInit, ServiceSet
<1>3. Pending(i) /\ t <= set.T[i]
  BY <1>1, <1>2 DEF Pending
<1>4. Cardinality(Ran(i)) = 0
  <2>1. Ran(i) = {}
    BY <1>1 DEF Ran
  <2> QED
    BY <2>1, FS_EmptySet
<1>5. Backlog(i - 1) + t = Load(set, i - 1, t) + Runtime[i]
  <2>1. i - 1 \in 0 .. Len(set.T)
    BY <1>1, DemandRule
  <2>2. Backlog(i - 1) = 0
    BY <1>1, <2>1, BacklogRule
  <2>3. Load(set, i - 1, 0) = 0
    BY <1>1, <2>1, LoadNothing
  <2> QED
    BY <1>1, <1>2, <2>2, <2>3
<1> QED
  BY <1>2, <1>3, <1>4, <1>5 DEF FirstRunOf

\* A service that runs in a tick is counted once.
LEMMA RanTick ==
    ASSUME ScheduleTypeInv, Tick, NEW i \in Services(set)
    PROVE  /\ Cardinality(Ran(i)) \in Nat
           /\ i \in ServiceToRun => Cardinality(Ran(i)') = Cardinality(Ran(i)) + 1
           /\ i \notin ServiceToRun => Cardinality(Ran(i)') = Cardinality(Ran(i))
           /\ i \in ServiceToRun => events'[t + 1] = i
           /\ \A k \in 1 .. t : events'[k] = events[k]
<1>1. t \in Nat /\ t' = t + 1 /\ i \in Nat /\ i # None
  <2>1. i \in Nat /\ 1 <= i
    BY WaitingServices
  <2> QED
    BY <2>1, TickEffect DEF None, ScheduleTypeInv
<1>2. \A k \in 1 .. t : events'[k] = events[k]
  BY TickEffect
<1>3. i \in ServiceToRun <=> events'[t + 1] = i
  <2>1. CASE ServiceToRun = {}
    BY <1>1, <2>1, TickEffect
  <2>2. CASE ServiceToRun # {}
    <3>1. PICK m : ServiceToRun = {m}
      BY <2>2, WhoRuns
    <3>2. events'[t + 1] = m
      BY <3>1, TickEffect
    <3> QED
      BY <3>1, <3>2
  <2> QED
    BY <2>1, <2>2
<1>4. Ran(i) \subseteq 1 .. t
  BY DEF Ran
<1>5. IsFiniteSet(Ran(i)) /\ Cardinality(Ran(i)) \in Nat
  <2>1. IsFiniteSet(1 .. t)
    BY <1>1, FS_Interval
  <2>2. IsFiniteSet(Ran(i))
    BY <1>4, <2>1, FS_Subset
  <2> QED
    BY <2>2, FS_CardinalityType
<1>6. Ran(i)' = {k \in 1 .. t + 1 : events'[k] = i}
  BY <1>1 DEF Ran
<1>7. t + 1 \notin Ran(i)
  BY <1>1, <1>4
<1>8. ASSUME i \in ServiceToRun
      PROVE  Cardinality(Ran(i)') = Cardinality(Ran(i)) + 1
  <2>1. Ran(i)' = Ran(i) \cup {t + 1}
    <3>1. \A k \in 1 .. t + 1 : k \in 1 .. t \/ k = t + 1
      BY <1>1
    <3>2. t + 1 \in 1 .. t + 1 /\ \A k \in 1 .. t : k \in 1 .. t + 1
      BY <1>1
    <3> QED
      BY <1>2, <1>3, <1>6, <1>8, <3>1, <3>2 DEF Ran
  <2> QED
    BY <1>5, <1>7, <2>1, FS_AddElement
<1>9. ASSUME i \notin ServiceToRun
      PROVE  Ran(i)' = Ran(i)
  <2>1. \A k \in 1 .. t + 1 : k \in 1 .. t \/ k = t + 1
    BY <1>1
  <2>2. \A k \in 1 .. t : k \in 1 .. t + 1
    BY <1>1
  <2> QED
    BY <1>2, <1>3, <1>6, <1>9, <2>1, <2>2 DEF Ran
<1> QED
  BY <1>2, <1>3, <1>5, <1>8, <1>9

\* No service is released again before its first period is over.
LEMMA FirstPeriod ==
    ASSUME ScheduleTypeInv, NEW i \in Services(set), t <= set.T[i]
    PROVE  /\ t + 1 <= set.T[i] => HasRun[i] = Runtime[i]
           /\ ~(t + 1 <= set.T[i]) /\ Pending(i) => i \in Missed
<1> DEFINE T == set.T[i]
           d == Deadline[i]
<1>1. /\ T \in Nat /\ T # 0 /\ t \in Nat /\ d \in Nat /\ d = T * Releases(i) - t
      /\ Runtime[i] \in Nat /\ set.C[i] \in Nat
  BY DEF ScheduleTypeInv, ServiceSet
<1>2. Releases(i) = 1
  <2>1. CASE t = 0
    BY <2>1 DEF Releases
  <2>2. CASE t # 0
    <3>1. CeilDiv(t, T) = 1
      <4>1. 0 < t /\ t <= T
        BY <1>1, <2>2
      <4> HIDE DEF T
      <4> QED
        BY <1>1, <4>1, CeilBounds
    <3> QED
      BY <2>2, <3>1 DEF Releases
  <2> QED
    BY <2>1, <2>2
<1>3. d = T - t
  <2>1. T * 1 = T
    BY <1>1
  <2> QED
    BY <1>1, <1>2, <2>1
<1>4. t + 1 <= T => d # 0
  <2> HIDE DEF T, d
  <2> QED
    BY <1>1, <1>3
<1>5. ~(t + 1 <= T) => d = 0
  <2>1. t <= T
    OBVIOUS
  <2> HIDE DEF T, d
  <2> QED
    BY <1>1, <1>3, <2>1
<1>6. d # 0 => HasRun[i] = Runtime[i]
  BY DEF HasRun, Expired
<1>7. d = 0 /\ Pending(i) => i \in Missed
  <2>1. Pending(i) => Runtime[i] # set.C[i]
    BY <1>1 DEF Pending
  <2> QED
    BY <2>1 DEF Missed, Expired
<1> QED
  BY <1>4, <1>5, <1>6, <1>7

\* A tick keeps it: a first run that ends does so at a time that is its own demand.
LEMMA FirstRunTick ==
    ASSUME ScheduleTypeInv, Tick, Missed = {}, protocol = "RM", NEW i \in Services(set),
           FirstRunOf(i)
    PROVE  FirstRunOf(i)'
<1> DEFINE C == set.C[i]
           T == set.T[i]
           h == HasRun[i]
           r == Runtime'[i]
           rest == Rest(i - 1)
           next == Backlog(i - 1)'
           ln == Load(set, i - 1, t + 1)
<1>1. t \in Nat /\ t' = t + 1 /\ set' = set /\ C \in Nat /\ T \in Nat /\ ServiceSet(set)
  BY TickEffect DEF ScheduleTypeInv, ServiceSet
<1>2. /\ h \in Nat /\ h <= C
      /\ i \in ServiceToRun => r = h + 1
      /\ i \notin ServiceToRun => r = h
  BY TickEffect, Released
<1>3. i \in Waiting <=> h < C
  BY WaitingServices
<1>4. Pending(i)' <=> r < C
  BY <1>1 DEF Pending
<1>5. i - 1 \in 0 .. Len(set.T) /\ rest \in Nat /\ ln \in Nat
  <2>1. i - 1 \in 0 .. Len(set.T)
    BY <1>1, DemandRule
  <2>2. t + 1 \in Nat
    BY <1>1
  <2>3. ln \in Nat
    BY <1>1, <2>1, <2>2, LoadRule
  <2>4. rest \in Nat
    BY <2>1, BacklogRule
  <2> QED
    BY <2>1, <2>3, <2>4
<1>6. /\ next \in Nat
      /\ \/ i \notin ServiceToRun /\ next = rest - 1
         \/ rest = 0 /\ next = 0 /\ ServiceToRun = {i} /\ i \in Waiting
         \/ rest = 0 /\ next = 0 /\ i \notin ServiceToRun /\ i \notin Waiting
  BY RmTick
<1>7. ASSUME t + 1 <= T
      PROVE  t <= T /\ h = Runtime[i]
  <2>1. t <= T
    BY <1>1, <1>7
  <2> QED
    BY <1>7, <2>1, FirstPeriod
<1>8. ASSUME t + 1 <= T
      PROVE  Cardinality(Ran(i)') = r
  <2>1. Cardinality(Ran(i)) = h
    BY <1>7, <1>8 DEF FirstRunOf
  <2> QED
    BY <1>2, <2>1, RanTick
<1>9. ASSUME t + 1 <= T, i \in Waiting
      PROVE  rest + t = ln + h
  <2>1. Pending(i)
    BY <1>3, <1>7, <1>9 DEF Pending
  <2>2. Backlog(i - 1) + t = Load(set, i - 1, t) + h
    BY <1>7, <1>9, <2>1 DEF FirstRunOf
  <2>3. rest + Load(set, i - 1, t) = Backlog(i - 1) + ln
    BY <1>5, RestIsBacklog
  <2>4. Backlog(i - 1) \in Nat
    BY <1>5, BacklogRule
  <2>5. Load(set, i - 1, t) \in Nat
    BY <1>1, <1>5, LoadRule
  <2> HIDE DEF rest, ln, h
  <2> QED
    BY <1>1, <1>2, <1>5, <2>2, <2>3, <2>4, <2>5
<1>10. i \notin Waiting => i \notin ServiceToRun
  BY WhoRuns
<1>11. ASSUME t + 1 <= T, r < C
       PROVE  next + (t + 1) = ln + r
  <2>1. i \in Waiting
    BY <1>2, <1>3, <1>10, <1>11
  <2>2. rest + t = ln + h
    BY <1>9, <1>11, <2>1
  <2> HIDE DEF rest, next, ln, h, r
  <2>3. CASE i \notin ServiceToRun /\ next = rest - 1
    BY <1>1, <1>2, <1>5, <2>2, <2>3
  <2>4. CASE rest = 0 /\ next = 0 /\ ServiceToRun = {i}
    BY <1>1, <1>2, <1>5, <2>2, <2>4
  <2> QED
    BY <1>6, <2>1, <2>3, <2>4
<1>12. (t + 1 <= T /\ r < C) \/ FirstRunEnded(i)'
  <2>1. CASE FirstRunEnded(i)
    <3>1. PICK c \in 1 .. t : events[c] = i /\ Demand(set, i, c) = c /\ c <= T
      BY <2>1 DEF FirstRunEnded
    <3>2. c \in 1 .. t + 1
      BY <1>1
    <3>3. events'[c] = i
      BY <3>1, RanTick
    <3> QED
      BY <1>1, <3>1, <3>2, <3>3 DEF FirstRunEnded
  <2>2. CASE ~FirstRunEnded(i)
    <3>1. t <= T /\ Pending(i)
      BY <2>2 DEF FirstRunOf
    <3>2. t + 1 <= T
      BY <3>1, FirstPeriod
    <3>3. i \in Waiting
      BY <1>3, <1>7, <3>1, <3>2 DEF Pending
    <3>4. SUFFICES ASSUME ~(r < C) PROVE FirstRunEnded(i)'
      BY <3>2
    <3>5. i \in ServiceToRun /\ r = C /\ h + 1 = C
      BY <1>1, <1>2, <1>3, <3>3, <3>4
    <3>6. rest = 0
      BY <1>6, <3>5
    <3>7. t = ln + h
      <4>1. rest + t = ln + h
        BY <1>9, <3>2, <3>3
      <4> HIDE DEF rest, ln, h
      <4> QED
        BY <1>1, <3>6, <4>1
    <3>8. Demand(set, i, t + 1) = t + 1
      <4>1. t + 1 \in Nat
        BY <1>1
      <4>2. Demand(set, i, t + 1) = C + ln
        BY <1>1, <4>1, DemandRule
      <4> HIDE DEF ln, C, h
      <4> QED
        BY <1>1, <1>2, <1>5, <3>5, <3>7, <4>2
    <3>9. events'[t + 1] = i
      BY <3>5, RanTick
    <3>10. PICK c \in 1 .. t + 1 : c = t + 1
      BY <1>1
    <3> QED
      BY <1>1, <3>2, <3>8, <3>9, <3>10 DEF FirstRunEnded
  <2> QED
    BY <2>1, <2>2
<1> QED
  BY <1>1, <1>4, <1>8, <1>11, <1>12 DEF FirstRunOf

\* The inductive invariant of the rate monotonic policy.
RmIInv == ScheduleTypeInv /\ Window /\ RmInv /\ FirstRun

\* A tick keeps it.
LEMMA RmIInvTick ==
    ASSUME RmIInv, Tick
    PROVE  RmIInv'
<1>1. ScheduleTypeInv /\ Window /\ RmInv /\ FirstRun
  BY DEF RmIInv
<1>2. ScheduleTypeInv'
  BY <1>1, TickType
<1>3. Window'
  BY <1>1, WindowStep
<1>4. RmInv'
  BY <1>1, RmStep
<1>5. FirstRun'
  <2>1. set' = set /\ protocol' = protocol /\ (misses' = 0 => misses = 0 /\ Missed = {})
    BY <1>1, TickEffect
  <2>2. SUFFICES ASSUME protocol = "RM", misses' = 0, NEW i \in Services(set)
                 PROVE  FirstRunOf(i)'
    BY <2>1 DEF FirstRun
  <2>3. FirstRunOf(i)
    BY <1>1, <2>1, <2>2 DEF FirstRun
  <2> QED
    BY <1>1, <2>1, <2>2, <2>3, FirstRunTick
<1> QED
  BY <1>2, <1>3, <1>4, <1>5 DEF RmIInv

\* It holds always.
LEMMA RmIInvTheorem == ScheduleSpec => []RmIInv
<1>1. ScheduleInit => RmIInv
  <2>1. SUFFICES ASSUME ScheduleInit PROVE RmIInv
    OBVIOUS
  <2>2. RmInv
    BY <2>1 DEF ScheduleInit, RmInv
  <2> QED
    BY <2>1, <2>2, InitType, WindowInit, FirstRunInit DEF RmIInv
<1>2. RmIInv /\ [ScheduleNext]_scheduleVars => RmIInv'
  <2>1. SUFFICES ASSUME RmIInv, [ScheduleNext]_scheduleVars PROVE RmIInv'
    OBVIOUS
  <2>2. CASE ScheduleNext
    BY <2>1, <2>2, RmIInvTick DEF ScheduleNext
  <2>3. CASE UNCHANGED scheduleVars
    <3>1. ScheduleTypeInv'
      BY <2>1, <2>3 DEF scheduleVars, ScheduleTypeInv, Releases, ServiceSet, Services, RmIInv
    <3>2. Window'
      BY <2>1, <2>3 DEF scheduleVars, Window, BusySince, Backlog, Pending, RmIInv
    <3>3. RmInv'
      BY <2>1, <2>3 DEF scheduleVars, RmInv, RmIInv
    <3>4. FirstRun'
      BY <2>1, <2>3 DEF scheduleVars, FirstRun, FirstRunOf, FirstRunEnded, Ran, Backlog, Pending, RmIInv
    <3> QED
      BY <3>1, <3>2, <3>3, <3>4 DEF RmIInv
  <2> QED
    BY <2>1, <2>2, <2>3
<1> QED
  BY <1>1, <1>2, PTL DEF ScheduleSpec

\* schedule.c counts a miss under RM exactly on the sets that completion_time_feasibility refuses,
\* whatever the services and however long the simulated time, if every period is shorter.
THEOREM RmMissesAsTestedTheorem == ScheduleSpec => []RmMissesAsTested
<1>1. ASSUME RmIInv
      PROVE  RmMissesAsTested
  <2>1. ScheduleTypeInv /\ RmInv /\ FirstRun
    BY <1>1 DEF RmIInv
  <2>2. SUFFICES ASSUME t = TICKS, protocol = "RM", Settles(set),
                        \A s \in Services(set) : set.T[s] < TICKS
                 PROVE  misses = 0 <=> CompletionFeasible(set)
    BY DEF RmMissesAsTested
  <2>3. CompletionFeasible(set) => misses = 0
    BY <2>1, <2>2 DEF RmInv
  <2>4. ASSUME misses = 0, NEW i \in Services(set)
        PROVE  CompletionTime(set, i) <= set.T[i]
    <3>1. set.T[i] \in Nat /\ t \in Nat /\ set.T[i] < t /\ ServiceSet(set)
      BY <2>1, <2>2 DEF ScheduleTypeInv, ServiceSet
    <3>2. FirstRunEnded(i)
      BY <2>1, <2>2, <2>4, <3>1 DEF FirstRun, FirstRunOf
    <3>3. PICK c \in 1 .. t : Demand(set, i, c) = c /\ c <= set.T[i]
      BY <3>2 DEF FirstRunEnded
    <3>4. c \in Nat
      BY <3>1
    <3>5. CompletionTime(set, i) \in Nat /\ CompletionTime(set, i) <= c
      BY <2>2, <3>1, <3>3, <3>4, CompletionTimeLeast
    <3> QED
      BY <3>1, <3>3, <3>4, <3>5
  <2> QED
    BY <2>3, <2>4 DEF CompletionFeasible
<1> QED
  BY <1>1, RmIInvTheorem, PTL

\* The number completion_time_feasibility settles on is the tick of schedule.c in which the first
\* run of the service ends.
THEOREM FirstRunEndsAsTestedTheorem == ScheduleSpec => []FirstRunEndsAsTested
<1>1. ASSUME RmIInv
      PROVE  FirstRunEndsAsTested
  <2>1. ScheduleTypeInv /\ RmInv /\ FirstRun
    BY <1>1 DEF RmIInv
  <2>2. SUFFICES ASSUME protocol = "RM", Settles(set), CompletionFeasible(set),
                        NEW i \in Services(set), t = CompletionTime(set, i)
                 PROVE  /\ Cardinality({k \in 1 .. t : events[k] = i}) = set.C[i]
                        /\ events[t] = i
    BY DEF FirstRunEndsAsTested
  <2> DEFINE C == set.C[i]
             r == Runtime[i]
             D == Load(set, i - 1, t)
             back == Backlog(i - 1)
  <2>3. /\ C \in Nat /\ r \in Nat /\ r <= C /\ t \in Nat /\ ServiceSet(set) /\ set.T[i] \in Nat
    BY <2>1 DEF ScheduleTypeInv, ServiceSet
  <2>4. misses = 0 /\ FirstRunOf(i)
    BY <2>1, <2>2 DEF RmInv, FirstRun
  <2>5. t <= set.T[i]
    BY <2>2 DEF CompletionFeasible
  <2>6. /\ Demand(set, i, t) = t
        /\ \A p \in Nat : Demand(set, i, p) <= p => t <= p
    BY <2>2, <2>3, CompletionTimeLeast
  <2>7. t = C + D /\ D \in Nat
    BY <2>3, <2>6, DemandRule
  <2>8. back \in Nat
    <3>1. i - 1 \in 0 .. Len(set.T)
      BY <2>3, DemandRule
    <3> QED
      BY <2>1, <3>1, BacklogRule
  <2>9. ~(r < C)
    <3>1. SUFFICES ASSUME r < C PROVE FALSE
      OBVIOUS
    <3>2. back + t = D + r
      BY <2>4, <2>5, <3>1 DEF FirstRunOf, Pending
    <3> HIDE DEF C, r, D, back
    <3> QED
      BY <2>3, <2>7, <2>8, <3>1, <3>2
  <2>10. Cardinality(Ran(i)) = C
    BY <2>3, <2>4, <2>5, <2>9 DEF FirstRunOf
  <2>11. PICK c \in 1 .. t : events[c] = i /\ Demand(set, i, c) = c
    BY <2>4, <2>9 DEF FirstRunOf, Pending, FirstRunEnded
  <2>12. c = t
    <3>1. c \in Nat /\ c <= t
      BY <2>3
    <3>2. t <= c
      BY <2>6, <2>11, <3>1
    <3> QED
      BY <2>3, <3>1, <3>2
  <2> QED
    BY <2>10, <2>11, <2>12 DEF Ran
<1> QED
  BY <1>1, RmIInvTheorem, PTL

-----------------------------------------------------------------------------
(***************************************************************************)
(* The priority inversion demonstrations.                                  *)
(***************************************************************************)

TaskPCs == {"none", "lock", "critical", "unlock", "compute", "done"}
ServicePCs == {"create L", "spin", "create H", "create M", "join H", "join M", "join L", "done"}
Entered(thread) == pc[thread] \in {"critical", "unlock", "done"}

\* Each thread is at a place of its own program.
PCsOK ==
    /\ pc \in [Threads -> TaskPCs \cup ServicePCs]
    /\ pc["service"] \in ServicePCs
    /\ pc["H"] \in TaskPCs \ {"compute"} /\ pc["L"] \in TaskPCs \ {"compute"}

\* The mutex is held by the thread in the critical section.
OwnerInv ==
    /\ owner = "L" <=> pc["L"] \in {"critical", "unlock"}
    /\ owner = "H" <=> pc["H"] \in {"critical", "unlock"}
    /\ owner \in {"H", "L", Nobody}

\* The service is past the spin loop only when L has entered.
SpinInv ==
    /\ pc["service"] = "create L" => pc["L"] = "none"
    /\ pc["service"] \in {"create L", "spin", "create H"} => pc["H"] = "none"
    /\ pc["service"] \notin {"create L", "spin"} => Entered("L")

\* CScnt counts those that have entered, and H does so after L has left.
CountInv ==
    /\ ~Entered("L") => CScnt = 0
    /\ Entered("L") /\ ~Entered("H") => CScnt = 1
    /\ Entered("H") => CScnt = 2 /\ pc["L"] = "done"

IInv == PCsOK /\ OwnerInv /\ SpinInv /\ CountInv

LEMMA RunsAt ==
    ASSUME NEW thread \in Threads, NEW at, Runs(thread, at)
    PROVE  pc[thread] = at /\ (at = "lock" => owner = Nobody)
BY DEF Runs, Ready, Sleeps

LEMMA InitIInv == Init => IInv
BY DEF Init, IInv, PCsOK, OwnerInv, SpinInv, CountInv, Entered, TaskPCs, ServicePCs, Threads, Tasks, Nobody

\* The invariant says nothing of the variables but pc, owner and CScnt.
LEMMA StutterIInv == ASSUME IInv, UNCHANGED <<pc, owner, CScnt>> PROVE IInv'
BY DEF IInv, PCsOK, OwnerInv, SpinInv, CountInv, Entered

LEMMA CreateIInv == ASSUME IInv, NEW u \in Tasks, Create(u) PROVE IInv'
<1>. USE DEF IInv, PCsOK, Threads, Tasks
<1>0. UNCHANGED <<owner, CScnt>> BY DEF Create
<1>1. pc["service"] = CreateOf[u] BY RunsAt DEF Create
<1>2. CASE u = "L"
  <2>1. pc' = [pc EXCEPT !["service"] = "spin", !["L"] = "lock"] BY <1>2 DEF Create
  <2>2. pc["service"] = "create L" BY <1>1, <1>2 DEF CreateOf
  <2>3. /\ pc'["service"] = "spin" /\ pc'["L"] = "lock" /\ pc'["H"] = pc["H"]
    BY <2>1
  <2>4. pc' \in [Threads -> TaskPCs \cup ServicePCs] BY <2>1 DEF TaskPCs, ServicePCs
  <2>. QED BY <1>0, <2>2, <2>3, <2>4 DEF OwnerInv, SpinInv, CountInv, Entered, TaskPCs, ServicePCs
<1>3. CASE u = "H"
  <2>1. pc' = [pc EXCEPT !["service"] = "create M", !["H"] = "lock"] BY <1>3 DEF Create
  <2>2. pc["service"] = "create H" BY <1>1, <1>3 DEF CreateOf
  <2>3. /\ pc'["service"] = "create M" /\ pc'["H"] = "lock" /\ pc'["L"] = pc["L"]
    BY <2>1
  <2>4. pc' \in [Threads -> TaskPCs \cup ServicePCs] BY <2>1 DEF TaskPCs, ServicePCs
  <2>. QED BY <1>0, <2>2, <2>3, <2>4 DEF OwnerInv, SpinInv, CountInv, Entered, TaskPCs, ServicePCs
<1>4. CASE u = "M"
  <2>1. PICK at \in {"done", "compute"} : pc' = [pc EXCEPT !["service"] = "join H", !["M"] = at]
    BY <1>4 DEF Create
  <2>2. pc["service"] = "create M" BY <1>1, <1>4 DEF CreateOf
  <2>3. /\ pc'["service"] = "join H" /\ pc'["L"] = pc["L"] /\ pc'["H"] = pc["H"]
    BY <2>1
  <2>4. pc' \in [Threads -> TaskPCs \cup ServicePCs] BY <2>1 DEF TaskPCs, ServicePCs
  <2>. QED BY <1>0, <2>2, <2>3, <2>4 DEF OwnerInv, SpinInv, CountInv, Entered, TaskPCs, ServicePCs
<1>. QED BY <1>2, <1>3, <1>4

LEMMA SpinIInv == ASSUME IInv, Spin PROVE IInv'
<1>1. pc["service"] = "spin" /\ UNCHANGED <<owner, CScnt>> BY RunsAt DEF Spin, Threads
<1>2. CASE CScnt < 1
  BY <1>1, <1>2, StutterIInv DEF Spin
<1>3. CASE ~(CScnt < 1)
  <2>1. pc' = [pc EXCEPT !["service"] = "create H"] BY <1>3 DEF Spin
  <2>2. CScnt # 0 BY <1>3
  <2>3. Entered("L") BY <2>2 DEF IInv, CountInv
  <2>. QED BY <1>1, <2>1, <2>3 DEF IInv, PCsOK, OwnerInv, SpinInv, CountInv, Entered, TaskPCs,
                                   ServicePCs, Threads, Tasks
<1>. QED BY <1>2, <1>3

LEMMA JoinIInv == ASSUME IInv, Join PROVE IInv'
<1>1. PICK at \in {"join H", "join M", "join L"}, next \in {"join M", "join L", "done"} :
        pc["service"] = at /\ pc' = [pc EXCEPT !["service"] = next]
  BY RunsAt DEF Join, Threads
<1>. QED BY <1>1 DEF Join, IInv, PCsOK, OwnerInv, SpinInv, CountInv, Entered, TaskPCs, ServicePCs,
                     Threads, Tasks

LEMMA ComputeIInv == ASSUME IInv, Compute PROVE IInv'
<1>1. PICK at \in {"compute", "done"} : pc' = [pc EXCEPT !["M"] = at] BY DEF Compute
<1>. QED BY <1>1 DEF Compute, IInv, PCsOK, OwnerInv, SpinInv, CountInv, Entered, TaskPCs,
                     ServicePCs, Threads, Tasks

\* L enters with no one in the critical section, H when L has left.
LEMMA EnterIInv == ASSUME IInv, NEW thread \in {"H", "L"}, Enter(thread) PROVE IInv'
<1>. USE DEF IInv, PCsOK, Threads, Tasks, Entered
<1>1. pc[thread] = "lock" /\ owner = Nobody BY RunsAt DEF Enter
<1>2. pc' = [pc EXCEPT ![thread] = "critical"] /\ owner' = thread /\ CScnt' = CScnt + 1 BY DEF Enter
<1>3. CASE thread = "L"
  <2>1. pc["H"] = "none" BY <1>1, <1>3 DEF SpinInv, ServicePCs
  <2>2. CScnt = 0 BY <1>1, <1>3 DEF CountInv
  <2>3. CScnt' = 1 BY <1>2, <2>2
  <2>. QED BY <1>1, <1>2, <1>3, <2>1, <2>3 DEF OwnerInv, SpinInv, CountInv, TaskPCs, ServicePCs
<1>4. CASE thread = "H"
  <2>1. Entered("L") BY <1>1, <1>4 DEF SpinInv
  <2>2. pc["L"] = "done" BY <1>1, <2>1 DEF OwnerInv, Nobody
  <2>3. CScnt' = 2 BY <1>1, <1>2, <1>4, <2>1 DEF CountInv
  <2>. QED BY <1>1, <1>2, <1>4, <2>2, <2>3 DEF OwnerInv, SpinInv, CountInv, TaskPCs, ServicePCs
<1>. QED BY <1>3, <1>4

LEMMA BurnIInv == ASSUME IInv, NEW thread \in {"H", "L"}, Burn(thread) PROVE IInv'
<1>1. pc[thread] = "critical" BY RunsAt DEF Burn, Threads, Tasks
<1>2. PICK at \in {"critical", "unlock"} : pc' = [pc EXCEPT ![thread] = at] BY DEF Burn
<1>3. UNCHANGED <<owner, CScnt>> BY DEF Burn
<1>. USE DEF IInv, PCsOK, Threads, Tasks, Entered
<1>4. PCsOK' BY <1>2 DEF TaskPCs, ServicePCs
<1>5. OwnerInv' BY <1>1, <1>2, <1>3 DEF OwnerInv
<1>6. SpinInv' BY <1>1, <1>2, <1>3 DEF SpinInv
<1>7. CountInv' BY <1>1, <1>2, <1>3 DEF CountInv
<1>. QED BY <1>4, <1>5, <1>6, <1>7

LEMMA LeaveIInv == ASSUME IInv, NEW thread \in {"H", "L"}, Leave(thread) PROVE IInv'
<1>1. pc[thread] = "unlock" BY RunsAt DEF Leave, Threads, Tasks
<1>. QED BY <1>1 DEF Leave, IInv, PCsOK, OwnerInv, SpinInv, CountInv, Entered, TaskPCs,
                     ServicePCs, Threads, Tasks, Nobody

LEMMA NextIInv == ASSUME IInv, [Next]_vars PROVE IInv'
<1>1. CASE Service BY <1>1, SpinIInv, JoinIInv, CreateIInv DEF Service
<1>2. CASE Compute BY <1>2, ComputeIInv
<1>3. ASSUME NEW thread \in {"H", "L"}, Critical(thread) PROVE IInv'
  BY <1>3, EnterIInv, BurnIInv, LeaveIInv DEF Critical
<1>4. CASE Ended \/ UNCHANGED vars BY <1>4, StutterIInv DEF Ended, vars
<1>. QED BY <1>1, <1>2, <1>3, <1>4 DEF Next

\* H enters the critical section of startService's demonstration only after L has left it.
THEOREM HAfterLTheorem == Spec => []HAfterL
<1>1. IInv => HAfterL BY DEF IInv, CountInv, Entered, HAfterL
<1>. QED BY <1>1, InitIInv, NextIInv, PTL DEF Spec

-----------------------------------------------------------------------------
DataOK == program \in Programs /\ runInterference \in Nat /\ idleCount \in [Tasks -> Nat]

\* Where M is tells what it has computed.
ProgressInv ==
    /\ pc["M"] \in {"none", "compute", "done"}
    /\ pc["service"] \in {"create L", "spin", "create H", "create M"} => pc["M"] = "none"
    /\ pc["M"] = "none" => idleCount["M"] = 0
    /\ pc["M"] = "compute" => idleCount["M"] < runInterference
    /\ pc["M"] = "done" => idleCount["M"] = runInterference

\* From the moment L is out of H's way M has done nothing or everything.
HeldUpInv ==
    pc["H"] \in {"lock", "critical", "unlock"} /\ owner # "L" => idleCount["M"] \in {0, runInterference}

AInv == IInv /\ DataOK /\ ProgressInv /\ HeldUpInv

\* In each of the programs M is above L and below H.
LEMMA Ranks ==
    ASSUME program \in Programs
    PROVE  Rank("L") < Rank("M") /\ Rank("M") < Rank("H") /\ Rank("L") \in Nat \ {BestEffort}
           /\ Rank("M") \in Nat \ {BestEffort} /\ Rank("H") \in Nat
<1>1. /\ TaskRanks(program)["L"] < TaskRanks(program)["M"]
      /\ TaskRanks(program)["M"] < TaskRanks(program)["H"]
      /\ TaskRanks(program)["L"] \in Nat \ {BestEffort}
      /\ TaskRanks(program)["M"] \in Nat \ {BestEffort} /\ TaskRanks(program)["H"] \in Nat
  <2>1. CASE program = "pthread3"
    BY <2>1 DEF TaskRanks, Pthread3Tasks, Pthread3Service, Max, Min, BestEffort
  <2>2. CASE program = "pthread3ok" BY <2>2 DEF TaskRanks, OkTasks, Max, BestEffort
  <2>3. CASE program = "pthread3ok_spins" BY <2>3 DEF TaskRanks, SpinsTasks, Max, BestEffort
  <2>4. CASE program = "pthread3amp" BY <2>4 DEF TaskRanks, AmpTasks, Max, Min, BestEffort
  <2>. QED BY <2>1, <2>2, <2>3, <2>4 DEF Programs
<1>. QED BY <1>1 DEF Rank

LEMMA LOnlyWithoutM == ASSUME program \in Programs, Runs("L", "unlock") PROVE ~Ready("M")
<1>1. Rank("L") # BestEffort => \A u \in Threads : Ready(u) => Rank(u) <= Rank("L") BY DEF Runs
<1>2. Rank("L") < Rank("M") /\ Rank("L") \in Nat \ {BestEffort} /\ Rank("M") \in Nat BY Ranks
<1>3. ~(Rank("M") <= Rank("L")) BY <1>2
<1>. QED BY <1>1, <1>2, <1>3 DEF Threads, Tasks

LEMMA InitAInv == Init => AInv
<1>. SUFFICES ASSUME Init PROVE AInv
  OBVIOUS
<1>1. pc["M"] = "none" /\ pc["H"] = "none" /\ idleCount["M"] = 0 BY DEF Init, Threads, Tasks
<1>2. ProgressInv /\ HeldUpInv BY <1>1 DEF ProgressInv, HeldUpInv
<1>3. runInterference \in Nat
  <2>1. Interference \in Nat /\ runInterference \in 0 .. Interference BY InversionAssumption DEF Init
  <2>. QED BY <2>1
<1>4. idleCount \in [Tasks -> Nat] BY DEF Init
<1>5. DataOK BY <1>3, <1>4 DEF Init, DataOK
<1>. QED BY <1>2, <1>5, InitIInv DEF AInv

LEMMA Positive == ASSUME NEW n \in Nat, n # 0 PROVE 0 < n
OBVIOUS

LEMMA CreateAInv == ASSUME AInv, NEW u \in Tasks, Create(u) PROVE ProgressInv' /\ HeldUpInv'
<1>. USE DEF AInv, IInv, PCsOK, DataOK, ProgressInv, HeldUpInv, Threads, Tasks
<1>0. UNCHANGED <<runInterference, owner, idleCount>> BY DEF Create
<1>1. pc["service"] = CreateOf[u] BY RunsAt DEF Create
<1>2. CASE u = "L"
  <2>1. pc' = [pc EXCEPT !["service"] = "spin", !["L"] = "lock"] BY <1>2 DEF Create
  <2>2. pc["service"] = "create L" BY <1>1, <1>2 DEF CreateOf
  <2>3. pc'["service"] = "spin" /\ pc'["M"] = pc["M"] /\ pc'["H"] = pc["H"] BY <2>1
  <2>. QED BY <1>0, <2>2, <2>3
<1>3. CASE u = "H"
  <2>1. pc' = [pc EXCEPT !["service"] = "create M", !["H"] = "lock"] BY <1>3 DEF Create
  <2>2. pc["service"] = "create H" BY <1>1, <1>3 DEF CreateOf
  <2>3. pc'["service"] = "create M" /\ pc'["M"] = pc["M"] BY <2>1
  <2>. QED BY <1>0, <2>2, <2>3
<1>4. CASE u = "M"
  <2>1. pc' = [pc EXCEPT !["service"] = "join H",
                         !["M"] = IF runInterference = 0 THEN "done" ELSE "compute"]
    BY <1>4 DEF Create
  <2>2. pc["service"] = "create M" BY <1>1, <1>4 DEF CreateOf
  <2>3. pc'["service"] = "join H" /\ pc'["M"] = IF runInterference = 0 THEN "done" ELSE "compute"
    BY <2>1
  <2>4. idleCount["M"] = 0 BY <2>2
  <2>5. CASE runInterference = 0 BY <1>0, <2>3, <2>4, <2>5
  <2>6. CASE runInterference # 0
    <3>1. idleCount'["M"] = 0 /\ 0 < runInterference' /\ runInterference' \in Nat
      <4>1. 0 < runInterference BY <2>6, Positive
      <4>. QED BY <1>0, <2>4, <4>1
    <3>2. pc'["M"] = "compute" BY <2>3, <2>6
    <3>. QED BY <2>3, <3>1, <3>2
  <2>. QED BY <2>5, <2>6
<1>. QED BY <1>2, <1>3, <1>4

LEMMA ServiceAInv == ASSUME AInv, Spin \/ Join PROVE ProgressInv' /\ HeldUpInv'
<1>. USE DEF AInv, IInv, PCsOK, DataOK, ProgressInv, HeldUpInv, Threads, Tasks
<1>1. UNCHANGED <<runInterference, owner, idleCount>> BY DEF Spin, Join
<1>2. CASE Spin
  <2>1. pc["service"] = "spin" BY <1>2, RunsAt DEF Spin
  <2>2. PICK at \in {"spin", "create H"} : pc' = [pc EXCEPT !["service"] = at] BY <1>2, <2>1 DEF Spin
  <2>. QED BY <1>1, <2>1, <2>2
<1>3. CASE Join
  <2>1. PICK at \in {"join M", "join L", "done"} : pc' = [pc EXCEPT !["service"] = at]
    BY <1>3 DEF Join
  <2>. QED BY <1>1, <2>1
<1>. QED BY <1>2, <1>3

\* M runs only when H sleeps on the mutex L holds, or is not there.
LEMMA ComputeAInv == ASSUME AInv, Compute PROVE ProgressInv' /\ HeldUpInv'
<1>. USE DEF AInv, IInv, PCsOK, DataOK, Threads, Tasks
<1>1. pc["M"] = "compute" BY RunsAt DEF Compute
<1>2. ~Ready("H")
  BY Ranks DEF Compute, Runs
<1>3. pc["H"] \in {"none", "done"} \/ owner = "L"
  BY <1>2, RunsAt DEF Ready, Sleeps, OwnerInv, Nobody, TaskPCs
<1>4. idleCount'["M"] = idleCount["M"] + 1 BY DEF Compute
<1>5. UNCHANGED <<runInterference, owner>> BY DEF Compute
<1>6. CASE idleCount["M"] + 1 < runInterference
  <2>1. pc' = [pc EXCEPT !["M"] = "compute"] BY <1>4, <1>6 DEF Compute
  <2>. QED BY <1>1, <1>3, <1>4, <1>5, <1>6, <2>1 DEF ProgressInv, HeldUpInv, ServicePCs
<1>7. CASE ~(idleCount["M"] + 1 < runInterference)
  <2>1. pc' = [pc EXCEPT !["M"] = "done"] BY <1>4, <1>7 DEF Compute
  <2>2. idleCount["M"] < runInterference BY <1>1 DEF ProgressInv
  <2>3. idleCount'["M"] = runInterference BY <1>4, <1>7, <2>2
  <2>. QED BY <1>1, <1>3, <1>5, <2>1, <2>3 DEF ProgressInv, HeldUpInv, ServicePCs
<1>. QED BY <1>6, <1>7

LEMMA EnterAInv == ASSUME AInv, NEW thread \in {"H", "L"}, Enter(thread) PROVE ProgressInv' /\ HeldUpInv'
<1>. USE DEF AInv, IInv, PCsOK, DataOK, ProgressInv, HeldUpInv, Threads, Tasks
<1>1. pc[thread] = "lock" /\ owner = Nobody BY RunsAt DEF Enter
<1>2. pc' = [pc EXCEPT ![thread] = "critical"] /\ owner' = thread BY DEF Enter
<1>3. idleCount'["M"] = idleCount["M"] /\ runInterference' = runInterference BY DEF Enter
<1>4. CASE thread = "L" BY <1>1, <1>2, <1>3, <1>4 DEF ServicePCs
<1>5. CASE thread = "H" BY <1>1, <1>2, <1>3, <1>5 DEF ServicePCs, Nobody
<1>. QED BY <1>4, <1>5

LEMMA BurnAInv == ASSUME AInv, NEW thread \in {"H", "L"}, Burn(thread) PROVE ProgressInv' /\ HeldUpInv'
<1>. USE DEF AInv, IInv, PCsOK, DataOK, ProgressInv, HeldUpInv, Threads, Tasks
<1>1. pc[thread] = "critical" BY RunsAt DEF Burn
<1>2. PICK at \in {"critical", "unlock"} : pc' = [pc EXCEPT ![thread] = at] BY DEF Burn
<1>3. idleCount'["M"] = idleCount["M"] /\ UNCHANGED <<runInterference, owner>> BY DEF Burn
<1>. QED BY <1>1, <1>2, <1>3

\* When L unlocks, M is not ready: it has not been created or it is done.
LEMMA LeaveAInv == ASSUME AInv, NEW thread \in {"H", "L"}, Leave(thread) PROVE ProgressInv' /\ HeldUpInv'
<1>. USE DEF AInv, IInv, PCsOK, DataOK, ProgressInv, HeldUpInv, Threads, Tasks
<1>1. pc[thread] = "unlock" BY RunsAt DEF Leave
<1>2. pc' = [pc EXCEPT ![thread] = "done"] /\ owner' = Nobody BY DEF Leave
<1>3. UNCHANGED <<runInterference, idleCount>> BY DEF Leave
<1>4. CASE thread = "L"
  <2>1. ~Ready("M") BY <1>4, LOnlyWithoutM DEF Leave
  <2>2. pc["M"] \in {"none", "done"} BY <2>1 DEF Ready, Sleeps
  <2>. QED BY <1>1, <1>2, <1>3, <1>4, <2>2
<1>5. CASE thread = "H"
  <2>1. pc'["H"] = "done" /\ pc'["M"] = pc["M"] /\ pc'["service"] = pc["service"] BY <1>2, <1>5
  <2>2. ProgressInv' BY <1>3, <2>1
  <2>3. HeldUpInv' BY <2>1
  <2>. QED BY <2>2, <2>3
<1>. QED BY <1>4, <1>5

LEMMA NextAInv == ASSUME AInv, [Next]_vars PROVE AInv'
<1>1. IInv' BY NextIInv DEF AInv
<1>2. DataOK'
  <2>. USE DEF AInv, DataOK, Tasks
  <2>1. CASE Service BY <2>1 DEF Service, Spin, Join, Create
  <2>2. CASE Compute BY <2>2 DEF Compute
  <2>3. ASSUME NEW thread \in {"H", "L"}, Critical(thread) PROVE DataOK'
    <3>1. CASE Enter(thread) BY <3>1 DEF Enter
    <3>2. CASE Burn(thread) \/ Leave(thread) BY <3>2 DEF Burn, Leave
    <3>. QED BY <2>3, <3>1, <3>2 DEF Critical
  <2>4. CASE Ended \/ UNCHANGED vars BY <2>4 DEF Ended, vars
  <2>. QED BY <2>1, <2>2, <2>3, <2>4 DEF Next
<1>3. CASE Service BY <1>1, <1>2, <1>3, CreateAInv, ServiceAInv DEF Service, AInv
<1>4. CASE Compute BY <1>1, <1>2, <1>4, ComputeAInv DEF AInv
<1>5. ASSUME NEW thread \in {"H", "L"}, Critical(thread) PROVE AInv'
  BY <1>1, <1>2, <1>5, EnterAInv, BurnAInv, LeaveAInv DEF Critical, AInv
<1>6. CASE Ended \/ UNCHANGED vars
  BY <1>1, <1>2, <1>6 DEF Ended, vars, AInv, ProgressInv, HeldUpInv
<1>. QED BY <1>3, <1>4, <1>5, <1>6 DEF Next

\* H is kept waiting for the whole of M's computation or for none of it, in every program and
\* for every amount of interference.
THEOREM AllOrNothingTheorem == Spec => []AllOrNothing
<1>1. AInv => AllOrNothing BY DEF AInv, IInv, OwnerInv, HeldUpInv, AllOrNothing
<1>. QED BY <1>1, InitAInv, NextAInv, PTL DEF Spec
=============================================================================
