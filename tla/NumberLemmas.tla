----------------------------- MODULE NumberLemmas -----------------------------
(***************************************************************************)
(* What the proofs of several components need to know of numbers and       *)
(* finite sets: least and greatest elements, inductions up to a bound and  *)
(* over the subsets of a finite set, powers of two, quotients and          *)
(* remainders by them, equality modulo a number, running sums, recursive   *)
(* functions, and what the folds and sums of the community modules         *)
(* compute.                                                                *)
(***************************************************************************)
EXTENDS Integers, FiniteSets, FiniteSetTheorems, WellFoundedInduction, TLAPS

-------------------------------------------------------------------------------
(* Least and greatest elements *)

(* A set of naturals that is not empty has a least element.  An induction argues by
   the least number without the property. *)
LEMMA LeastNat ==
  ASSUME NEW T \in SUBSET Nat, T # {}
  PROVE  \E m \in T : \A j \in T : m <= j
<1> DEFINE R == OpToRel(<, Nat)
<1>1. IsWellFoundedOn(R, Nat)
  BY NatLessThanWellFounded
<1>2. R = {ss \in Nat \X Nat : ss[1] < ss[2]}
  BY DEF OpToRel
<1>3. \A x, y \in Nat : <<x, y>> \in R <=> x < y
  BY <1>2
<1> HIDE DEF R
<1>4. \E x \in T : \A y \in T : ~(<<y, x>> \in R)
  BY <1>1, WFMin
<1>5. PICK m \in T : \A j \in T : ~(<<j, m>> \in R)
  BY <1>4
<1>6. m \in Nat /\ \A j \in T : j \in Nat
  OBVIOUS
<1>7. \A j \in T : ~(j < m)
  BY <1>3, <1>5, <1>6
<1> QED
  BY <1>6, <1>7

(* A set of naturals below a bound has a greatest element. *)
LEMMA GreatestNat ==
  ASSUME NEW N \in Nat, NEW W, W \subseteq 0..N, W # {}
  PROVE  \E m \in W : \A j \in W : j <= m
<1>1. \A j \in W : j \in 0..N /\ N - j \in Nat
  OBVIOUS
<1>2. PICK T : T = {N - j : j \in W}
  OBVIOUS
<1>3. T \in SUBSET Nat /\ T # {}
  BY <1>1, <1>2
<1>4. PICK x \in T : \A y \in T : x <= y
  BY <1>3, LeastNat
<1>5. PICK m \in W : x = N - m
  BY <1>2
<1>6. \A j \in W : N - m <= N - j
  BY <1>2, <1>4, <1>5
<1> QED
  BY <1>1, <1>6

(* Induction up to a bound, for the set of the numbers that have a property. *)
LEMMA InductionTo ==
  ASSUME NEW l \in Nat, NEW S, 0 \in S, \A j \in 1..l : j - 1 \in S => j \in S
  PROVE  \A j \in 0..l : j \in S
<1>1. PICK T : T = {j \in 0..l : j \notin S}
  OBVIOUS
<1> SUFFICES ASSUME T # {} PROVE FALSE
  BY <1>1
<1>2. T \in SUBSET Nat
  BY <1>1
<1>3. PICK m \in T : \A j \in T : m <= j
  BY <1>2, LeastNat
<1>4. m \in 1..l /\ m \notin S
  BY <1>1, <1>3
<1>5. m - 1 \in 0..l /\ ~(m <= m - 1)
  BY <1>4
<1>6. m - 1 \notin T
  BY <1>3, <1>5
<1>7. m - 1 \in S
  BY <1>1, <1>5, <1>6
<1> QED
  BY <1>4, <1>7

(* r is a function on 0..n with r[0] = 0 and r[j] = a * r[j - 1] + g[j]. *)
IsLinear(r, n, a, g) ==
  /\ r \in [0..n -> Nat]
  /\ r[0] = 0
  /\ \A j \in 1..n : r[j] = a * r[j - 1] + g[j]

(* There is such a function. *)
LEMMA LinearExists ==
  ASSUME NEW a \in Nat, NEW l \in Nat, NEW g \in [1..l -> Nat]
  PROVE  \E r : IsLinear(r, l, a, g)
<1>1. PICK S : S = {n \in 0..l : \E r : IsLinear(r, n, a, g)}
  OBVIOUS
<1>2. 0 \in S
  <2>1. PICK z : z = [j \in 0..0 |-> 0]
    OBVIOUS
  <2>2. IsLinear(z, 0, a, g)
    BY <2>1 DEF IsLinear
  <2> QED
    BY <1>1, <2>2
<1>3. ASSUME NEW n \in 1..l, n - 1 \in S
      PROVE  n \in S
  <2>1. PICK r : IsLinear(r, n - 1, a, g)
    BY <1>1, <1>3
  <2>2. /\ r \in [0..(n - 1) -> Nat] /\ r[0] = 0
        /\ \A j \in 1..(n - 1) : r[j] = a * r[j - 1] + g[j]
    BY <2>1 DEF IsLinear
  <2>3. PICK top \in Nat : top = a * r[n - 1] + g[n]
    <3>1. r[n - 1] \in Nat /\ g[n] \in Nat
      BY <2>2
    <3>2. a * r[n - 1] \in Nat
      BY <3>1
    <3> QED
      BY <3>1, <3>2
  <2>4. PICK s : s = [j \in 0..n |-> IF j = n THEN top ELSE r[j]]
    OBVIOUS
  <2>5. s \in [0..n -> Nat]
    BY <2>2, <2>4
  <2>6. s[n] = top /\ \A j \in 0..(n - 1) : s[j] = r[j]
    BY <2>4
  <2>7. ASSUME NEW j \in 1..n
        PROVE  s[j] = a * s[j - 1] + g[j]
    <3>1. CASE j = n
      BY <2>3, <2>6, <3>1
    <3>2. CASE j # n
      <4>1. j \in 1..(n - 1) /\ j \in 0..(n - 1) /\ j - 1 \in 0..(n - 1)
        BY <3>2
      <4>2. s[j] = r[j] /\ s[j - 1] = r[j - 1]
        BY <2>6, <4>1
      <4>3. r[j] = a * r[j - 1] + g[j]
        BY <2>2, <4>1
      <4> QED
        BY <4>2, <4>3, Zenon
    <3> QED
      BY <3>1, <3>2
  <2>8. s[0] = 0
    BY <2>2, <2>6
  <2>9. IsLinear(s, n, a, g)
    BY <2>5, <2>7, <2>8 DEF IsLinear
  <2> QED
    BY <1>1, <2>9
<1>4. l \in S
  <2>1. \A j \in 0..l : j \in S
    BY <1>2, <1>3, InductionTo
  <2> QED
    BY <2>1
<1> QED
  BY <1>1, <1>4

(* A finite set with at least n elements has a subset of exactly n. *)
LEMMA SubsetOfSize ==
  ASSUME NEW S, IsFiniteSet(S), NEW n \in Nat, n <= Cardinality(S)
  PROVE  \E T \in SUBSET S : Cardinality(T) = n
<1>1. Cardinality(S) \in Nat /\ ExistsBijection(1..Cardinality(S), S)
  BY FS_CardinalityType
<1>2. PICK f : f \in Bijection(1..Cardinality(S), S)
  BY <1>1 DEF ExistsBijection
<1>3. /\ f \in [1..Cardinality(S) -> S]
      /\ \A a, b \in 1..Cardinality(S) : f[a] = f[b] => a = b
  BY <1>2 DEF Bijection, Injection, IsInjective
<1>4. 1..n \subseteq 1..Cardinality(S)
  BY <1>1
<1>5. PICK T : T = {f[a] : a \in 1..n}
  OBVIOUS
<1>6. T \subseteq S
  BY <1>3, <1>4, <1>5
<1>7. PICK g : g = [a \in 1..n |-> f[a]]
  OBVIOUS
<1>8. g \in Bijection(1..n, T)
  <2>1. g \in [1..n -> T]
    BY <1>5, <1>7
  <2>2. \A a, b \in 1..n : g[a] = g[b] => a = b
    BY <1>3, <1>4, <1>7
  <2>3. \A t \in T : \E a \in 1..n : g[a] = t
    BY <1>5, <1>7
  <2> QED
    BY <2>1, <2>2, <2>3 DEF Bijection, Injection, IsInjective, Surjection
<1>9. IsFiniteSet(1..n) /\ Cardinality(1..n) = n
  <2>1. IsFiniteSet(1..n) /\ Cardinality(1..n) = IF 1 > n THEN 0 ELSE n - 1 + 1
    BY FS_Interval
  <2> QED
    BY <2>1
<1>10. Cardinality(T) = n
  BY <1>8, <1>9, FS_Bijection DEF ExistsBijection
<1> QED
  BY <1>6, <1>10

-------------------------------------------------------------------------------
(* Powers of two *)

(* The subsets of a set of n elements number 2^n. *)
LEMMA PowerCounts ==
  ASSUME NEW n \in Nat
  PROVE  /\ IsFiniteSet(SUBSET (1..n))
         /\ Cardinality(SUBSET (1..n)) = 2^n
         /\ 2^n \in Nat
<1>1. IsFiniteSet(1..n) /\ Cardinality(1..n) = n
  BY FS_Interval
<1>2. IsFiniteSet(SUBSET (1..n)) /\ Cardinality(SUBSET (1..n)) = 2^n
  BY <1>1, FS_SUBSET
<1> QED BY <1>2, FS_CardinalityType

(* A level of a tree has twice the nodes of the one above it: half of the subsets of
   1..n+1 have n+1 in them. *)
LEMMA PowerDoubles ==
  ASSUME NEW n \in Nat
  PROVE  2^(n + 1) = 2^n + 2^n
<1> DEFINE A == SUBSET (1..n)
           B == {s \cup {n + 1} : s \in A}
           f == [s \in A |-> s \cup {n + 1}]
<1>1. IsFiniteSet(A) /\ Cardinality(A) = 2^n /\ 2^n \in Nat
  BY PowerCounts
<1>2. Cardinality(SUBSET (1..(n + 1))) = 2^(n + 1)
  BY PowerCounts
<1>3. SUBSET (1..(n + 1)) = A \cup B
  <2>1. \A s \in A : s \in SUBSET (1..(n + 1)) /\ s \cup {n + 1} \in SUBSET (1..(n + 1))
    OBVIOUS
  <2>2. ASSUME NEW s \in SUBSET (1..(n + 1)) PROVE s \in A \cup B
    <3>1. s \ {n + 1} \in A
      OBVIOUS
    <3>2. n + 1 \in s => s = (s \ {n + 1}) \cup {n + 1}
      OBVIOUS
    <3>3. n + 1 \notin s => s = s \ {n + 1}
      OBVIOUS
    <3> QED BY <3>1, <3>2, <3>3
  <2>3. ASSUME NEW s \in A \cup B PROVE s \in SUBSET (1..(n + 1))
    BY <2>1
  <2> HIDE DEF A, B
  <2> QED BY <2>2, <2>3
<1>4. A \cap B = {}
  OBVIOUS
<1>5. ExistsBijection(A, B)
  <2>1. \A s, r \in A : s \cup {n + 1} = r \cup {n + 1} => s = r
    <3> SUFFICES ASSUME NEW s \in A, NEW r \in A, s \cup {n + 1} = r \cup {n + 1}
                 PROVE  s = r
      OBVIOUS
    <3>1. n + 1 \notin s /\ n + 1 \notin r
      OBVIOUS
    <3> QED BY <3>1
  <2>2. f \in [A -> B]
    OBVIOUS
  <2>3. \A s, r \in A : f[s] = f[r] => s = r
    BY <2>1
  <2>4. \A b \in B : \E s \in A : f[s] = b
    OBVIOUS
  <2> HIDE DEF f, A, B
  <2>5. f \in Bijection(A, B)
    BY <2>2, <2>3, <2>4 DEF Bijection, Injection, Surjection, IsInjective
  <2> QED BY <2>5 DEF ExistsBijection
<1> HIDE DEF A, B
<1>6. IsFiniteSet(B) /\ Cardinality(B) = 2^n
  BY <1>1, <1>5, FS_Bijection
<1>7. Cardinality(A \cup B) = Cardinality(A) + Cardinality(B) - Cardinality(A \cap B)
  BY <1>1, <1>6, FS_Union
<1>8. Cardinality({}) = 0
  BY FS_EmptySet
<1> HIDE DEF f
<1>9. Cardinality(A \cup B) = 2^n + 2^n - 0
  BY <1>1, <1>4, <1>6, <1>7, <1>8
<1>10. 2^(n + 1) = 2^n + 2^n - 0
  BY <1>2, <1>3, <1>9
<1> QED BY <1>1, <1>10

(* Powers of two do not decrease. *)
LEMMA PowerMonotone ==
  ASSUME NEW m \in Nat, NEW n \in Nat, m <= n
  PROVE  2^m <= 2^n
<1>1. SUBSET (1..m) \in SUBSET (SUBSET (1..n))
  OBVIOUS
<1>2. Cardinality(SUBSET (1..m)) <= Cardinality(SUBSET (1..n))
  BY <1>1, PowerCounts, FS_Subset
<1> QED BY <1>2, PowerCounts

(* A power of two is positive. *)
LEMMA PowerPositive ==
  ASSUME NEW n \in Nat
  PROVE  2^n \in Nat /\ 2^n >= 1
<1>1. {} \in SUBSET (1..n)
  OBVIOUS
<1>2. Cardinality(SUBSET (1..n)) # 0
  BY <1>1, PowerCounts, FS_EmptySet
<1>3. Cardinality(SUBSET (1..n)) = 2^n /\ 2^n \in Nat
  BY PowerCounts
<1> QED BY <1>2, <1>3

LEMMA PowerZero == 2^0 = 1
<1>1. Cardinality(SUBSET (1..0)) = 2^0
  BY PowerCounts
<1>2. SUBSET (1..0) = {{}}
  OBVIOUS
<1>3. Cardinality({{}}) = 1
  BY FS_Singleton
<1> QED
  BY <1>1, <1>2, <1>3

(* Exponents add. *)
LEMMA PowerSum ==
  ASSUME NEW m \in Nat, NEW n \in Nat
  PROVE  2^(m + n) = 2^m * 2^n
<1>1. PICK S : S = {j \in Nat : 2^(m + j) = 2^m * 2^j}
  OBVIOUS
<1>2. PICK a \in Nat : a = 2^m
  BY PowerPositive
<1>3. 0 \in S
  <2>1. m + 0 = m /\ a * 1 = a
    OBVIOUS
  <2> QED
    BY <1>1, <1>2, <2>1, PowerZero
<1>4. ASSUME NEW j \in 1..n, j - 1 \in S
      PROVE  j \in S
  <2>1. PICK i \in Nat : i = j - 1
    OBVIOUS
  <2>2. j = i + 1 /\ m + j = (m + i) + 1 /\ m + i \in Nat /\ j \in Nat
    BY <2>1
  <2>3. PICK b \in Nat : b = 2^i
    BY PowerPositive
  <2>4. 2^(m + i) = a * b
    BY <1>1, <1>2, <1>4, <2>1, <2>3
  <2>5. 2^((m + i) + 1) = 2^(m + i) + 2^(m + i) /\ 2^(i + 1) = 2^i + 2^i
    BY <2>2, PowerDoubles
  <2>6. a * (b + b) = a * b + a * b
    OBVIOUS
  <2>7. 2^(m + j) = a * b + a * b
    BY <2>2, <2>4, <2>5
  <2>8. 2^j = b + b
    BY <2>2, <2>3, <2>5
  <2>9. 2^(m + j) = 2^m * 2^j
    BY <1>2, <2>6, <2>7, <2>8
  <2> QED
    BY <1>1, <2>2, <2>9
<1>5. \A j \in 0..n : j \in S
  BY <1>3, <1>4, InductionTo
<1> QED
  BY <1>1, <1>5

-------------------------------------------------------------------------------
(* Quotients and remainders *)

(* The quotient and the remainder multiply out. *)
LEMMA DivMod ==
  ASSUME NEW x \in Nat, NEW m \in Nat, m > 0
  PROVE  /\ x \div m \in Nat /\ x % m \in Nat /\ x % m < m
         /\ x = m * (x \div m) + (x % m)
  OBVIOUS

(* Only they do. *)
LEMMA DivModUnique ==
  ASSUME NEW x \in Nat, NEW m \in Nat, m > 0, NEW q \in Nat, NEW s \in Nat, s < m,
         x = m * q + s
  PROVE  x \div m = q /\ x % m = s
<1>1. PICK d \in Nat, r \in Nat : d = x \div m /\ r = x % m /\ r < m /\ x = m * d + r
  BY DivMod
<1>2. ~(d < q)
  <2> SUFFICES ASSUME d + 1 <= q PROVE FALSE
    BY <1>1
  <2>1. m * (d + 1) <= m * q
    OBVIOUS
  <2>2. m * (d + 1) = m * d + m
    OBVIOUS
  <2> QED
    BY <1>1, <2>1, <2>2
<1>3. ~(q < d)
  <2> SUFFICES ASSUME q + 1 <= d PROVE FALSE
    BY <1>1
  <2>1. m * (q + 1) <= m * d
    OBVIOUS
  <2>2. m * (q + 1) = m * q + m
    OBVIOUS
  <2> QED
    BY <1>1, <2>1, <2>2
<1>4. d = q
  BY <1>2, <1>3
<1> QED
  BY <1>1, <1>4

(* One more bit: dividing by twice as much, and what the remainder gains. *)
LEMMA DivModDouble ==
  ASSUME NEW x \in Nat, NEW p \in Nat, p > 0
  PROVE  /\ x \div (p + p) = (x \div p) \div 2
         /\ x % (p + p) = (x % p) + p * ((x \div p) % 2)
<1>1. PICK q \in Nat, s \in Nat : q = x \div p /\ s = x % p /\ s < p /\ x = p * q + s
  BY DivMod
<1>2. PICK h \in Nat, t \in {0, 1} : h = q \div 2 /\ t = q % 2 /\ q = 2 * h + t
  OBVIOUS
<1>3. p * q = (p + p) * h + p * t
  BY <1>2
<1>4. p * t \in Nat /\ p * t <= p
  BY <1>2
<1>5. x = (p + p) * h + (p * t + s) /\ p * t + s \in Nat /\ p * t + s < p + p
  <2>1. (p + p) * h \in Nat
    OBVIOUS
  <2> QED
    BY <1>1, <1>3, <1>4, <2>1
<1>6. p + p \in Nat /\ p + p > 0
  OBVIOUS
<1>7. x \div (p + p) = h /\ x % (p + p) = p * t + s
  BY <1>5, <1>6, DivModUnique
<1> QED
  BY <1>1, <1>2, <1>4, <1>7

-------------------------------------------------------------------------------
(* Sums over finite sets, as the folds of the library take them: F has the sum of g
   over every subset of S, one chosen element after another. *)

SumElement(s) == CHOOSE x \in s : TRUE
SumTerm(F, g, s) == IF s = {} THEN 0 ELSE g[SumElement(s)] + F[s \ {SumElement(s)}]
SumStep(F, g, S) == F = [s \in SUBSET S |-> SumTerm(F, g, s)]
SumOver(g, S) == (CHOOSE F : SumStep(F, g, S))[S]

SubsetsUpTo(S, n) == {s \in SUBSET S : Cardinality(s) <= n}

LEMMA ElementRemoved ==
  ASSUME NEW S, IsFiniteSet(S), NEW s \in SUBSET S, s # {}
  PROVE  /\ SumElement(s) \in s /\ s \ {SumElement(s)} \in SUBSET S
         /\ IsFiniteSet(s) /\ Cardinality(s) \in Nat /\ Cardinality(s) >= 1
         /\ Cardinality(s \ {SumElement(s)}) = Cardinality(s) - 1
<1>1. SumElement(s) \in s
  BY DEF SumElement
<1>2. IsFiniteSet(s)
  BY FS_Subset
<1>3. Cardinality(s) \in Nat /\ Cardinality(s) # 0
  BY <1>2, FS_CardinalityType, FS_EmptySet
<1>4. Cardinality(s \ {SumElement(s)}) = Cardinality(s) - 1
  BY <1>1, <1>2, FS_RemoveElement
<1> QED
  BY <1>1, <1>2, <1>3, <1>4

(* There is such a function. *)
LEMMA SumExists ==
  ASSUME NEW S, IsFiniteSet(S), NEW g \in [S -> Int]
  PROVE  \E F \in [SUBSET S -> Int] : SumStep(F, g, S)
<1>1. PICK N \in Nat : N = Cardinality(S)
  BY FS_CardinalityType
<1>2. PICK T : T = {n \in 0..N : \E H \in [SubsetsUpTo(S, n) -> Int] :
                                   \A s \in SubsetsUpTo(S, n) : H[s] = SumTerm(H, g, s)}
  OBVIOUS
<1>3. 0 \in T
  <2>1. PICK H : H = [s \in SubsetsUpTo(S, 0) |-> 0]
    OBVIOUS
  <2>2. ASSUME NEW s \in SubsetsUpTo(S, 0) PROVE s = {}
    <3> SUFFICES ASSUME s # {} PROVE FALSE
      OBVIOUS
    <3>1. s \in SUBSET S /\ Cardinality(s) <= 0
      BY DEF SubsetsUpTo
    <3>2. Cardinality(s) \in Nat /\ Cardinality(s) >= 1
      BY <3>1, ElementRemoved
    <3> QED
      BY <3>1, <3>2
  <2>3. H \in [SubsetsUpTo(S, 0) -> Int]
    BY <2>1
  <2>4. \A s \in SubsetsUpTo(S, 0) : H[s] = SumTerm(H, g, s)
    BY <2>1, <2>2 DEF SumTerm
  <2>5. 0 \in 0..N
    BY <1>1
  <2> QED
    BY <1>2, <2>3, <2>4, <2>5
<1>4. ASSUME NEW n \in 1..N, n - 1 \in T PROVE n \in T
  <2>1. PICK H \in [SubsetsUpTo(S, n - 1) -> Int] :
          \A s \in SubsetsUpTo(S, n - 1) : H[s] = SumTerm(H, g, s)
    BY <1>2, <1>4
  <2>2. PICK F : F = [s \in SubsetsUpTo(S, n) |-> SumTerm(H, g, s)]
    OBVIOUS
  <2>3. ASSUME NEW s \in SubsetsUpTo(S, n), s # {}
        PROVE  /\ s \ {SumElement(s)} \in SubsetsUpTo(S, n - 1) /\ SumElement(s) \in S
    <3>1. s \in SUBSET S /\ Cardinality(s) <= n
      BY DEF SubsetsUpTo
    <3>2. /\ SumElement(s) \in s /\ s \ {SumElement(s)} \in SUBSET S /\ Cardinality(s) \in Nat
          /\ Cardinality(s \ {SumElement(s)}) = Cardinality(s) - 1
      BY <2>3, <3>1, ElementRemoved
    <3>3. Cardinality(s \ {SumElement(s)}) <= n - 1
      BY <1>4, <3>1, <3>2
    <3> QED
      BY <3>1, <3>2, <3>3 DEF SubsetsUpTo
  <2>4. F \in [SubsetsUpTo(S, n) -> Int]
    <3>1. ASSUME NEW s \in SubsetsUpTo(S, n) PROVE SumTerm(H, g, s) \in Int
      <4>1. CASE s = {}
        BY <4>1 DEF SumTerm
      <4>2. CASE s # {}
        <5>1. g[SumElement(s)] \in Int /\ H[s \ {SumElement(s)}] \in Int
          BY <2>1, <2>3, <4>2
        <5> QED
          BY <4>2, <5>1 DEF SumTerm
      <4> QED
        BY <4>1, <4>2
    <3> QED
      BY <2>2, <3>1
  <2>5. ASSUME NEW s \in SubsetsUpTo(S, n - 1) PROVE F[s] = H[s] /\ s \in SubsetsUpTo(S, n)
    <3>1. s \in SUBSET S /\ Cardinality(s) <= n - 1
      BY DEF SubsetsUpTo
    <3>2. Cardinality(s) \in Nat
      <4>1. IsFiniteSet(s)
        BY <3>1, FS_Subset
      <4> QED
        BY <4>1, FS_CardinalityType
    <3>3. Cardinality(s) <= n
      BY <1>4, <3>1, <3>2
    <3>4. s \in SubsetsUpTo(S, n)
      BY <3>1, <3>3 DEF SubsetsUpTo
    <3> QED
      BY <2>1, <2>2, <3>4
  <2>6. ASSUME NEW s \in SubsetsUpTo(S, n) PROVE F[s] = SumTerm(F, g, s)
    <3>1. CASE s = {}
      BY <2>2, <3>1 DEF SumTerm
    <3>2. CASE s # {}
      <4>1. F[s \ {SumElement(s)}] = H[s \ {SumElement(s)}]
        BY <2>3, <2>5, <3>2
      <4> QED
        BY <2>2, <3>2, <4>1 DEF SumTerm
    <3> QED
      BY <3>1, <3>2
  <2>7. n \in 0..N
    BY <1>4
  <2> QED
    BY <1>2, <2>4, <2>6, <2>7
<1>5. \A n \in 0..N : n \in T
  BY <1>1, <1>3, <1>4, InductionTo
<1>6. PICK F \in [SubsetsUpTo(S, N) -> Int] : \A s \in SubsetsUpTo(S, N) : F[s] = SumTerm(F, g, s)
  BY <1>1, <1>2, <1>5
<1>7. SubsetsUpTo(S, N) = SUBSET S
  <2>1. ASSUME NEW s \in SUBSET S PROVE Cardinality(s) <= N
    BY <1>1, FS_Subset
  <2> QED
    BY <2>1 DEF SubsetsUpTo
<1>8. F = [s \in SUBSET S |-> F[s]] /\ \A s \in SUBSET S : F[s] = SumTerm(F, g, s)
  BY <1>6, <1>7
<1>9. SumStep(F, g, S)
  BY <1>8 DEF SumStep
<1> QED
  BY <1>6, <1>7, <1>9

LEMMA SumStepIs ==
  ASSUME NEW S, NEW g, NEW F, SumStep(F, g, S)
  PROVE  \A s \in SUBSET S : F[s] = SumTerm(F, g, s)
BY DEF SumStep

(* Only one: so SumOver is the value of any of them. *)
LEMMA SumUnique ==
  ASSUME NEW S, IsFiniteSet(S), NEW g \in [S -> Int], NEW F, NEW G, SumStep(F, g, S), SumStep(G, g, S)
  PROVE  \A s \in SUBSET S : F[s] = G[s]
<1>1. PICK N \in Nat : N = Cardinality(S)
  BY FS_CardinalityType
<1>2. PICK T : T = {n \in 0..N : \A s \in SubsetsUpTo(S, n) : F[s] = G[s]}
  OBVIOUS
<1>3. ASSUME NEW s \in SUBSET S, s = {} PROVE F[s] = G[s]
  BY <1>3, SumStepIs DEF SumTerm
<1>4. 0 \in T
  <2>1. ASSUME NEW s \in SubsetsUpTo(S, 0) PROVE F[s] = G[s]
    <3>1. s \in SUBSET S /\ Cardinality(s) <= 0
      BY DEF SubsetsUpTo
    <3>2. s = {}
      <4> SUFFICES ASSUME s # {} PROVE FALSE
        OBVIOUS
      <4>1. Cardinality(s) \in Nat /\ Cardinality(s) >= 1
        BY <3>1, ElementRemoved
      <4> QED
        BY <3>1, <4>1
    <3> QED
      BY <1>3, <3>1, <3>2
  <2>2. 0 \in 0..N
    BY <1>1
  <2> QED
    BY <1>2, <2>1, <2>2
<1>5. ASSUME NEW n \in 1..N, n - 1 \in T PROVE n \in T
  <2>1. \A s \in SubsetsUpTo(S, n - 1) : F[s] = G[s]
    BY <1>2, <1>5
  <2>2. ASSUME NEW s \in SubsetsUpTo(S, n) PROVE F[s] = G[s]
    <3>1. s \in SUBSET S /\ Cardinality(s) <= n
      BY DEF SubsetsUpTo
    <3>2. CASE s = {}
      BY <1>3, <3>1, <3>2
    <3>3. CASE s # {}
      <4>1. /\ s \ {SumElement(s)} \in SUBSET S /\ Cardinality(s) \in Nat
            /\ Cardinality(s \ {SumElement(s)}) = Cardinality(s) - 1
        BY <3>1, <3>3, ElementRemoved
      <4>2. Cardinality(s \ {SumElement(s)}) <= n - 1
        BY <1>5, <3>1, <4>1
      <4>3. s \ {SumElement(s)} \in SubsetsUpTo(S, n - 1)
        BY <4>1, <4>2 DEF SubsetsUpTo
      <4>4. F[s \ {SumElement(s)}] = G[s \ {SumElement(s)}]
        BY <2>1, <4>3
      <4>5. F[s] = SumTerm(F, g, s) /\ G[s] = SumTerm(G, g, s)
        BY <3>1, SumStepIs
      <4> QED
        BY <3>3, <4>4, <4>5 DEF SumTerm
    <3> QED
      BY <3>2, <3>3
  <2>3. n \in 0..N
    BY <1>5
  <2> QED
    BY <1>2, <2>2, <2>3
<1>6. \A n \in 0..N : n \in T
  BY <1>1, <1>4, <1>5, InductionTo
<1>7. ASSUME NEW s \in SUBSET S PROVE F[s] = G[s]
  <2>1. Cardinality(s) <= N
    BY <1>1, FS_Subset
  <2>2. s \in SubsetsUpTo(S, N)
    BY <2>1 DEF SubsetsUpTo
  <2> QED
    BY <1>1, <1>2, <1>6, <2>2
<1> QED
  BY <1>7

AddsUp(F, g, S) == \A s \in SUBSET S : \A x \in S \ s : F[s \cup {x}] = F[s] + g[x]

(* Whatever element is chosen last: the sum with one more is larger by it. *)
LEMMA SumAdds ==
  ASSUME NEW S, IsFiniteSet(S), NEW g \in [S -> Int], NEW F \in [SUBSET S -> Int], SumStep(F, g, S)
  PROVE  AddsUp(F, g, S)
<1>1. PICK N \in Nat : N = Cardinality(S)
  BY FS_CardinalityType
<1>2. PICK T : T = {n \in 0..N : \A s \in SubsetsUpTo(S, n) : \A x \in S \ s : F[s \cup {x}] = F[s] + g[x]}
  OBVIOUS
<1>3. ASSUME NEW s \in SUBSET S, NEW x \in S \ s,
             \A r \in SUBSET S : Cardinality(r) < Cardinality(s) =>
                \A y \in S \ r : F[r \cup {y}] = F[r] + g[y]
      PROVE  F[s \cup {x}] = F[s] + g[x]
  <2>1. PICK u : u = s \cup {x} /\ u \in SUBSET S /\ u # {}
    <3>1. x \in S /\ s \subseteq S
      OBVIOUS
    <3>2. PICK u : u = s \cup {x}
      OBVIOUS
    <3>3. u \in SUBSET S /\ u # {}
      BY <3>1, <3>2
    <3> QED
      BY <3>2, <3>3
  <2>2. PICK y : y = SumElement(u) /\ y \in u /\ F[u] = g[y] + F[u \ {y}]
    <3>1. SumElement(u) \in u
      BY <2>1 DEF SumElement
    <3>2. F[u] = SumTerm(F, g, u)
      BY <2>1, SumStepIs
    <3> QED
      BY <2>1, <3>1, <3>2 DEF SumTerm
  <2>3. g[x] \in Int /\ F[s] \in Int
    OBVIOUS
  <2>4. CASE y = x
    <3>1. u \ {y} = s
      BY <2>1, <2>4
    <3>2. F[u] = g[x] + F[s]
      BY <2>2, <2>4, <3>1
    <3> QED
      BY <2>1, <2>3, <3>2
  <2>5. CASE y # x
    <3>1. PICK r : r = s \ {y} /\ r \in SUBSET S /\ y \in s
      BY <2>1, <2>2, <2>5
    <3>2. Cardinality(r) < Cardinality(s)
      <4>1. IsFiniteSet(s)
        BY FS_Subset
      <4>2. Cardinality(s) \in Nat /\ Cardinality(r) = Cardinality(s) - 1
        BY <3>1, <4>1, FS_CardinalityType, FS_RemoveElement
      <4> QED
        BY <4>2
    <3>3. u \ {y} = r \cup {x} /\ s = r \cup {y} /\ x \in S \ r /\ y \in S \ r
      BY <2>1, <2>5, <3>1
    <3>4. F[r \cup {x}] = F[r] + g[x]
      BY <1>3, <3>1, <3>2, <3>3
    <3>5. F[r \cup {y}] = F[r] + g[y]
      BY <1>3, <3>1, <3>2, <3>3
    <3>6. F[r] \in Int /\ g[y] \in Int
      BY <3>1
    <3>7. F[u] = g[y] + (F[r] + g[x]) /\ F[s] = F[r] + g[y]
      BY <2>2, <3>3, <3>4, <3>5
    <3>8. g[y] + (F[r] + g[x]) = (F[r] + g[y]) + g[x]
      BY <2>3, <3>6
    <3> QED
      BY <2>1, <3>7, <3>8
  <2> QED
    BY <2>4, <2>5
<1>4. ASSUME NEW r \in SUBSET S PROVE Cardinality(r) \in Nat /\ Cardinality(r) <= N
  <2>1. IsFiniteSet(r) /\ Cardinality(r) <= N
    BY <1>1, FS_Subset
  <2> QED
    BY <2>1, FS_CardinalityType
<1>5. 0 \in T
  <2>1. ASSUME NEW s \in SubsetsUpTo(S, 0), NEW x \in S \ s PROVE F[s \cup {x}] = F[s] + g[x]
    <3>1. s \in SUBSET S /\ Cardinality(s) <= 0
      BY DEF SubsetsUpTo
    <3>2. \A r \in SUBSET S : ~(Cardinality(r) < Cardinality(s))
      BY <1>4, <3>1
    <3> QED
      BY <1>3, <3>1, <3>2
  <2>2. 0 \in 0..N
    BY <1>1
  <2> QED
    BY <1>2, <2>1, <2>2
<1>6. ASSUME NEW n \in 1..N, n - 1 \in T PROVE n \in T
  <2>1. \A s \in SubsetsUpTo(S, n - 1) : \A x \in S \ s : F[s \cup {x}] = F[s] + g[x]
    BY <1>2, <1>6
  <2>2. ASSUME NEW s \in SubsetsUpTo(S, n), NEW x \in S \ s PROVE F[s \cup {x}] = F[s] + g[x]
    <3>1. s \in SUBSET S /\ Cardinality(s) <= n
      BY DEF SubsetsUpTo
    <3>2. ASSUME NEW r \in SUBSET S, Cardinality(r) < Cardinality(s)
          PROVE  \A y \in S \ r : F[r \cup {y}] = F[r] + g[y]
      <4>1. Cardinality(r) \in Nat /\ Cardinality(s) \in Nat /\ n \in Nat
        BY <1>4, <1>6, <3>1
      <4>2. Cardinality(r) <= n - 1
        BY <3>1, <3>2, <4>1
      <4>3. r \in SubsetsUpTo(S, n - 1)
        BY <4>2 DEF SubsetsUpTo
      <4> QED
        BY <2>1, <4>3
    <3> QED
      BY <1>3, <3>1, <3>2
  <2>3. n \in 0..N
    BY <1>6
  <2> QED
    BY <1>2, <2>2, <2>3
<1>7. \A n \in 0..N : n \in T
  BY <1>1, <1>5, <1>6, InductionTo
<1>8. ASSUME NEW s \in SUBSET S, NEW x \in S \ s PROVE F[s \cup {x}] = F[s] + g[x]
  <2>1. s \in SubsetsUpTo(S, N)
    BY <1>4 DEF SubsetsUpTo
  <2> QED
    BY <1>1, <1>2, <1>7, <2>1
<1> QED
  BY <1>8 DEF AddsUp

(* The sum over a set is the last value of a function that adds up the elements one
   by one, in any order. *)
LEMMA SumOverFacts ==
  ASSUME NEW S, IsFiniteSet(S), NEW g \in [S -> Int]
  PROVE  \E F \in [SUBSET S -> Int] :
           SumOver(g, S) = F[S] /\ F[{}] = 0 /\ AddsUp(F, g, S)
<1>1. PICK F \in [SUBSET S -> Int] : SumStep(F, g, S)
  BY SumExists
<1>2. PICK G : G = CHOOSE H : SumStep(H, g, S)
  OBVIOUS
<1>3. SumStep(G, g, S)
  BY <1>1, <1>2
<1>4. G[S] = F[S]
  <2>1. \A s \in SUBSET S : G[s] = F[s]
    BY <1>1, <1>3, SumUnique
  <2> QED
    BY <2>1
<1>5. SumOver(g, S) = F[S]
  <2>1. SumOver(g, S) = (CHOOSE H : SumStep(H, g, S))[S]
    BY DEF SumOver
  <2> QED
    BY <1>2, <1>4, <2>1
<1>6. F[{}] = 0
  <2>1. F[{}] = SumTerm(F, g, {})
    BY <1>1, SumStepIs
  <2> QED
    BY <2>1 DEF SumTerm
<1>7. AddsUp(F, g, S)
  BY <1>1, SumAdds
<1> QED
  BY <1>5, <1>6, <1>7

LEMMA SumOverIs ==
  ASSUME NEW S, IsFiniteSet(S), NEW g \in [S -> Int], NEW G, SumStep(G, g, S)
  PROVE  SumOver(g, S) = G[S]
<1>1. PICK F : F = CHOOSE H : SumStep(H, g, S)
  OBVIOUS
<1>2. SumStep(F, g, S)
  BY <1>1
<1>3. \A s \in SUBSET S : F[s] = G[s]
  BY <1>2, SumUnique
<1>4. S \in SUBSET S
  OBVIOUS
<1> QED
  BY <1>1, <1>3, <1>4 DEF SumOver

(* Induction over the subsets of a finite set, for the set of those that have a
   property. *)
LEMMA SubsetInduction ==
  ASSUME NEW S, IsFiniteSet(S), NEW T, {} \in T,
         \A s \in SUBSET S : s \in T => \A x \in S \ s : s \cup {x} \in T
  PROVE  \A s \in SUBSET S : s \in T
<1>1. PICK N \in Nat : N = Cardinality(S)
  BY FS_CardinalityType
<1>2. PICK W : W = {n \in 0..N : SubsetsUpTo(S, n) \subseteq T}
  OBVIOUS
<1>3. ASSUME NEW s \in SUBSET S, s # {}, s \ {SumElement(s)} \in T PROVE s \in T
  <2>1. SumElement(s) \in s /\ s \ {SumElement(s)} \in SUBSET S
    BY <1>3, ElementRemoved
  <2>2. SumElement(s) \in S \ (s \ {SumElement(s)})
    BY <2>1
  <2>3. (s \ {SumElement(s)}) \cup {SumElement(s)} = s
    BY <2>1
  <2>4. (s \ {SumElement(s)}) \cup {SumElement(s)} \in T
    BY <1>3, <2>1, <2>2
  <2> QED
    BY <2>3, <2>4
<1>4. 0 \in W
  <2>1. ASSUME NEW s \in SubsetsUpTo(S, 0) PROVE s \in T
    <3>1. s \in SUBSET S /\ Cardinality(s) <= 0
      BY DEF SubsetsUpTo
    <3>2. s = {}
      <4> SUFFICES ASSUME s # {} PROVE FALSE
        OBVIOUS
      <4>1. Cardinality(s) \in Nat /\ Cardinality(s) >= 1
        BY <3>1, ElementRemoved
      <4> QED
        BY <3>1, <4>1
    <3> QED
      BY <3>2
  <2>2. 0 \in 0..N
    BY <1>1
  <2> QED
    BY <1>2, <2>1, <2>2
<1>5. ASSUME NEW n \in 1..N, n - 1 \in W PROVE n \in W
  <2>1. ASSUME NEW s \in SubsetsUpTo(S, n) PROVE s \in T
    <3>1. s \in SUBSET S /\ Cardinality(s) <= n
      BY DEF SubsetsUpTo
    <3>2. CASE s # {}
      <4>1. /\ s \ {SumElement(s)} \in SUBSET S /\ Cardinality(s) \in Nat
            /\ Cardinality(s \ {SumElement(s)}) = Cardinality(s) - 1
        BY <3>1, <3>2, ElementRemoved
      <4>2. Cardinality(s \ {SumElement(s)}) <= n - 1
        BY <1>5, <3>1, <4>1
      <4>3. s \ {SumElement(s)} \in SubsetsUpTo(S, n - 1)
        BY <4>1, <4>2 DEF SubsetsUpTo
      <4>4. s \ {SumElement(s)} \in T
        BY <1>2, <1>5, <4>3
      <4> QED
        BY <1>3, <3>1, <3>2, <4>4
    <3> QED
      BY <3>2
  <2>2. n \in 0..N
    BY <1>5
  <2> QED
    BY <1>2, <2>1, <2>2
<1>6. \A n \in 0..N : n \in W
  BY <1>1, <1>4, <1>5, InductionTo
<1>7. ASSUME NEW s \in SUBSET S PROVE s \in T
  <2>1. Cardinality(s) <= N
    BY <1>1, FS_Subset
  <2>2. s \in SubsetsUpTo(S, N)
    BY <2>1 DEF SubsetsUpTo
  <2> QED
    BY <1>1, <1>2, <1>6, <2>2
<1> QED
  BY <1>7

(* A sum of natural numbers is one, and at least each of them. *)
LEMMA SumOfNaturals ==
  ASSUME NEW S, IsFiniteSet(S), NEW g \in [S -> Nat]
  PROVE  SumOver(g, S) \in Nat /\ \A x \in S : g[x] <= SumOver(g, S)
<1>1. g \in [S -> Int]
  OBVIOUS
<1>2. PICK F \in [SUBSET S -> Int] : SumOver(g, S) = F[S] /\ F[{}] = 0 /\ AddsUp(F, g, S)
  BY <1>1, SumOverFacts
<1>3. PICK T : T = {s \in SUBSET S : F[s] \in Nat /\ \A x \in s : g[x] <= F[s]}
  OBVIOUS
<1>4. {} \in T
  BY <1>2, <1>3
<1>5. ASSUME NEW s \in SUBSET S, s \in T, NEW x \in S \ s PROVE s \cup {x} \in T
  <2>1. PICK y \in Nat, z \in Nat : y = F[s] /\ z = g[x] /\ F[s \cup {x}] = y + z
    BY <1>2, <1>3, <1>5 DEF AddsUp
  <2>2. y + z \in Nat /\ z <= y + z
    OBVIOUS
  <2>3. ASSUME NEW w \in s PROVE g[w] <= y + z
    <3>1. g[w] \in Nat /\ g[w] <= y
      BY <1>3, <1>5, <2>1
    <3> QED
      BY <3>1
  <2>4. s \cup {x} \in SUBSET S
    OBVIOUS
  <2> QED
    BY <1>3, <2>1, <2>2, <2>3, <2>4
<1>6. S \in T
  <2>1. \A s \in SUBSET S : s \in T
    BY <1>4, <1>5, SubsetInduction
  <2> QED
    BY <2>1
<1> QED
  BY <1>2, <1>3, <1>6

IsDifference(d, g, h, S) == \A x \in S : d[x] = g[x] - h[x]

LEMMA SumOfDifference ==
  ASSUME NEW S, IsFiniteSet(S), NEW g \in [S -> Int], NEW h \in [S -> Int],
         NEW d \in [S -> Int], IsDifference(d, g, h, S)
  PROVE  SumOver(d, S) = SumOver(g, S) - SumOver(h, S)
<1>1. PICK G \in [SUBSET S -> Int] : SumOver(g, S) = G[S] /\ G[{}] = 0 /\ AddsUp(G, g, S)
  BY SumOverFacts
<1>2. PICK H \in [SUBSET S -> Int] : SumOver(h, S) = H[S] /\ H[{}] = 0 /\ AddsUp(H, h, S)
  BY SumOverFacts
<1>3. PICK D \in [SUBSET S -> Int] : SumOver(d, S) = D[S] /\ D[{}] = 0 /\ AddsUp(D, d, S)
  BY SumOverFacts
<1>4. PICK T : T = {s \in SUBSET S : D[s] = G[s] - H[s]}
  OBVIOUS
<1>5. {} \in T
  BY <1>1, <1>2, <1>3, <1>4
<1>6. ASSUME NEW s \in SUBSET S, s \in T, NEW x \in S \ s PROVE s \cup {x} \in T
  <2>1. D[s \cup {x}] = D[s] + d[x] /\ G[s \cup {x}] = G[s] + g[x] /\ H[s \cup {x}] = H[s] + h[x]
    BY <1>1, <1>2, <1>3 DEF AddsUp
  <2>2. /\ D[s] \in Int /\ G[s] \in Int /\ H[s] \in Int /\ g[x] \in Int /\ h[x] \in Int
        /\ d[x] = g[x] - h[x] /\ D[s] = G[s] - H[s]
    BY <1>4, <1>6 DEF IsDifference
  <2>3. D[s \cup {x}] = G[s \cup {x}] - H[s \cup {x}]
    BY <2>1, <2>2
  <2>4. s \cup {x} \in SUBSET S
    OBVIOUS
  <2> QED
    BY <1>4, <2>3, <2>4
<1>7. S \in T
  <2>1. \A s \in SUBSET S : s \in T
    BY <1>5, <1>6, SubsetInduction
  <2> QED
    BY <2>1
<1> QED
  BY <1>1, <1>2, <1>3, <1>4, <1>7

(* A sum over the image of R under f is one over R. *)
Mirrors(f, R, S, h, g) ==
  /\ IsFiniteSet(R) /\ IsFiniteSet(S)
  /\ g \in [S -> Int] /\ h \in [R -> Int] /\ f \in [R -> S]
  /\ \A x, y \in R : f[x] = f[y] => x = y
  /\ \A r \in R : h[r] = g[f[r]]
  /\ \A p \in S : g[p] # 0 => \E r \in R : f[r] = p

LEMMA SumOfImage ==
  ASSUME NEW f, NEW R, NEW S, NEW h, NEW g, Mirrors(f, R, S, h, g)
  PROVE  SumOver(g, S) = SumOver(h, R)
<1>1. IsFiniteSet(R) /\ IsFiniteSet(S) /\ g \in [S -> Int] /\ h \in [R -> Int] /\ f \in [R -> S]
  BY DEF Mirrors
<1>2. /\ \A x, y \in R : f[x] = f[y] => x = y
      /\ \A r \in R : h[r] = g[f[r]]
      /\ \A p \in S : g[p] # 0 => \E r \in R : f[r] = p
  BY DEF Mirrors
<1>3. PICK G \in [SUBSET S -> Int] : SumOver(g, S) = G[S] /\ G[{}] = 0 /\ AddsUp(G, g, S)
  BY <1>1, SumOverFacts
<1>4. PICK H \in [SUBSET R -> Int] : SumOver(h, R) = H[R] /\ H[{}] = 0 /\ AddsUp(H, h, R)
  BY <1>1, SumOverFacts
<1>5. PICK I : I = [s \in SUBSET R |-> {f[r] : r \in s}]
  OBVIOUS
<1>6. \A s \in SUBSET R : I[s] \in SUBSET S
  BY <1>1, <1>5
<1>7. PICK T : T = {s \in SUBSET R : G[I[s]] = H[s]}
  OBVIOUS
<1>8. {} \in T
  <2>1. {} \in SUBSET R /\ I[{}] = {}
    BY <1>5
  <2> QED
    BY <1>3, <1>4, <1>7, <2>1
<1>9. ASSUME NEW s \in SUBSET R, s \in T, NEW x \in R \ s PROVE s \cup {x} \in T
  <2>1. f[x] \in S \ I[s]
    BY <1>1, <1>2, <1>5
  <2>2. I[s \cup {x}] = I[s] \cup {f[x]}
    BY <1>5
  <2>3. G[I[s] \cup {f[x]}] = G[I[s]] + g[f[x]]
    BY <1>3, <1>6, <2>1 DEF AddsUp
  <2>4. H[s \cup {x}] = H[s] + h[x]
    BY <1>4 DEF AddsUp
  <2>5. G[I[s \cup {x}]] = H[s \cup {x}]
    <3>1. h[x] = g[f[x]] /\ G[I[s]] = H[s]
      BY <1>2, <1>7, <1>9
    <3>2. G[I[s \cup {x}]] = G[I[s]] + g[f[x]]
      BY <2>2, <2>3
    <3> QED
      BY <2>4, <3>1, <3>2
  <2>6. s \cup {x} \in SUBSET R
    OBVIOUS
  <2> QED
    BY <1>7, <2>5, <2>6
<1>10. R \in T
  <2>1. \A s \in SUBSET R : s \in T
    BY <1>1, <1>8, <1>9, SubsetInduction
  <2> QED
    BY <2>1
<1>11. PICK J \in SUBSET S : J = I[R] /\ \A p \in S \ J : g[p] = 0
  <2>1. I[R] = {f[r] : r \in R} /\ I[R] \in SUBSET S
    BY <1>5, <1>6
  <2>2. \A p \in S \ I[R] : g[p] = 0
    BY <1>2, <2>1
  <2> QED
    BY <2>1, <2>2
<1>12. PICK K \in SUBSET S : K = S \ J
  OBVIOUS
<1>13. PICK U : U = {s \in SUBSET K : G[J \cup s] = G[J]}
  OBVIOUS
<1>14. {} \in U
  BY <1>13
<1>15. ASSUME NEW s \in SUBSET K, s \in U, NEW x \in K \ s PROVE s \cup {x} \in U
  <2>1. J \cup s \in SUBSET S /\ x \in S \ (J \cup s) /\ g[x] = 0
    BY <1>11, <1>12
  <2>2. G[(J \cup s) \cup {x}] = G[J \cup s] + g[x] /\ G[J \cup s] \in Int
    BY <1>3, <2>1 DEF AddsUp
  <2>3. G[(J \cup s) \cup {x}] = G[J]
    BY <1>13, <1>15, <2>1, <2>2
  <2>4. (J \cup s) \cup {x} = J \cup (s \cup {x}) /\ s \cup {x} \in SUBSET K
    OBVIOUS
  <2>5. G[J \cup (s \cup {x})] = G[J]
    BY <2>3, <2>4
  <2> QED
    BY <1>13, <2>4, <2>5
<1>16. K \in U
  <2>1. IsFiniteSet(K)
    BY <1>1, FS_Subset
  <2>2. \A s \in SUBSET K : s \in U
    BY <1>14, <1>15, <2>1, SubsetInduction
  <2> QED
    BY <2>2
<1>17. J \cup K = S
  BY <1>12
<1> QED
  BY <1>3, <1>4, <1>7, <1>10, <1>11, <1>13, <1>16, <1>17

(* Two sums that differ in one element. *)
SameBut(x, g, h, S) == \A y \in S : y # x => g[y] = h[y]

LEMMA SumOneChanged ==
  ASSUME NEW S, IsFiniteSet(S), NEW g \in [S -> Int], NEW h \in [S -> Int],
         NEW x \in S, SameBut(x, g, h, S)
  PROVE  SumOver(g, S) = SumOver(h, S) + (g[x] - h[x])
<1>1. PICK G \in [SUBSET S -> Int] : SumOver(g, S) = G[S] /\ G[{}] = 0 /\ AddsUp(G, g, S)
  BY SumOverFacts
<1>2. PICK H \in [SUBSET S -> Int] : SumOver(h, S) = H[S] /\ H[{}] = 0 /\ AddsUp(H, h, S)
  BY SumOverFacts
<1>3. PICK K \in SUBSET S : K = S \ {x}
  OBVIOUS
<1>4. PICK T : T = {s \in SUBSET K : G[s] = H[s]}
  OBVIOUS
<1>5. {} \in T
  BY <1>1, <1>2, <1>4
<1>6. ASSUME NEW s \in SUBSET K, s \in T, NEW y \in K \ s PROVE s \cup {y} \in T
  <2>1. s \in SUBSET S /\ y \in S \ s /\ g[y] = h[y]
    BY <1>3 DEF SameBut
  <2>2. G[s \cup {y}] = G[s] + g[y] /\ H[s \cup {y}] = H[s] + h[y]
    BY <1>1, <1>2, <2>1 DEF AddsUp
  <2>3. s \cup {y} \in SUBSET K
    OBVIOUS
  <2> QED
    BY <1>4, <1>6, <2>1, <2>2, <2>3
<1>7. K \in T
  <2>1. IsFiniteSet(K)
    BY FS_Subset
  <2>2. \A s \in SUBSET K : s \in T
    BY <1>5, <1>6, <2>1, SubsetInduction
  <2> QED
    BY <2>2
<1>8. K \cup {x} = S /\ x \in S \ K
  BY <1>3
<1>9. G[S] = G[K] + g[x] /\ H[S] = H[K] + h[x]
  BY <1>1, <1>2, <1>8 DEF AddsUp
<1>10. G[K] = H[K] /\ G[K] \in Int /\ g[x] \in Int /\ h[x] \in Int
  BY <1>4, <1>7
<1> QED
  BY <1>1, <1>2, <1>9, <1>10

(* Adding multiples of the modulus does not change a remainder. *)
LEMMA ModShift ==
  ASSUME NEW x \in Nat, NEW q \in Nat, NEW m \in Nat, m > 0
  PROVE  (x + m * q) % m = x % m
<1>1. PICK d \in Nat, r \in Nat : d = x \div m /\ r = x % m /\ r < m /\ x = m * d + r
  BY DivMod
<1>2. m * (d + q) = m * d + m * q /\ d + q \in Nat /\ m * d \in Nat /\ m * q \in Nat
  OBVIOUS
<1>3. x + m * q = m * (d + q) + r /\ x + m * q \in Nat
  BY <1>1, <1>2
<1>4. PICK y \in Nat, e \in Nat : y = x + m * q /\ e = d + q
  BY <1>2, <1>3
<1>5. y % m = r
  BY <1>1, <1>3, <1>4, DivModUnique
<1> QED
  BY <1>1, <1>4, <1>5

(* Numbers that are equal modulo m. *)
Same(x, y, m) == x % m = y % m

LEMMA SameTimes ==
  ASSUME NEW x \in Nat, NEW y \in Nat, NEW z \in Nat, NEW m \in Nat, m > 0, Same(x, y, m)
  PROVE  Same(x * z, y * z, m)
<1>1. PICK a \in Nat, r \in Nat : r = x % m /\ x = m * a + r
  <2>1. x \div m \in Nat /\ x % m \in Nat /\ x = m * (x \div m) + (x % m)
    BY DivMod
  <2> QED
    BY <2>1
<1>2. PICK b \in Nat : y = m * b + r
  <2>1. r = y % m
    BY <1>1 DEF Same
  <2> QED
    BY <2>1, DivMod
<1>3. PICK c \in Nat, d \in Nat, k \in Nat : c = a * z /\ d = b * z /\ k = r * z
  OBVIOUS
<1>4. x * z = k + m * c /\ y * z = k + m * d
  BY <1>1, <1>2, <1>3
<1>5. (k + m * c) % m = k % m /\ (k + m * d) % m = k % m
  BY ModShift
<1> QED
  BY <1>4, <1>5 DEF Same

LEMMA SamePlus ==
  ASSUME NEW x \in Nat, NEW y \in Nat, NEW z \in Nat, NEW m \in Nat, m > 0, Same(x, y, m)
  PROVE  Same(x + z, y + z, m)
<1>1. PICK a \in Nat, r \in Nat : r = x % m /\ x = m * a + r
  <2>1. x \div m \in Nat /\ x % m \in Nat /\ x = m * (x \div m) + (x % m)
    BY DivMod
  <2> QED
    BY <2>1
<1>2. PICK b \in Nat : y = m * b + r
  <2>1. r = y % m
    BY <1>1 DEF Same
  <2> QED
    BY <2>1, DivMod
<1>3. PICK k \in Nat : k = r + z
  OBVIOUS
<1>4. x + z = k + m * a /\ y + z = k + m * b
  BY <1>1, <1>2, <1>3
<1>5. (k + m * a) % m = k % m /\ (k + m * b) % m = k % m
  BY ModShift
<1> QED
  BY <1>4, <1>5 DEF Same

(* Products and sums of numbers that are equal modulo m are equal modulo m. *)
LEMMA SameProducts ==
  ASSUME NEW x \in Nat, NEW y \in Nat, NEW z \in Nat, NEW w \in Nat, NEW m \in Nat, m > 0,
         Same(x, y, m), Same(z, w, m)
  PROVE  Same(x * z, y * w, m)
<1>1. Same(x * z, y * z, m)
  BY SameTimes
<1>2. Same(z * y, w * y, m)
  BY SameTimes
<1>3. z * y = y * z /\ w * y = y * w
  OBVIOUS
<1> QED
  BY <1>1, <1>2, <1>3 DEF Same

LEMMA SameSums ==
  ASSUME NEW x \in Nat, NEW y \in Nat, NEW z \in Nat, NEW w \in Nat, NEW m \in Nat, m > 0,
         Same(x, y, m), Same(z, w, m)
  PROVE  Same(x + z, y + w, m)
<1>1. Same(x + z, y + z, m)
  BY SamePlus
<1>2. Same(z + y, w + y, m)
  BY SamePlus
<1>3. z + y = y + z /\ w + y = y + w
  OBVIOUS
<1> QED
  BY <1>1, <1>2, <1>3 DEF Same

LEMMA SameReduced ==
  ASSUME NEW x \in Nat, NEW m \in Nat, m > 0
  PROVE  Same(x % m, x, m) /\ x % m \in Nat /\ x % m < m
<1>1. PICK a \in Nat, r \in Nat : r = x % m /\ x = m * a + r /\ r < m
  BY DivMod
<1>2. r = m * 0 + r
  OBVIOUS
<1>3. r % m = r
  BY <1>1, <1>2, DivModUnique
<1> QED
  BY <1>1, <1>3 DEF Same

-------------------------------------------------------------------------------
(* Sums of the first numbers of a list *)

(* r has the sums of the first values of g. *)
RunningSum(r, g, l) ==
  /\ r \in [0..l -> Nat] /\ r[0] = 0
  /\ \A k \in 1..l : g[k - 1] \in Nat /\ r[k] = r[k - 1] + g[k - 1]

LEMMA RunningExists ==
  ASSUME NEW l \in Nat, NEW g, \A k \in 0..(l - 1) : g[k] \in Nat
  PROVE  \E r : RunningSum(r, g, l)
<1>1. PICK h : h = [k \in 1..l |-> g[k - 1]]
  OBVIOUS
<1>2. \A k \in 1..l : k - 1 \in 0..(l - 1) /\ h[k] = g[k - 1]
  BY <1>1
<1>3. h \in [1..l -> Nat]
  BY <1>1, <1>2
<1>4. PICK r : IsLinear(r, l, 1, h)
  BY <1>3, LinearExists
<1>5. r \in [0..l -> Nat] /\ r[0] = 0 /\ \A k \in 1..l : r[k] = r[k - 1] + h[k]
  BY <1>3, <1>4 DEF IsLinear
<1> QED
  BY <1>2, <1>3, <1>5 DEF RunningSum

(* The sum over the numbers below l, whatever the order in which they are chosen. *)
LEMMA SumOverNumbers ==
  ASSUME NEW l \in Nat, NEW g \in [0..(l - 1) -> Nat], NEW r, RunningSum(r, g, l)
  PROVE  SumOver(g, 0..(l - 1)) = r[l]
<1>1. PICK S : S = 0..(l - 1)
  OBVIOUS
<1>2. IsFiniteSet(S) /\ g \in [S -> Int]
  <2>1. 0 \in Int /\ l - 1 \in Int
    OBVIOUS
  <2>2. IsFiniteSet(0..(l - 1))
    BY <2>1, FS_Interval
  <2> QED
    BY <1>1, <2>2
<1>3. PICK F \in [SUBSET S -> Int] : SumOver(g, S) = F[S] /\ F[{}] = 0 /\ AddsUp(F, g, S)
  BY <1>2, SumOverFacts
<1>4. PICK T : T = {k \in 0..l : F[0..(k - 1)] = r[k]}
  OBVIOUS
<1>5. r[0] = 0 /\ \A k \in 1..l : r[k] = r[k - 1] + g[k - 1]
  BY DEF RunningSum
<1>6. 0 \in T
  <2>1. 0..(0 - 1) = {} /\ 0 \in 0..l
    OBVIOUS
  <2>2. F[0..(0 - 1)] = 0
    BY <1>3, <2>1
  <2> QED
    BY <1>4, <1>5, <2>1, <2>2
<1>7. ASSUME NEW k \in 1..l, k - 1 \in T PROVE k \in T
  <2>1. PICK s : s = 0..((k - 1) - 1)
    OBVIOUS
  <2>2. s \in SUBSET S /\ k - 1 \in S \ s /\ 0..(k - 1) = s \cup {k - 1}
    <3>1. PICK i \in Nat : i = k - 1 /\ i < l
      OBVIOUS
    <3>2. 0..(i - 1) \subseteq 0..(l - 1) /\ i \in 0..(l - 1) /\ i \notin 0..(i - 1)
      BY <3>1
    <3>3. 0..i = 0..(i - 1) \cup {i}
      BY <3>1
    <3> QED
      BY <1>1, <2>1, <3>1, <3>2, <3>3
  <2>3. F[s \cup {k - 1}] = F[s] + g[k - 1]
    BY <1>3, <2>2 DEF AddsUp
  <2>4. F[s] = r[k - 1]
    BY <1>4, <1>7, <2>1
  <2>5. F[0..(k - 1)] = r[k]
    BY <1>5, <2>2, <2>3, <2>4
  <2>6. k \in 0..l
    OBVIOUS
  <2> QED
    BY <1>4, <2>5, <2>6
<1>8. l \in T
  <2>1. \A k \in 0..l : k \in T
    BY <1>6, <1>7, InductionTo
  <2>2. l \in 0..l
    OBVIOUS
  <2> QED
    BY <2>1, <2>2
<1> QED
  BY <1>1, <1>3, <1>4, <1>8

(* Each term is c times another one: so is the sum. *)
Multiplied(g, h, l, c, m) == \A k \in 0..(l - 1) : Same(g[k], c * h[k], m)

LEMMA RunningMultiplied ==
  ASSUME NEW l \in Nat, NEW g, NEW h, NEW r, NEW q, RunningSum(r, g, l), RunningSum(q, h, l),
         NEW c \in Nat, NEW m \in Nat, m > 0, Multiplied(g, h, l, c, m)
  PROVE  \A k \in 0..l : Same(r[k], c * q[k], m)
<1>1. /\ r \in [0..l -> Nat] /\ r[0] = 0
      /\ \A k \in 1..l : g[k - 1] \in Nat /\ r[k] = r[k - 1] + g[k - 1]
  BY DEF RunningSum
<1>2. /\ q \in [0..l -> Nat] /\ q[0] = 0
      /\ \A k \in 1..l : h[k - 1] \in Nat /\ q[k] = q[k - 1] + h[k - 1]
  BY DEF RunningSum
<1>3. PICK T : T = {k \in 0..l : Same(r[k], c * q[k], m)}
  OBVIOUS
<1>4. 0 \in T
  <2>1. c * 0 = 0 /\ 0 \in 0..l
    OBVIOUS
  <2> QED
    BY <1>1, <1>2, <1>3, <2>1 DEF Same
<1>5. ASSUME NEW k \in 1..l, k - 1 \in T PROVE k \in T
  <2>1. k - 1 \in 0..(l - 1) /\ k - 1 \in 0..l /\ k \in 0..l
    OBVIOUS
  <2>2. PICK a \in Nat, b \in Nat, x \in Nat, y \in Nat :
          /\ a = r[k - 1] /\ b = q[k - 1] /\ x = g[k - 1] /\ y = h[k - 1]
          /\ r[k] = a + x /\ q[k] = b + y
    <3>1. r[k - 1] \in Nat /\ q[k - 1] \in Nat
      BY <1>1, <1>2, <2>1
    <3>2. /\ g[k - 1] \in Nat /\ r[k] = r[k - 1] + g[k - 1]
          /\ h[k - 1] \in Nat /\ q[k] = q[k - 1] + h[k - 1]
      BY <1>1, <1>2
    <3> QED
      BY <3>1, <3>2
  <2>3. Same(a, c * b, m)
    BY <1>3, <1>5, <2>2
  <2>4. Same(x, c * y, m)
    BY <2>1, <2>2 DEF Multiplied
  <2>5. Same(a + x, c * b + c * y, m)
    <3>1. c * b \in Nat /\ c * y \in Nat
      OBVIOUS
    <3> QED
      BY <2>3, <2>4, <3>1, SameSums
  <2>6. c * b + c * y = c * (b + y)
    OBVIOUS
  <2>7. Same(r[k], c * q[k], m)
    BY <2>2, <2>5, <2>6
  <2> QED
    BY <1>3, <2>1, <2>7
<1>6. \A k \in 0..l : k \in T
  BY <1>4, <1>5, InductionTo
<1> QED
  BY <1>3, <1>6

(* The list g consists of pieces of length a, each the first one times a term of h:
   its sum is the sum of the first piece times the sum of h. *)
Pieces(g, h, a, n, m) ==
  \A k \in 0..(n - 1) : \A j \in 0..(a - 1) : Same(g[a * k + j], h[k] * g[j], m)

LEMMA OnePiece ==
  ASSUME NEW a \in Nat, NEW n \in Nat, NEW g, NEW h, NEW r, NEW m \in Nat, m > 0,
         RunningSum(r, g, a * n), NEW k \in 0..(n - 1), h[k] \in Nat, Pieces(g, h, a, n, m)
  PROVE  /\ a * k \in 0..(a * n) /\ a * (k + 1) \in 0..(a * n) /\ a \in 0..(a * n)
         /\ Same(r[a * (k + 1)], r[a * k] + h[k] * r[a], m)
<1>1. PICK b \in Nat, e \in Nat, l \in Nat :
        b = a * k /\ e = a * ((n - k) - 1) /\ l = a * n
  <2>1. (n - k) - 1 \in Nat /\ k \in Nat
    OBVIOUS
  <2>2. a * k \in Nat /\ a * ((n - k) - 1) \in Nat /\ a * n \in Nat
    BY <2>1
  <2> QED
    BY <2>2
<1>2. l = b + a + e /\ a * (k + 1) = b + a
  <2>1. PICK x \in Nat : x = (n - k) - 1
    OBVIOUS
  <2>2. n = k + x + 1 /\ k \in Nat
    BY <2>1
  <2>3. a * (k + x + 1) = a * k + a * x + a /\ a * (k + 1) = a * k + a
    BY <2>2
  <2> QED
    BY <1>1, <2>1, <2>2, <2>3
<1>3. /\ r \in [0..l -> Nat] /\ r[0] = 0
      /\ \A i \in 1..l : g[i - 1] \in Nat /\ r[i] = r[i - 1] + g[i - 1]
  BY <1>1 DEF RunningSum
<1>4. PICK c \in Nat : c = h[k]
  OBVIOUS
<1>5. PICK T : T = {j \in 0..a : Same(r[b + j], r[b] + c * r[j], m)}
  OBVIOUS
<1>6. 0 \in T
  <2>1. b + 0 = b /\ 0 \in 0..a /\ b \in 0..l
    BY <1>2
  <2>2. r[b] \in Nat
    BY <1>3, <2>1
  <2>3. r[b] + c * 0 = r[b]
    BY <2>2
  <2> QED
    BY <1>3, <1>5, <2>1, <2>3 DEF Same
<1>7. ASSUME NEW j \in 1..a, j - 1 \in T PROVE j \in T
  <2>1. PICK i \in Nat : i = j - 1 /\ j = i + 1 /\ i \in 0..(a - 1) /\ i \in T
    BY <1>7
  <2>2. /\ i \in 0..l /\ b \in 0..l /\ b + i \in 0..l /\ j \in 1..l /\ b + j \in 1..l
        /\ (b + j) - 1 = b + i
    BY <1>2, <2>1
  <2>3. r[b + j] = r[b + i] + g[b + i] /\ r[j] = r[i] + g[i] /\ g[b + i] \in Nat /\ g[i] \in Nat
    BY <1>3, <2>1, <2>2
  <2>4. PICK x \in Nat, y \in Nat, z \in Nat, u \in Nat, v \in Nat :
          x = r[b + i] /\ y = g[b + i] /\ z = r[b] /\ u = r[i] /\ v = g[i]
    BY <1>3, <2>2, <2>3
  <2>5. Same(x, z + c * u, m)
    BY <1>5, <2>1, <2>4
  <2>6. Same(y, c * v, m)
    BY <1>1, <1>4, <2>1, <2>4 DEF Pieces
  <2>7. Same(x + y, (z + c * u) + c * v, m)
    <3>1. z + c * u \in Nat /\ c * v \in Nat
      OBVIOUS
    <3> QED
      BY <2>5, <2>6, <3>1, SameSums
  <2>8. (z + c * u) + c * v = z + c * (u + v)
    OBVIOUS
  <2>9. Same(r[b + j], r[b] + c * r[j], m)
    BY <2>3, <2>4, <2>7, <2>8
  <2>10. j \in 0..a
    OBVIOUS
  <2> QED
    BY <1>5, <2>9, <2>10
<1>8. a \in T
  <2>1. \A j \in 0..a : j \in T
    BY <1>6, <1>7, InductionTo
  <2>2. a \in 0..a
    OBVIOUS
  <2> QED
    BY <2>1, <2>2
<1>9. b \in 0..l /\ b + a \in 0..l /\ a \in 0..l
  BY <1>2
<1> QED
  BY <1>1, <1>2, <1>4, <1>5, <1>8, <1>9

LEMMA RunningPieces ==
  ASSUME NEW a \in Nat, NEW n \in Nat, NEW g, NEW h, NEW r, NEW q, NEW m \in Nat, m > 0,
         RunningSum(r, g, a * n), RunningSum(q, h, n), Pieces(g, h, a, n, m), n > 0
  PROVE  Same(r[a * n], r[a] * q[n], m)
<1>1. /\ q \in [0..n -> Nat] /\ q[0] = 0
      /\ \A k \in 1..n : h[k - 1] \in Nat /\ q[k] = q[k - 1] + h[k - 1]
  BY DEF RunningSum
<1>2. r \in [0..(a * n) -> Nat] /\ r[0] = 0
  BY DEF RunningSum
<1>3. PICK T : T = {k \in 0..n : Same(r[a * k], r[a] * q[k], m)}
  OBVIOUS
<1>4. PICK s \in Nat : s = r[a]
  <2>1. 0 \in 0..(n - 1) /\ 0 = 1 - 1 /\ 1 \in 1..n
    OBVIOUS
  <2>2. h[0] \in Nat
    BY <1>1, <2>1
  <2>3. a \in 0..(a * n)
    BY <2>1, <2>2, OnePiece
  <2> QED
    BY <1>2, <2>3
<1>5. 0 \in T
  <2>1. a * 0 = 0 /\ s * 0 = 0 /\ 0 \in 0..n
    OBVIOUS
  <2> QED
    BY <1>1, <1>2, <1>3, <1>4, <2>1 DEF Same
<1>6. ASSUME NEW k \in 1..n, k - 1 \in T PROVE k \in T
  <2>1. PICK i \in 0..(n - 1) : i = k - 1 /\ k = i + 1 /\ i \in T
    BY <1>6
  <2>2. h[i] \in Nat /\ q[k] = q[i] + h[i] /\ i \in 0..n /\ k \in 0..n
    BY <1>1, <2>1
  <2>3. a * i \in 0..(a * n) /\ a * k \in 0..(a * n) /\ Same(r[a * k], r[a * i] + h[i] * r[a], m)
    BY <2>1, <2>2, OnePiece
  <2>4. PICK x \in Nat, y \in Nat, z \in Nat, u \in Nat :
          x = r[a * i] /\ y = h[i] /\ z = q[i] /\ u = r[a * k]
    BY <1>1, <1>2, <2>2, <2>3
  <2>5. Same(x, s * z, m)
    BY <1>3, <1>4, <2>1, <2>4
  <2>6. Same(x + y * s, s * z + y * s, m)
    <3>1. s * z \in Nat /\ y * s \in Nat
      OBVIOUS
    <3> QED
      BY <2>5, <3>1, SamePlus
  <2>7. s * z + y * s = s * (z + y)
    OBVIOUS
  <2>8. Same(r[a * k], s * q[k], m)
    BY <1>4, <2>2, <2>3, <2>4, <2>6, <2>7 DEF Same
  <2> QED
    BY <1>3, <1>4, <2>2, <2>8
<1>7. n \in T
  <2>1. \A k \in 0..n : k \in T
    BY <1>5, <1>6, InductionTo
  <2>2. n \in 0..n
    OBVIOUS
  <2> QED
    BY <2>1, <2>2
<1> QED
  BY <1>3, <1>7
==============================================================================
