------------------------------- MODULE Lemmas -------------------------------
(***************************************************************************)
(* Facts that the proofs share: remainders, the smallest element of a set, *)
(* functions defined by recursion, and FlattenSeq.                         *)
(***************************************************************************)
EXTENDS Integers, Sequences, FiniteSetsExt, SequencesExt,
        WellFoundedInduction, TLAPS

-----------------------------------------------------------------------------
(* Remainders.                                                             *)

\* The difference of two counters that wrap at w.
LEMMA DifferenceModulo ==
  ASSUME NEW w \in Nat \ {0}, NEW h \in 0..(w - 1), NEW t \in 0..(w - 1)
  PROVE  (h - t) % w = IF h >= t THEN h - t ELSE h - t + w
  OBVIOUS

\* A counter that has wrapped once at most.
LEMMA WrapsOnce ==
  ASSUME NEW w \in Nat \ {0}, NEW a \in 0..(2 * w - 1)
  PROVE  a % w = IF a < w THEN a ELSE a - w
  OBVIOUS

\* Taking away a multiple of n does not change the remainder by n.
LEMMA MultipleModulo ==
  ASSUME NEW n \in Nat \ {0}, NEW w \in Nat, w % n = 0, NEW a \in Nat, a >= w
  PROVE  (a - w) % n = a % n
<1> DEFINE q == w \div n
           s == a \div n
           r == a % n
<1>1. w = n * q /\ q \in Int  OBVIOUS
<1>2. a = n * s + r /\ r \in 0..(n - 1) /\ s \in Int  OBVIOUS
<1> HIDE DEF q, s, r
<1>3. a - w = n * (s - q) + r  BY <1>1, <1>2
<1>4. (n * (s - q) + r) % n = r  BY <1>1, <1>2
<1> QED  BY <1>3, <1>4 DEF r

\* Two numbers less than n apart have different remainders by n.
LEMMA DistinctModulo ==
  ASSUME NEW n \in Nat \ {0}, NEW x \in Nat, NEW d \in 1..(n - 1)
  PROVE  (x + d) % n # x % n
<1> SUFFICES ASSUME (x + d) % n = x % n PROVE FALSE  OBVIOUS
<1> DEFINE p == x \div n
           q == (x + d) \div n
           r == x % n
<1>1. x = n * p + r /\ p \in Int /\ r \in Int  OBVIOUS
<1>2. x + d = n * q + r /\ q \in Int  OBVIOUS
<1> HIDE DEF p, q, r
<1>3. d = n * (q - p)  BY <1>1, <1>2
<1>4. q - p >= 1 => n * (q - p) >= n  BY <1>1, <1>2
<1>5. q - p <= 0 => n * (q - p) <= 0  BY <1>1, <1>2
<1> QED  BY <1>1, <1>2, <1>3, <1>4, <1>5

\* Multiples of n are in the order of their factors.
LEMMA MultipleOrder ==
  ASSUME NEW n \in Nat \ {0}, NEW x \in Int, NEW y \in Int
  PROVE  /\ x * n \in Int
         /\ x * n <= y * n <=> x <= y
         /\ x * n < y * n <=> x < y
         /\ x * n = y * n <=> x = y
<1>1. x * n \in Int /\ y * n \in Int  OBVIOUS
<1>2. x < y => y * n >= x * n + n
  <2> SUFFICES ASSUME x < y PROVE y * n >= x * n + n  OBVIOUS
  <2>1. (y - x - 1) * n >= 0  OBVIOUS
  <2>2. (y - x - 1) * n = y * n - x * n - n  OBVIOUS
  <2> QED  BY <1>1, <2>1, <2>2
<1>3. y < x => x * n >= y * n + n
  <2> SUFFICES ASSUME y < x PROVE x * n >= y * n + n  OBVIOUS
  <2>1. (x - y - 1) * n >= 0  OBVIOUS
  <2>2. (x - y - 1) * n = x * n - y * n - n  OBVIOUS
  <2> QED  BY <1>1, <2>1, <2>2
<1> DEFINE p == x * n
           q == y * n
<1>4. p \in Int /\ q \in Int /\ (x = y => p = q)
      /\ (x < y => q >= p + n) /\ (y < x => p >= q + n)
  BY <1>1, <1>2, <1>3
<1> HIDE DEF p, q
<1>5. (p <= q <=> x <= y) /\ (p < q <=> x < y) /\ (p = q <=> x = y)  BY <1>4
<1> QED  BY <1>1, <1>5 DEF p, q

\* Quotient and remainder of a number that is given by them.
LEMMA QuotientRemainder ==
  ASSUME NEW n \in Nat \ {0}, NEW x \in Int, NEW r \in 0..(n - 1)
  PROVE  (x * n + r) \div n = x /\ (x * n + r) % n = r
  OBVIOUS

\* A number without a remainder is a multiple.
LEMMA IsMultiple ==
  ASSUME NEW n \in Nat \ {0}, NEW a \in Int, a % n = 0
  PROVE  a = (a \div n) * n /\ a \div n \in Int
  OBVIOUS

-----------------------------------------------------------------------------
(* Smallest elements.  An induction over the natural numbers is done in    *)
(* the proofs by looking at the smallest counterexample.                   *)

\* A set of natural numbers that is not empty has a smallest element.
LEMMA LeastElement ==
  ASSUME NEW S \in SUBSET Nat, S # {}
  PROVE  \E x \in S : \A y \in S : x <= y
<1> DEFINE R == OpToRel(<, Nat)
<1>1. IsWellFoundedOn(R, Nat)  BY NatLessThanWellFounded
<1>2. \A y, x \in Nat : y < x => <<y, x>> \in R  BY DEF OpToRel
<1> HIDE DEF R
<1>3. PICK x \in S : \A y \in S : ~(<<y, x>> \in R)  BY <1>1, WFMin
<1>4. \A y \in S : x <= y
  <2> SUFFICES ASSUME NEW y \in S, ~(x <= y) PROVE FALSE  OBVIOUS
  <2>1. y \in Nat /\ x \in Nat /\ y < x  OBVIOUS
  <2> QED  BY <2>1, <1>2, <1>3
<1> QED  BY <1>4

\* Min of a set of natural numbers that is not empty.
LEMMA MinIsSmallest ==
  ASSUME NEW S \in SUBSET Nat, S # {}
  PROVE  Min(S) \in S /\ \A x \in S : Min(S) <= x
  BY LeastElement DEF Min

\* Max of a set of natural numbers that is bounded and not empty.
LEMMA MaxIsLargest ==
  ASSUME NEW n \in Nat, NEW S \in SUBSET (0..n), S # {}
  PROVE  Max(S) \in S /\ \A x \in S : x <= Max(S)
<1> DEFINE T == {n - x : x \in S}
<1>1. T \in SUBSET Nat  OBVIOUS
<1>2. T # {}  OBVIOUS
<1> HIDE DEF T
<1>3. PICK d \in T : \A y \in T : d <= y  BY <1>1, <1>2, LeastElement
<1>4. PICK x \in S : d = n - x  BY DEF T
<1>5. \A y \in S : x >= y
  <2> SUFFICES ASSUME NEW y \in S PROVE x >= y  OBVIOUS
  <2>1. n - y \in T  BY DEF T
  <2>2. n - x <= n - y  BY <1>3, <1>4, <2>1
  <2> QED  BY <2>2
<1>6. \A y \in S : y \in Nat  OBVIOUS
<1> QED  BY <1>5, <1>6 DEF Max

-----------------------------------------------------------------------------
(* Recursive functions: the one that starts with v and goes on with g.     *)

StepsIn(g, n, V) == \A x \in V : \A i \in 1..n : g[i][x] \in V

Recursion(f, v, g, n, V) ==
  /\ f \in [0..n -> V]
  /\ f[0] = v
  /\ \A i \in 1..n : f[i] = g[i][f[i - 1]]

LEMMA RecursionExists ==
  ASSUME NEW V, NEW v \in V, NEW n \in Nat, NEW g, StepsIn(g, n, V)
  PROVE  \E f : Recursion(f, v, g, n, V)
<1> DEFINE Good(f, m) == f[0] = v /\ \A i \in 1..m : f[i] = g[i][f[i - 1]]
           Bad == {m \in 0..n : \A f \in [0..m -> V] : ~Good(f, m)}
<1>1. 0 \notin Bad
  <2>1. [i \in 0..0 |-> v] \in [0..0 -> V] /\ Good([i \in 0..0 |-> v], 0)  OBVIOUS
  <2> QED  BY <2>1
<1>2. ASSUME NEW m \in Nat, m + 1 \in 0..n, m \notin Bad PROVE m + 1 \notin Bad
  <2>0. m \in 0..n  BY <1>2
  <2>1. PICK f \in [0..m -> V] : Good(f, m)  BY <1>2, <2>0
  <2> DEFINE h == [i \in 0..(m + 1) |-> IF i = m + 1 THEN g[m + 1][f[m]] ELSE f[i]]
  <2>2. h \in [0..(m + 1) -> V]
    <3>1. g[m + 1][f[m]] \in V  BY <1>2 DEF StepsIn
    <3> QED  BY <3>1
  <2>3. \A i \in 0..m : h[i] = f[i]  OBVIOUS
  <2>4. h[m + 1] = g[m + 1][f[m]]  OBVIOUS
  <2>5. Good(h, m + 1)
    <3>1. h[0] = v  BY <2>1, <2>3
    <3>2. ASSUME NEW i \in 1..(m + 1) PROVE h[i] = g[i][h[i - 1]]
      <4>1. CASE i = m + 1
        <5>1. h[i - 1] = f[m]  BY <2>3, <4>1
        <5> HIDE DEF h
        <5> QED  BY <2>4, <4>1, <5>1
      <4>2. CASE i # m + 1
        <5>1. i \in 1..m /\ i - 1 \in 0..m  BY <4>2
        <5>2. h[i] = f[i] /\ h[i - 1] = f[i - 1]  BY <2>3, <5>1
        <5> HIDE DEF h
        <5> QED  BY <2>1, <5>1, <5>2
      <4> QED  BY <4>1, <4>2
    <3> QED  BY <3>1, <3>2
  <2> HIDE DEF h
  <2> QED  BY <2>2, <2>5
<1>3. Bad = {}
  <2> SUFFICES ASSUME Bad # {} PROVE FALSE  OBVIOUS
  <2>1. Bad \in SUBSET Nat /\ Bad \subseteq 0..n  OBVIOUS
  <2> HIDE DEF Bad
  <2>2. PICK m \in Bad : \A k \in Bad : m <= k  BY <2>1, LeastElement
  <2>3. m \in Nat /\ m # 0 /\ m \in 0..n  BY <1>1, <2>1
  <2>4. m - 1 \in Nat /\ (m - 1) + 1 = m  BY <2>3
  <2>5. m - 1 \notin Bad  BY <2>2, <2>4
  <2> QED  BY <1>2, <2>3, <2>4, <2>5
<1> QED  BY <1>3 DEF Recursion

-----------------------------------------------------------------------------
(* FlattenSeq.                                                             *)

\* The equation of FlattenSeq.
IsFlat(f, seqs) ==
  f = [i \in 1..Len(seqs) |-> IF i = 1 THEN seqs[i] ELSE f[i - 1] \o seqs[i]]

LEMMA FlatExists ==
  ASSUME NEW T, NEW seqs \in Seq(Seq(T)), Len(seqs) # 0
  PROVE  \E f : IsFlat(f, seqs)
<1> DEFINE n == Len(seqs) - 1
           V == Seq(T)
           g == [i \in 1..n |-> [x \in V |-> x \o seqs[i + 1]]]
           s(i) == seqs[i]
<1>1. n \in Nat  OBVIOUS
<1>2. \A i \in 1..(n + 1) : s(i) \in V
  <2> HIDE DEF V
  <2>1. seqs \in Seq(V)  BY DEF V
  <2>2. \A i \in 1..Len(seqs) : seqs[i] \in V  BY <2>1
  <2>3. n + 1 = Len(seqs)  OBVIOUS
  <2> QED  BY <2>2, <2>3
<1>3. \A x \in V : \A i \in 1..n : g[i][x] = x \o s(i + 1)  OBVIOUS
<1> HIDE DEF s
<1>4. \A x \in V : \A i \in 1..n : x \o s(i + 1) \in V
  <2> SUFFICES ASSUME NEW x \in V, NEW i \in 1..n PROVE x \o s(i + 1) \in V
    OBVIOUS
  <2>1. i + 1 \in 1..(n + 1)  BY <1>1
  <2>2. s(i + 1) \in V  BY <1>2, <2>1
  <2> QED  BY <2>2
<1>5. PICK f : Recursion(f, s(1), g, n, V)
  <2>1. StepsIn(g, n, V)  BY <1>3, <1>4 DEF StepsIn
  <2>2. s(1) \in V  BY <1>1, <1>2
  <2> HIDE DEF g, V, n
  <2> QED  BY <1>1, <2>1, <2>2, RecursionExists
<1>6. f[0] = s(1) /\ \A i \in 1..n : f[i] = f[i - 1] \o s(i + 1)
  <2> HIDE DEF g, V, n
  <2>1. \A i \in 1..n : f[i - 1] \in V  BY <1>1, <1>5 DEF Recursion
  <2> QED  BY <1>3, <1>5, <2>1 DEF Recursion
<1> DEFINE h == [i \in 1..(n + 1) |-> f[i - 1]]
           H == [i \in 1..(n + 1) |-> IF i = 1 THEN s(1) ELSE h[i - 1] \o s(i)]
<1>7. \A i \in 1..(n + 1) : h[i] = H[i]
  <2> HIDE DEF n
  <2> SUFFICES ASSUME NEW i \in 1..(n + 1)
               PROVE  f[i - 1] = IF i = 1 THEN s(1) ELSE h[i - 1] \o s(i)
    OBVIOUS
  <2>1. CASE i = 1
    <3>1. i - 1 = 0  BY <2>1
    <3> QED  BY <1>6, <2>1, <3>1
  <2>2. CASE i # 1
    <3>1. i - 1 \in 1..n /\ i - 1 \in 1..(n + 1) /\ (i - 1) + 1 = i  BY <1>1, <2>2
    <3>2. h[i - 1] = f[(i - 1) - 1]  BY <3>1
    <3>3. f[i - 1] = f[(i - 1) - 1] \o s(i)  BY <1>6, <3>1
    <3> QED  BY <2>2, <3>2, <3>3
  <2> QED  BY <2>1, <2>2
<1>8. h = H  BY <1>7
<1>9. n + 1 = Len(seqs)  OBVIOUS
<1>10. h = [i \in 1..Len(seqs) |-> IF i = 1 THEN seqs[i] ELSE h[i - 1] \o seqs[i]]
  <2> HIDE DEF h, n
  <2> QED  BY <1>8, <1>9 DEF s
<1> QED  BY <1>10 DEF IsFlat

\* What FlattenSeq has put together after each of the sequences.
LEMMA FlattenSteps ==
  ASSUME NEW T, NEW seqs \in Seq(Seq(T))
  PROVE  \E F \in [0..Len(seqs) -> Seq(T)] :
           /\ F[0] = <<>>
           /\ \A i \in 1..Len(seqs) : F[i] = F[i - 1] \o seqs[i]
           /\ F[Len(seqs)] = FlattenSeq(seqs)
<1> DEFINE V == Seq(T)
           n == Len(seqs)
<1>1. n \in Nat /\ seqs \in Seq(V) /\ <<>> \in V  OBVIOUS
<1>2. CASE n = 0
  <2> DEFINE F == [i \in 0..n |-> <<>>]
  <2>1. F \in [0..n -> V] /\ F[0] = <<>> /\ F[n] = <<>>  BY <1>1
  <2>2. FlattenSeq(seqs) = <<>>  BY <1>2 DEF FlattenSeq
  <2>3. 1..n = {}  BY <1>2
  <2> HIDE DEF F
  <2> QED  BY <2>1, <2>2, <2>3
<1>3. CASE n # 0
  <2> DEFINE f == CHOOSE h : IsFlat(h, seqs)
  <2>1. IsFlat(f, seqs)
    <3>1. \E h : IsFlat(h, seqs)  BY <1>3, FlatExists
    <3> QED  BY <3>1
  <2>2. FlattenSeq(seqs) = f[n]  BY <1>3 DEF FlattenSeq, IsFlat
  <2> HIDE DEF f
  <2>3. \A i \in 1..n : f[i] = IF i = 1 THEN seqs[i] ELSE f[i - 1] \o seqs[i]
    BY <2>1 DEF IsFlat
  <2>4. \A i \in 1..n : seqs[i] \in V
    <3> HIDE DEF V
    <3> QED  BY <1>1
  <2> DEFINE Bad == {i \in 1..n : f[i] \notin V}
  <2>5. Bad = {}
    <3> SUFFICES ASSUME Bad # {} PROVE FALSE  OBVIOUS
    <3>1. PICK i \in Bad : \A k \in Bad : i <= k
      <4>1. Bad \in SUBSET Nat  OBVIOUS
      <4> HIDE DEF Bad
      <4> QED  BY <4>1, LeastElement
    <3>2. i # 1  BY <2>3, <2>4
    <3>3. i - 1 \in 1..n /\ ~(i <= i - 1)  BY <1>1, <3>2
    <3>4. f[i - 1] \in V  BY <3>1, <3>3
    <3>5. f[i] = f[i - 1] \o seqs[i]  BY <2>3, <3>2
    <3>6. \A x, y \in V : x \o y \in V  OBVIOUS
    <3> QED  BY <2>4, <3>4, <3>5, <3>6
  <2> DEFINE F == [i \in 0..n |-> IF i = 0 THEN <<>> ELSE f[i]]
  <2>6. F \in [0..n -> V]
    <3>1. \A i \in 0..n : i # 0 => i \in 1..n  BY <1>1
    <3> HIDE DEF V
    <3> QED  BY <1>1, <2>5, <3>1
  <2>7. F[0] = <<>> /\ F[n] = FlattenSeq(seqs) /\ \A i \in 1..n : F[i] = f[i]
    BY <1>1, <1>3, <2>2
  <2>8. ASSUME NEW i \in 1..n PROVE F[i] = F[i - 1] \o seqs[i]
    <3>1. CASE i = 1
      <4>1. F[i] = seqs[i] /\ F[i - 1] = <<>>  BY <2>3, <2>7, <3>1
      <4>2. seqs[i] \in V  BY <2>4
      <4>3. \A x \in V : <<>> \o x = x  OBVIOUS
      <4> HIDE DEF F
      <4> QED  BY <4>1, <4>2, <4>3
    <3>2. CASE i # 1
      <4>1. i - 1 \in 1..n  BY <1>1, <3>2
      <4>2. F[i] = f[i] /\ F[i - 1] = f[i - 1]  BY <2>7, <4>1
      <4>3. f[i] = f[i - 1] \o seqs[i]  BY <2>3, <3>2
      <4> HIDE DEF F
      <4> QED  BY <4>2, <4>3
    <3> QED  BY <3>1, <3>2
  <2> HIDE DEF F
  <2> QED  BY <2>6, <2>7, <2>8
<1> QED  BY <1>2, <1>3

=============================================================================
