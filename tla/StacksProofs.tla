----------------------------- MODULE StacksProofs -----------------------------
(***************************************************************************)
(* Proofs about Stacks, for every memory map, every number of threads, of  *)
(* slots and of pages of a stack.                                          *)
(***************************************************************************)
EXTENDS Stacks, Lemmas, SequenceTheorems

-----------------------------------------------------------------------------
(* Sequences that list the elements of a set, each once.                   *)

Lists(s, S) ==
  /\ s \in Seq(S)
  /\ \A i, j \in 1..Len(s) : s[i] = s[j] => i = j
  /\ \A x \in S : \E i \in 1..Len(s) : s[i] = x

LEMMA ListsNothing == Lists(<<>>, {})
BY DEF Lists

LEMMA ListsConcat ==
  ASSUME NEW s, NEW S, NEW t, NEW T, Lists(s, S), Lists(t, T), S \cap T = {}
  PROVE  Lists(s \o t, S \cup T)
<1> DEFINE r == s \o t
           U == S \cup T
           m == Len(s)
           n == Len(t)
<1>1. s \in Seq(S) /\ t \in Seq(T)  BY DEF Lists
<1>2. s \in Seq(U) /\ t \in Seq(U) /\ m \in Nat /\ n \in Nat
  BY <1>1, SeqMonotonic
<1>3. /\ r \in Seq(U) /\ Len(r) = m + n
      /\ \A i \in 1..(m + n) : r[i] = IF i <= m THEN s[i] ELSE t[i - m]
  <2> HIDE DEF U
  <2> QED  BY <1>2
<1>4. /\ \A i \in 1..m : s[i] \in S
      /\ \A i \in 1..n : t[i] \in T
  BY <1>1
<1> HIDE DEF r, m, n
<1>5. \A i \in 1..m : r[i] = s[i]  BY <1>2, <1>3
<1>6. \A i \in 1..n : r[i + m] = t[i] /\ i + m \in 1..(m + n)
  <2> SUFFICES ASSUME NEW i \in 1..n
               PROVE  r[i + m] = t[i] /\ i + m \in 1..(m + n)
    OBVIOUS
  <2>1. i + m \in 1..(m + n) /\ ~(i + m <= m) /\ (i + m) - m = i  BY <1>2
  <2> QED  BY <1>3, <2>1
<1>7. ASSUME NEW i \in 1..(m + n), NEW j \in 1..(m + n), r[i] = r[j] PROVE i = j
  <2>1. CASE i <= m /\ j <= m
    <3>1. i \in 1..m /\ j \in 1..m  BY <1>2, <2>1
    <3> QED  BY <1>5, <1>7, <3>1 DEF Lists, m
  <2>2. CASE i > m /\ j > m
    <3>1. i - m \in 1..n /\ j - m \in 1..n  BY <1>2, <2>2
    <3>2. t[i - m] = t[j - m]  BY <1>2, <1>3, <1>7, <2>2
    <3>3. i - m = j - m  BY <3>1, <3>2 DEF Lists, n
    <3> QED  BY <1>2, <3>3
  <2>3. CASE i <= m /\ j > m
    <3>1. i \in 1..m /\ j - m \in 1..n  BY <1>2, <2>3
    <3>2. r[i] = s[i] /\ r[j] = t[j - m]  BY <1>2, <1>3, <2>3
    <3> QED  BY <1>4, <1>7, <3>1, <3>2
  <2>4. CASE i > m /\ j <= m
    <3>1. j \in 1..m /\ i - m \in 1..n  BY <1>2, <2>4
    <3>2. r[j] = s[j] /\ r[i] = t[i - m]  BY <1>2, <1>3, <2>4
    <3> QED  BY <1>4, <1>7, <3>1, <3>2
  <2> QED  BY <1>2, <2>1, <2>2, <2>3, <2>4
<1>8. ASSUME NEW x \in U PROVE \E i \in 1..(m + n) : r[i] = x
  <2>1. CASE x \in S
    <3>1. PICK i \in 1..m : s[i] = x  BY <2>1 DEF Lists, m
    <3>2. i \in 1..(m + n)  BY <1>2
    <3> QED  BY <1>5, <3>1, <3>2
  <2>2. CASE x \in T
    <3>1. PICK i \in 1..n : t[i] = x  BY <2>2 DEF Lists, n
    <3> QED  BY <1>6, <3>1
  <2> QED  BY <2>1, <2>2
<1> QED  BY <1>3, <1>7, <1>8 DEF Lists, r


-----------------------------------------------------------------------------
(* The pages that mm_init_page_allocator finds.                            *)

Multiples == {k * PageSize : k \in 0..(Limit \div PageSize)}

\* The pages of the i-th region.
RegionFrames(m, i) ==
  {f \in Multiples : /\ f >= KernelEnd
                     /\ i \in Usable(m)
                     /\ m[i].addr <= f /\ f < m[i].addr + m[i].len}

\* The pages of the regions up to the i-th.
FramesUpTo(m, i) == {f \in Multiples : \E j \in 1..i : f \in RegionFrames(m, j)}

LEMMA MaxOfTwo ==
  ASSUME NEW x \in Int, NEW y \in Int
  PROVE  Max({x, y}) = IF x >= y THEN x ELSE y
<1> DEFINE z == IF x >= y THEN x ELSE y
<1>1. z \in {x, y} /\ \A u \in {x, y} : z >= u  OBVIOUS
<1>2. \A w \in {x, y} : (\A u \in {x, y} : w >= u) => w = z  OBVIOUS
<1> QED  BY <1>1, <1>2 DEF Max

LEMMA MinOfTwo ==
  ASSUME NEW x \in Int, NEW y \in Int
  PROVE  Min({x, y}) = IF x <= y THEN x ELSE y
<1> DEFINE z == IF x <= y THEN x ELSE y
<1>1. z \in {x, y} /\ \A u \in {x, y} : z <= u  OBVIOUS
<1>2. \A w \in {x, y} : (\A u \in {x, y} : w <= u) => w = z  OBVIOUS
<1> QED  BY <1>1, <1>2 DEF Min

LEMMA PageSizes ==
  /\ PageSize \in Nat \ {0} /\ PageSize >= 4
  /\ \E k \in Nat : KernelEnd = k * PageSize
  /\ \E q \in Nat : Limit + 1 = q * PageSize /\ Limit \div PageSize = q - 1
<1>1. PageSize \in Nat \ {0} /\ PageSize >= 4  BY SizesAssumption
<1>2. \E k \in Nat : KernelEnd = k * PageSize
  <2> DEFINE k == KernelEnd \div PageSize
  <2>1. KernelEnd \in Nat /\ KernelEnd % PageSize = 0  BY SizesAssumption
  <2>2. KernelEnd = k * PageSize /\ k \in Int  BY <1>1, <2>1, IsMultiple
  <2>3. k \in Nat  BY <1>1, <2>1
  <2> QED  BY <2>2, <2>3
<1>3. \E q \in Nat : Limit + 1 = q * PageSize /\ Limit \div PageSize = q - 1
  <2> DEFINE q == (Limit + 1) \div PageSize
  <2>1. Limit \in Nat /\ (Limit + 1) % PageSize = 0  BY SizesAssumption
  <2>2. Limit + 1 = q * PageSize /\ q \in Int  BY <1>1, <2>1, IsMultiple
  <2>3. q \in Nat  BY <1>1, <2>1
  <2> HIDE DEF q
  <2>4. Limit = (q - 1) * PageSize + (PageSize - 1)  BY <1>1, <2>1, <2>2
  <2>5. ((q - 1) * PageSize + (PageSize - 1)) \div PageSize = q - 1
    BY <1>1, <2>2, QuotientRemainder
  <2> QED  BY <2>2, <2>3, <2>4, <2>5
<1> QED  BY <1>1, <1>2, <1>3

\* A region gives all its pages behind the kernel, in the order of addresses.
LEMMA RegionPagesExact ==
  ASSUME NEW m \in Maps, NEW i \in DOMAIN m
  PROVE  Lists(RegionPages(m[i]), RegionFrames(m, i))
<1>1. CASE i \notin Usable(m)
  <2>1. RegionPages(m[i]) = <<>>  BY <1>1 DEF RegionPages, Usable
  <2>2. RegionFrames(m, i) = {}  BY <1>1 DEF RegionFrames
  <2> QED  BY <2>1, <2>2, ListsNothing
<1>2. CASE i \in Usable(m)
  <2> DEFINE P == PageSize
             addr == m[i].addr
             end == m[i].addr + m[i].len
             low == Max({KernelEnd, addr})
             high == Min({end, Limit})
             N == (high - low + P - 1) \div P
             s == [k \in 1..N |-> low + (k - 1) * P]
  <2>1. P \in Nat \ {0} /\ P >= 4 /\ P - 1 \in 0..(P - 1) /\ P - 2 \in 0..(P - 1)
    BY PageSizes
  <2>2. PICK k0 \in Nat : KernelEnd = k0 * P  BY PageSizes
  <2>3. PICK q \in Nat : Limit + 1 = q * P /\ Limit \div P = q - 1  BY PageSizes
  <2>4. addr \in Nat /\ m[i].len \in Nat /\ addr % P = 0 /\ m[i].len % P = 0
    BY <1>2, MapsAssumption
  <2>5. PICK a \in Nat : addr = a * P
    <3> DEFINE x == addr \div P
    <3>1. addr = x * P /\ x \in Int  BY <2>1, <2>4, IsMultiple
    <3>2. x \in Nat  BY <2>1, <2>4
    <3> QED  BY <3>1, <3>2
  <2>6. PICK b \in Nat : end = b * P
    <3> DEFINE x == m[i].len \div P
    <3>1. m[i].len = x * P /\ x \in Int  BY <2>1, <2>4, IsMultiple
    <3>2. x \in Nat  BY <2>1, <2>4
    <3> HIDE DEF x
    <3>3. end = (a + x) * P /\ a + x \in Nat  BY <2>1, <2>4, <2>5, <3>1, <3>2
    <3> QED  BY <3>3
  <2>7. RegionPages(m[i]) = s  BY <1>2 DEF RegionPages, Usable
  <2>8. PICK l \in Nat : low = l * P /\ l = IF k0 >= a THEN k0 ELSE a
    <3>1. KernelEnd \in Int /\ addr \in Int /\ Limit \in Int
      BY <2>4, SizesAssumption
    <3>2. low = IF KernelEnd >= addr THEN KernelEnd ELSE addr
      BY <3>1, MaxOfTwo
    <3>3. a * P <= k0 * P <=> a <= k0  BY <2>1, MultipleOrder
    <3> HIDE DEF low, addr
    <3>4. KernelEnd >= addr <=> k0 >= a  BY <2>2, <2>5, <3>1, <3>3
    <3>5. low = (IF k0 >= a THEN k0 ELSE a) * P  BY <2>2, <2>5, <3>2, <3>4
    <3> QED  BY <3>5
  <2>9. PICK h \in Nat : /\ h = IF b <= q THEN b ELSE q
                         /\ N = h - l
    <3>1. end \in Int /\ Limit \in Int  BY <2>4, SizesAssumption
    <3>2. high = IF end <= Limit THEN end ELSE Limit  BY <3>1, MinOfTwo
    <3>3. b * P < q * P <=> b < q  BY <2>1, MultipleOrder
    <3> HIDE DEF high, low, end
    <3>4. end <= Limit <=> b < q  BY <2>3, <2>6, <3>1, <3>3
    <3>5. CASE b < q
      <4>1. high = b * P  BY <2>6, <3>2, <3>4, <3>5
      <4>2. high - low + P - 1 = (b - l) * P + (P - 1)  BY <2>1, <2>8, <4>1
      <4>3. ((b - l) * P + (P - 1)) \div P = b - l
        BY <2>1, QuotientRemainder
      <4> QED  BY <3>5, <4>2, <4>3
    <3>6. CASE ~(b < q)
      <4>1. high = q * P - 1  BY <2>3, <3>1, <3>2, <3>4, <3>6
      <4>2. high - low + P - 1 = (q - l) * P + (P - 2)  BY <2>1, <2>8, <4>1
      <4>3. ((q - l) * P + (P - 2)) \div P = q - l
        BY <2>1, QuotientRemainder
      <4>4. q = IF b <= q THEN b ELSE q  BY <3>6
      <4> QED  BY <4>2, <4>3, <4>4
    <3> QED  BY <3>5, <3>6
  <2> HIDE DEF N, low, high
  <2>10. \A k \in 1..N : s[k] = (l + k - 1) * P
    <3> SUFFICES ASSUME NEW k \in 1..N PROVE low + (k - 1) * P = (l + k - 1) * P
      OBVIOUS
    <3>1. k \in Int  BY <2>9
    <3> QED  BY <2>1, <2>8, <3>1
  <2>11. RegionFrames(m, i) = {j * P : j \in l..(h - 1)}
    <3> DEFINE F == RegionFrames(m, i)
    <3>1. \A f : f \in F <=> /\ \E j \in 0..(q - 1) : f = j * P
                             /\ f >= k0 * P /\ a * P <= f /\ f < b * P
      BY <1>2, <2>2, <2>3, <2>5, <2>6 DEF RegionFrames, Multiples
    <3>2. ASSUME NEW j \in Int
          PROVE  /\ j * P >= k0 * P <=> j >= k0
                 /\ a * P <= j * P <=> a <= j
                 /\ j * P < b * P <=> j < b
      <4>1. k0 * P <= j * P <=> k0 <= j  BY <2>1, MultipleOrder
      <4>2. a * P <= j * P <=> a <= j  BY <2>1, MultipleOrder
      <4>3. j * P < b * P <=> j < b  BY <2>1, MultipleOrder
      <4> QED  BY <2>1, <4>1, <4>2, <4>3
    <3>3. ASSUME NEW j \in Int
          PROVE  j \in l..(h - 1) <=> /\ j \in 0..(q - 1)
                                      /\ j >= k0 /\ a <= j /\ j < b
      BY <2>8, <2>9
    <3> HIDE DEF F
    <3>4. ASSUME NEW f \in F PROVE \E j \in l..(h - 1) : f = j * P
      <4>1. PICK j \in 0..(q - 1) : f = j * P  BY <3>1
      <4>2. j \in Int  OBVIOUS
      <4>3. f >= k0 * P /\ a * P <= f /\ f < b * P  BY <3>1
      <4>4. j \in l..(h - 1)  BY <3>2, <3>3, <4>1, <4>2, <4>3
      <4> QED  BY <4>1, <4>4
    <3>5. ASSUME NEW j \in l..(h - 1) PROVE j * P \in F
      <4>1. j \in Int  BY <2>8, <2>9
      <4> QED  BY <3>1, <3>2, <3>3, <4>1
    <3> QED  BY <3>4, <3>5 DEF F
  <2>12. N \in Int /\ s \in Seq({j * P : j \in l..(h - 1)}) /\ (N >= 0 => Len(s) = N)
         /\ (N < 0 => Len(s) = 0)
    <3> DEFINE T == {j * P : j \in l..(h - 1)}
               n == IF N >= 0 THEN N ELSE 0
    <3>1. N \in Int /\ n \in Nat /\ 1..N = 1..n  BY <2>9
    <3>2. \A k \in 1..N : s[k] \in T
      <4> SUFFICES ASSUME NEW k \in 1..N PROVE (l + k - 1) * P \in T
        BY <2>10
      <4>1. l + k - 1 \in l..(h - 1)  BY <2>9
      <4> QED  BY <4>1
    <3>3. DOMAIN s = 1..N  OBVIOUS
    <3> HIDE DEF s, T
    <3>4. s \in [1..n -> T]
      <4>1. s = [k \in 1..N |-> s[k]]  BY DEF s
      <4> QED  BY <3>1, <3>2, <3>3, <4>1
    <3>5. s \in Seq(T) /\ Len(s) = n  BY <3>1, <3>4
    <3> QED  BY <3>1, <3>5 DEF T
  <2>13. \A j, k \in 1..Len(s) : s[j] = s[k] => j = k
    <3> SUFFICES ASSUME NEW j \in 1..Len(s), NEW k \in 1..Len(s), s[j] = s[k]
                 PROVE  j = k
      OBVIOUS
    <3> HIDE DEF s
    <3>1. j \in 1..N /\ k \in 1..N  BY <2>12
    <3>2. (l + j - 1) * P = (l + k - 1) * P  BY <2>10, <3>1
    <3>3. l + j - 1 \in Int /\ l + k - 1 \in Int  BY <3>1
    <3>4. l + j - 1 = l + k - 1  BY <2>1, <3>2, <3>3, MultipleOrder
    <3> QED  BY <3>1, <3>4
  <2>14. \A x \in {j * P : j \in l..(h - 1)} : \E k \in 1..Len(s) : s[k] = x
    <3> SUFFICES ASSUME NEW j \in l..(h - 1) PROVE \E k \in 1..Len(s) : s[k] = j * P
      OBVIOUS
    <3> HIDE DEF s
    <3>1. j - l + 1 \in 1..N /\ l + (j - l + 1) - 1 = j  BY <2>9
    <3>2. j - l + 1 \in 1..Len(s)  BY <2>12, <3>1
    <3> QED  BY <2>10, <3>1, <3>2
  <2> HIDE DEF s
  <2> QED  BY <2>7, <2>11, <2>12, <2>13, <2>14 DEF Lists
<1> QED  BY <1>1, <1>2

LEMMA NoPagesYet ==
  ASSUME NEW m PROVE FramesUpTo(m, 0) = {}
BY DEF FramesUpTo

LEMMA OneMoreRegion ==
  ASSUME NEW m, NEW i \in Nat
  PROVE  FramesUpTo(m, i + 1) = FramesUpTo(m, i) \cup RegionFrames(m, i + 1)
<1>1. \A j : j \in 1..(i + 1) <=> j \in 1..i \/ j = i + 1  OBVIOUS
<1>2. RegionFrames(m, i + 1) \subseteq Multiples  BY DEF RegionFrames
<1> QED  BY <1>1, <1>2 DEF FramesUpTo

LEMMA RegionsDisjoint ==
  ASSUME NEW m \in Maps, NEW i \in DOMAIN m, NEW j \in DOMAIN m, i # j
  PROVE  RegionFrames(m, i) \cap RegionFrames(m, j) = {}
<1> SUFFICES ASSUME NEW f \in RegionFrames(m, i), f \in RegionFrames(m, j)
             PROVE  FALSE
  OBVIOUS
<1>1. i \in Usable(m) /\ j \in Usable(m)  BY DEF RegionFrames
<1>2. f \in Nat  BY PageSizes DEF RegionFrames, Multiples
<1>3. /\ m[i].addr \in Nat /\ m[i].len \in Nat
      /\ m[j].addr \in Nat /\ m[j].len \in Nat
      /\ \/ m[i].addr + m[i].len <= m[j].addr
         \/ m[j].addr + m[j].len <= m[i].addr
  BY <1>1, MapsAssumption
<1>4. /\ m[i].addr <= f /\ f < m[i].addr + m[i].len
      /\ m[j].addr <= f /\ f < m[j].addr + m[j].len
  BY DEF RegionFrames
<1> QED  BY <1>2, <1>3, <1>4

(* mm_init_page_allocator finds every page of usable memory behind the     *)
(* kernel, once.                                                           *)
LEMMA BootPagesExact ==
  ASSUME NEW m \in Maps
  PROVE  Lists(BootPages(m), FramesOf(m)) /\ Len(BootPages(m)) >= TakenAtBoot
<1> DEFINE n == Len(m)
           seqs == [i \in DOMAIN m |-> RegionPages(m[i])]
           f == CHOOSE h : IsFlat(h, seqs)
<1>1. n \in Nat /\ DOMAIN m = 1..n /\ Len(BootPages(m)) >= TakenAtBoot
  BY MapsAssumption
<1>2. seqs \in Seq(Seq(Multiples)) /\ Len(seqs) = n
  <2>1. \A i \in 1..n : RegionPages(m[i]) \in Seq(Multiples)
    <3> SUFFICES ASSUME NEW i \in 1..n PROVE RegionPages(m[i]) \in Seq(Multiples)
      OBVIOUS
    <3>1. RegionPages(m[i]) \in Seq(RegionFrames(m, i))
      BY <1>1, RegionPagesExact DEF Lists
    <3>2. RegionFrames(m, i) \subseteq Multiples  BY DEF RegionFrames
    <3> QED  BY <3>1, <3>2, SeqMonotonic
  <2> DEFINE S == Seq(Multiples)
  <2>2. seqs \in [1..n -> S]  BY <1>1, <2>1
  <2> HIDE DEF S, seqs, n
  <2>3. seqs \in Seq(S) /\ Len(seqs) = n  BY <1>1, <2>2
  <2> QED  BY <2>3 DEF S
<1>3. n # 0
  <2> SUFFICES ASSUME n = 0 PROVE FALSE  OBVIOUS
  <2>1. BootPages(m) = seqs /\ Len(seqs) = 0
    BY <1>2 DEF BootPages, FlattenSeq
  <2>2. StackPages \in Nat \ {0}  BY SizesAssumption
  <2> HIDE DEF seqs
  <2> QED  BY <1>1, <2>1, <2>2 DEF TakenAtBoot
<1>4. IsFlat(f, seqs)
  <2> HIDE DEF seqs
  <2>1. Len(seqs) # 0  BY <1>2, <1>3
  <2>2. \E h : IsFlat(h, seqs)  BY <1>2, <2>1, FlatExists
  <2> QED  BY <2>2
<1>5. BootPages(m) = f[n]
  BY <1>2, <1>3 DEF BootPages, FlattenSeq, IsFlat
<1> HIDE DEF f
<1>6. /\ f[1] = RegionPages(m[1])
      /\ \A i \in 1..n : i # 1 => f[i] = f[i - 1] \o RegionPages(m[i])
  <2>1. \A i \in 1..n : seqs[i] = RegionPages(m[i])  BY <1>1
  <2>2. \A i \in 1..n : f[i] = IF i = 1 THEN seqs[i] ELSE f[i - 1] \o seqs[i]
    <3> HIDE DEF seqs
    <3> QED  BY <1>2, <1>4 DEF IsFlat
  <2> HIDE DEF seqs
  <2>3. 1 \in 1..n  BY <1>1, <1>3
  <2> QED  BY <2>1, <2>2, <2>3
<1> HIDE DEF seqs
<1> DEFINE Bad == {i \in 1..n : ~Lists(f[i], FramesUpTo(m, i))}
<1>7. Bad = {}
  <2> SUFFICES ASSUME Bad # {} PROVE FALSE  OBVIOUS
  <2>1. PICK i \in Bad : \A k \in Bad : i <= k
    <3>1. Bad \in SUBSET Nat  OBVIOUS
    <3> HIDE DEF Bad
    <3> QED  BY <3>1, LeastElement
  <2>2. i \in 1..n /\ i \in DOMAIN m  BY <1>1
  <2>3. Lists(RegionPages(m[i]), RegionFrames(m, i))
    BY <2>2, RegionPagesExact
  <2>4. FramesUpTo(m, i) = FramesUpTo(m, i - 1) \cup RegionFrames(m, i)
    <3>1. i - 1 \in Nat /\ (i - 1) + 1 = i  BY <2>2
    <3> QED  BY <3>1, OneMoreRegion
  <2>5. CASE i = 1
    <3>1. FramesUpTo(m, i) = RegionFrames(m, i)  BY <2>4, <2>5, NoPagesYet
    <3> QED  BY <1>6, <2>3, <2>5, <3>1
  <2>6. CASE i # 1
    <3>1. i - 1 \in 1..n /\ ~(i <= i - 1)  BY <2>2, <2>6
    <3>2. Lists(f[i - 1], FramesUpTo(m, i - 1))  BY <2>1, <3>1
    <3>3. FramesUpTo(m, i - 1) \cap RegionFrames(m, i) = {}
      <4> SUFFICES ASSUME NEW x \in FramesUpTo(m, i - 1), x \in RegionFrames(m, i)
                   PROVE  FALSE
        OBVIOUS
      <4>1. PICK j \in 1..(i - 1) : x \in RegionFrames(m, j)  BY DEF FramesUpTo
      <4>2. j \in DOMAIN m /\ i # j  BY <1>1, <2>2
      <4> QED  BY <2>2, <4>1, <4>2, RegionsDisjoint
    <3>4. f[i] = f[i - 1] \o RegionPages(m[i])  BY <1>6, <2>2, <2>6
    <3>5. Lists(f[i], FramesUpTo(m, i))
      BY <2>3, <2>4, <3>2, <3>3, <3>4, ListsConcat
    <3> QED  BY <3>5
  <2> QED  BY <2>5, <2>6
<1>8. FramesUpTo(m, n) = FramesOf(m)
  BY <1>1 DEF FramesUpTo, RegionFrames, FramesOf, Multiples, Usable
<1>9. Lists(f[n], FramesUpTo(m, n))  BY <1>1, <1>3, <1>7
<1> QED  BY <1>1, <1>5, <1>8, <1>9

-----------------------------------------------------------------------------
(* The inductive invariant.                                                *)

SlotSet == 0..(Slots - 1)
PageSet == 1..StackPages

\* What may be in first_free_page, and in the first word of a page.
Values == {v \in Nat : Frame(v) \in Frames \cup {0}}

ListTypes ==
  /\ mmap \in Maps
  /\ first_free_page \in Values
  /\ DOMAIN word = Frames \cup {0}
  /\ \A f \in Frames \cup {0} : word[f] \in Values

TableTypes ==
  /\ pte \in [Entries -> Nat]
  /\ heap \in Seq(Nat)
  /\ tables \in [0..TableOf(HeapPages) -> Nat]

LocalTypes ==
  /\ pc \in [Threads -> {"idle", "pages", "oom", "map", "mapped", "grow"}]
  /\ pages \in [Threads -> Seq(Values)]
  /\ slot \in [Threads -> SlotSet \cup {-1}]
  /\ index \in [Threads -> 1..(StackPages + 1)]

SlotTypes ==
  /\ live \in SUBSET SlotSet
  /\ BootSlots \subseteq live
  /\ bitmap \in SUBSET SlotSet
  /\ reap = NoReap \/ reap \in [slot : SlotSet, page : 1..(StackPages + 1)]
  /\ reap # NoReap => reap.slot \in exited

Types == ListTypes /\ TableTypes /\ LocalTypes /\ SlotTypes

\* Where the threads are, and what their locals hold there.
Places ==
  /\ \A t \in Threads :
       /\ Claimed(t) <=> pc[t] \in {"map", "mapped"}
       /\ pc[t] \notin {"map", "mapped"} => index[t] = 1
       /\ pc[t] = "map" => Len(pages[t]) = StackPages
       /\ pc[t] = "pages" => Len(pages[t]) <= StackPages
       /\ pc[t] = "idle" /\ panicked = "no" => pages[t] = <<>>
       /\ InMalloc(t) => Len(pages[t]) = 1 /\ Len(heap) < HeapPages
  /\ \A t, u \in Threads : InMalloc(t) /\ InMalloc(u) => t = u

\* The entries of the slots: set up, not yet set up, or left by a dead thread.
Mappings ==
  /\ \A s \in live : \A i \in PageSet : Present(pte[<<s, i>>])
  /\ \A t \in Threads : pc[t] = "mapped" => slot[t] \in exited
  /\ \A t \in Threads : Claimed(t) =>
       \A i \in PageSet : i < index[t] => Present(pte[<<slot[t], i>>])
  /\ \A t \in Threads : Claimed(t) /\ slot[t] \notin exited =>
       \A i \in PageSet : i >= index[t] => pte[<<slot[t], i>>] = 0
  /\ \A s \in SlotSet \ exited : s \notin bitmap => \A i \in PageSet : pte[<<s, i>>] = 0

\* BitmapExact, slot by slot.
BitmapOf(s) ==
  \/ s \in live
  \/ \E t \in Threads : Claimed(t) /\ slot[t] = s
  \/ reap # NoReap /\ reap.slot = s

Bits == \A s : s \in bitmap <=> BitmapOf(s)

SlotInv == Types /\ Places /\ SlotsExclusive /\ Bits /\ Mappings

-----------------------------------------------------------------------------
\* The list of the elements of S that starts with head and is linked by nx.
FreeList(head, S, nx) ==
  /\ head \in S \cup {0}
  /\ \A f \in S : nx[f] \in S \cup {0} /\ nx[f] # f
  /\ \A f \in S : nx[f] # 0 => nx[f] # head
  /\ \A f, g \in S : nx[f] = nx[g] /\ nx[f] # 0 => f = g
  /\ \A X \in SUBSET S :
       (head # 0 => head \in X) /\ (\A f \in X : nx[f] # 0 => nx[f] \in X)
         => X = S

Exclusive(U) == \A u, v \in U : u[3] = v[3] /\ u[3] # 0 => u = v

\* The frames F has are the only ones, but for those of the kernel and frame 0.
InMemory(F, U) ==
  \A u \in U : \/ u[3] \in F
               \/ u[1] \in {"stack", "table"} /\ u[3] \in {BootStack, BootTable}
               \/ u[1] = "table" /\ u[3] = 0

Used(U) == {u[3] : u \in U}

Memory(F, U, head, nx) ==
  FreeList(head, F \ Used(U), nx) /\ Exclusive(U) /\ InMemory(F, U)

MemoryInv == exited = {} => Memory(Frames, Uses, first_free_page, word)


-----------------------------------------------------------------------------
(* Frames and page table entries.                                          *)

\* An entry for a page is present, and gives its frame back.
LEMMA FrameFacts ==
  ASSUME NEW a \in Nat
  PROVE  /\ Frame(a) \in Nat
         /\ Mapped(a) \in Nat /\ Present(Mapped(a)) /\ Frame(Mapped(a)) = Frame(a)
         /\ a % PageSize = 0 => Frame(a) = a
<1> DEFINE P == PageSize
           q == a \div P
           h == P \div 2
           r == a % P
<1>1. P \in Nat \ {0} /\ P >= 4 /\ P % 2 = 0  BY SizesAssumption
<1>2. a = q * P + r /\ q \in Nat /\ r \in 0..(P - 1)  BY <1>1
<1>3. P = 2 * h /\ h \in Nat  BY <1>1
<1> HIDE DEF q, h, r
<1>4. Frame(a) = q * P
  <2>1. Frame(a) = a - r  BY DEF Frame, r
  <2> QED  BY <1>1, <1>2, <2>1
<1>5. q * P \in Nat  BY <1>1, <1>2
<1>6. (q * P + 3) % P = 3  BY <1>1, <1>2, QuotientRemainder
<1>7. Mapped(a) = q * P + 3  BY <1>4 DEF Mapped
<1>8. Frame(Mapped(a)) = q * P  BY <1>1, <1>5, <1>6, <1>7 DEF Frame
<1>9. Present(Mapped(a))
  <2>1. q * P + 3 = (q * h + 1) * 2 + 1  BY <1>2, <1>3
  <2>2. q * h + 1 \in Int  BY <1>2, <1>3
  <2>3. ((q * h + 1) * 2 + 1) % 2 = 1  BY <2>2, QuotientRemainder
  <2> QED  BY <1>7, <2>1, <2>3 DEF Present
<1> QED  BY <1>4, <1>5, <1>7, <1>8, <1>9 DEF Frame

\* The frames of usable memory are pages behind the kernel.
LEMMA FramesOfMemory ==
  ASSUME NEW f \in Frames
  PROVE  f \in Nat /\ f > 0 /\ f >= KernelEnd /\ Frame(f) = f
<1>1. f \in Multiples /\ f >= KernelEnd  BY DEF Frames, FramesOf, Multiples
<1>2. PICK k \in Nat : f = k * PageSize
  BY <1>1, SizesAssumption DEF Multiples
<1>3. PageSize \in Nat \ {0} /\ KernelEnd \in Nat /\ KernelEnd > 2 * PageSize
      /\ PageSize >= 4
  BY SizesAssumption
<1>4. f \in Nat /\ f > 0  BY <1>1, <1>2, <1>3
<1>5. f % PageSize = 0
  <2>1. (k * PageSize + 0) % PageSize = 0  BY <1>3, QuotientRemainder
  <2>2. k * PageSize + 0 = f  BY <1>2, <1>3
  <2> QED  BY <2>1, <2>2
<1>6. Frame(f) = f  BY <1>4, <1>5, FrameFacts
<1> QED  BY <1>1, <1>4, <1>6

\* What mm_free_physical_page may be called with.
LEMMA SmallValues ==
  /\ 0 \in Values /\ 1 \in Values /\ Frames \subseteq Values
  /\ Frame(0) = 0 /\ Frame(Mapped(0)) = 0
<1>1. PageSize \in Nat \ {0} /\ PageSize >= 4  BY SizesAssumption
<1>2. 0 % PageSize = 0 /\ 1 % PageSize = 1  BY <1>1
<1>3. Frame(0) = 0 /\ Frame(1) = 0  BY <1>2 DEF Frame
<1>4. Frame(Mapped(0)) = 0  BY <1>3, FrameFacts
<1> QED  BY <1>3, <1>4, FramesOfMemory DEF Values

\* Values depends on the memory map alone.
LEMMA ValuesKept ==
  ASSUME mmap' = mmap
  PROVE  Values' = Values /\ Frames' = Frames
BY DEF Values, Frames

-----------------------------------------------------------------------------
(* The slots.                                                              *)

\* A slot and a page of it are an entry, and nothing else is.
LEMMA EntryPairs ==
  /\ \A s \in SlotSet, i \in PageSet : <<s, i>> \in Entries
  /\ \A s, i, u, j : <<s, i>> = <<u, j>> <=> s = u /\ i = j
BY DEF Entries, SlotSet, PageSet

\* mm_alloc_physical_page takes the first page of the list.
LEMMA AllocTypes ==
  ASSUME ListTypes, mmap' = mmap, mm_alloc_physical_page(first_free_page)
  PROVE  ListTypes'
<1>1. Values' = Values /\ Frames' = Frames  BY ValuesKept
<1> DEFINE f == Frame(first_free_page)
<1>2. f \in Frames \cup {0}  BY DEF ListTypes, Values
<1>3. /\ first_free_page' = word[f] /\ word' = [word EXCEPT ![f] = 0]
  BY DEF mm_alloc_physical_page
<1> HIDE DEF f
<1>4. first_free_page' \in Values  BY <1>2, <1>3 DEF ListTypes
<1>5. DOMAIN word' = Frames \cup {0}  BY <1>3 DEF ListTypes
<1>6. \A g \in Frames \cup {0} : word'[g] = word[g] \/ word'[g] = 0
  BY <1>3 DEF ListTypes
<1>7. \A g \in Frames \cup {0} : word'[g] \in Values
  BY <1>6, SmallValues DEF ListTypes
<1> QED  BY <1>1, <1>4, <1>5, <1>7 DEF ListTypes

\* mm_free_physical_page puts a page in front.
LEMMA FreeTypes ==
  ASSUME ListTypes, mmap' = mmap, NEW page \in Values, mm_free_physical_page(page)
  PROVE  ListTypes'
<1>1. Values' = Values /\ Frames' = Frames  BY ValuesKept
<1> DEFINE f == Frame(page)
<1>3. /\ first_free_page' = page /\ word' = [word EXCEPT ![f] = first_free_page]
  BY DEF mm_free_physical_page
<1> HIDE DEF f
<1>5. DOMAIN word' = Frames \cup {0}  BY <1>3 DEF ListTypes
<1>6. \A g \in Frames \cup {0} : word'[g] = word[g] \/ word'[g] = first_free_page
  BY <1>3 DEF ListTypes
<1>7. \A g \in Frames \cup {0} : word'[g] \in Values
  BY <1>6 DEF ListTypes
<1> QED  BY <1>1, <1>3, <1>5, <1>7 DEF ListTypes

LEMMA ListTypesKept ==
  ASSUME ListTypes, UNCHANGED <<mmap, first_free_page, word>>
  PROVE  ListTypes'
BY ValuesKept DEF ListTypes

\* The slots, and the entries of the stacks, stay as they are.
LEMMA SlotsKept ==
  ASSUME SlotInv, UNCHANGED <<pte, bitmap, slot, index, live, reap, exited>>,
         \A t \in Threads : pc'[t] = "mapped" => pc[t] = "mapped"
  PROVE  SlotTypes' /\ SlotsExclusive' /\ Bits' /\ Mappings'
<1>1. SlotTypes'  BY DEF SlotInv, Types, SlotTypes
<1>2. SlotsExclusive'  BY DEF SlotInv, SlotsExclusive, Claimed
<1>3. Bits'  BY DEF SlotInv, Bits, BitmapOf, Claimed
<1>4. Mappings'  BY DEF SlotInv, Mappings, Claimed
<1> QED  BY <1>1, <1>2, <1>3, <1>4

\* The locals of thread t: pc becomes to, pages becomes p.
LEMMA LocalsSet ==
  ASSUME LocalTypes, mmap' = mmap, NEW t \in Threads, NEW to, NEW p \in Seq(Values),
         to \in {"idle", "pages", "oom", "map", "mapped", "grow"},
         pc' = [pc EXCEPT ![t] = to], pages' = [pages EXCEPT ![t] = p],
         UNCHANGED <<slot, index>>
  PROVE  /\ LocalTypes'
         /\ pc'[t] = to /\ pages'[t] = p
         /\ \A u \in Threads : u # t => pc'[u] = pc[u] /\ pages'[u] = pages[u]
<1> DEFINE V == Seq(Values)
<1>1. Values' = Values  BY ValuesKept
<1>2. pages \in [Threads -> V] /\ p \in V  BY DEF LocalTypes
<1> HIDE DEF V
<1>3. /\ pages' \in [Threads -> V]
      /\ pages'[t] = p /\ \A u \in Threads : u # t => pages'[u] = pages[u]
  BY <1>2
<1>4. /\ pc' \in [Threads -> {"idle", "pages", "oom", "map", "mapped", "grow"}]
      /\ pc'[t] = to /\ \A u \in Threads : u # t => pc'[u] = pc[u]
  BY DEF LocalTypes
<1>5. LocalTypes'  BY <1>1, <1>3, <1>4 DEF LocalTypes, V
<1> QED  BY <1>3, <1>4, <1>5

LEMMA CallKeeps ==
  ASSUME SlotInv, NEW t \in Threads, Call(t)
  PROVE  SlotInv'
<1> USE DEF SlotInv, Types
<1>1. /\ pc[t] = "idle" /\ pc' = [pc EXCEPT ![t] = "pages"] /\ panicked = "no"
      /\ UNCHANGED <<first_free_page, word, pte, mmap, heap, tables, bitmap, pages,
                     slot, index, live, reap, panicked, exited>>
  BY DEF Call, At, heap_pages
<1>2. pages[t] \in Seq(Values) /\ pages' = [pages EXCEPT ![t] = pages[t]]
  BY <1>1 DEF LocalTypes
<1>3. /\ LocalTypes' /\ pc'[t] = "pages"
      /\ \A u \in Threads : u # t => pc'[u] = pc[u] /\ pages'[u] = pages[u]
  BY <1>1, <1>2, LocalsSet
<1>4. ListTypes' /\ TableTypes'  BY <1>1, ListTypesKept DEF TableTypes
<1>5. SlotTypes' /\ SlotsExclusive' /\ Bits' /\ Mappings'
  BY <1>1, <1>3, SlotsKept
<1>6. Places'
  <2>1. Len(pages[t]) <= StackPages
    <3>1. pages[t] = <<>>  BY <1>1 DEF Places
    <3>2. StackPages \in Nat  BY SizesAssumption
    <3> QED  BY <3>1, <3>2
  <2> QED  BY <1>1, <1>3, <2>1 DEF Places, Claimed, InMalloc
<1> QED  BY <1>3, <1>4, <1>5, <1>6

LEMMA AllocPageKeeps ==
  ASSUME SlotInv, NEW t \in Threads, AllocPage(t)
  PROVE  SlotInv'
<1> USE DEF SlotInv, Types
<1>1. /\ pc[t] = "pages" /\ panicked = "no" /\ Len(pages[t]) < StackPages
      /\ UNCHANGED <<pte, mmap, heap, tables, bitmap, slot, index, live, reap,
                     panicked, exited>>
  BY DEF AllocPage, At, heap_pages
<1>2. pages[t] \in Seq(Values) /\ StackPages \in Nat
  BY SizesAssumption DEF LocalTypes
<1>3. PICK to \in {"pages", "oom"}, p \in Seq(Values) :
        /\ pc' = [pc EXCEPT ![t] = to] /\ pages' = [pages EXCEPT ![t] = p]
        /\ Len(p) <= StackPages
        /\ ListTypes'
  <2>1. CASE /\ mm_alloc_physical_page(first_free_page)
             /\ pages' = [pages EXCEPT ![t] = Append(@, first_free_page)]
             /\ At(t, "pages", "pages")
    <3>1. ListTypes'  BY <1>1, <2>1, AllocTypes
    <3>2. first_free_page \in Values  BY DEF ListTypes
    <3> DEFINE p == Append(pages[t], first_free_page)
    <3>3. p \in Seq(Values) /\ Len(p) = Len(pages[t]) + 1
      <4> DEFINE q == pages[t]
      <4> HIDE DEF q
      <4>1. q \in Seq(Values)  BY <1>2 DEF q
      <4>2. Append(q, first_free_page) \in Seq(Values)
            /\ Len(Append(q, first_free_page)) = Len(q) + 1
        BY <3>2, <4>1
      <4> QED  BY <4>2 DEF q
    <3>4. Len(p) <= StackPages  BY <1>1, <1>2, <3>3
    <3>5. pc' = [pc EXCEPT ![t] = "pages"] /\ pages' = [pages EXCEPT ![t] = p]
      BY <2>1 DEF At
    <3> HIDE DEF p
    <3> QED  BY <3>1, <3>3, <3>4, <3>5
  <2>2. CASE /\ At(t, "pages", "oom") /\ UNCHANGED <<first_free_page, word, pages>>
    <3>1. ListTypes'  BY <1>1, <2>2, ListTypesKept
    <3>2. pages' = [pages EXCEPT ![t] = pages[t]]  BY <2>2 DEF LocalTypes
    <3>3. pc' = [pc EXCEPT ![t] = "oom"]  BY <2>2 DEF At
    <3>4. Len(pages[t]) <= StackPages  BY <1>1, <1>2
    <3> QED  BY <1>2, <3>1, <3>2, <3>3, <3>4
  <2> QED  BY <2>1, <2>2 DEF AllocPage
<1>4. /\ LocalTypes' /\ pc'[t] = to /\ pages'[t] = p
      /\ \A u \in Threads : u # t => pc'[u] = pc[u] /\ pages'[u] = pages[u]
  BY <1>1, <1>3, LocalsSet
<1>5. TableTypes'  BY <1>1 DEF TableTypes
<1>6. SlotTypes' /\ SlotsExclusive' /\ Bits' /\ Mappings'
  BY <1>1, <1>4, SlotsKept
<1>7. Places'  BY <1>1, <1>3, <1>4 DEF Places, Claimed, InMalloc
<1> QED  BY <1>3, <1>4, <1>5, <1>6, <1>7

\* find_free_bit gives a slot that nobody has.
LEMMA FindSlotKeeps ==
  ASSUME SlotInv, NEW t \in Threads, FindSlot(t)
  PROVE  SlotInv'
<1> USE DEF SlotInv, Types
<1> DEFINE free == (0..(Slots - 1)) \ bitmap
<1>1. /\ pc[t] = "pages" /\ panicked = "no" /\ Len(pages[t]) = StackPages
      /\ UNCHANGED <<first_free_page, word, pte, mmap, heap, tables, pages, index,
                     live, reap, exited>>
  BY DEF FindSlot, At, heap_pages
<1>2. ListTypes' /\ TableTypes'  BY <1>1, ListTypesKept DEF TableTypes
<1>3. pages[t] \in Seq(Values) /\ pages' = [pages EXCEPT ![t] = pages[t]]
  BY <1>1 DEF LocalTypes
<1>4. Values' = Values  BY <1>1, ValuesKept
<1>5. CASE /\ free # {} /\ At(t, "pages", "map")
           /\ slot' = [slot EXCEPT ![t] = Min(free)]
           /\ bitmap' = Reserved(Min(free))
           /\ UNCHANGED panicked
  <2> DEFINE n == Min(free)
  <2>1. n \in free
    <3>1. free \in SUBSET Nat /\ free # {}  BY <1>5, SizesAssumption
    <3> HIDE DEF free
    <3> QED  BY <3>1, MinIsSmallest
  <2>2. /\ n \in SlotSet /\ n \notin bitmap /\ n # -1
        /\ n \notin live
        /\ (\A u \in Threads : Claimed(u) => slot[u] # n)
        /\ (reap = NoReap \/ reap.slot # n)
    <3>1. n \in SlotSet /\ n \notin bitmap  BY <2>1 DEF SlotSet
    <3> HIDE DEF n, free
    <3>2. n # -1  BY <3>1, SizesAssumption DEF SlotSet
    <3>3. ~BitmapOf(n)  BY <3>1 DEF Bits
    <3> QED  BY <3>1, <3>2, <3>3 DEF BitmapOf
  <2> HIDE DEF n, free
  <2>3. /\ slot' = [slot EXCEPT ![t] = n] /\ bitmap' = bitmap \cup {n}
        /\ pc' = [pc EXCEPT ![t] = "map"] /\ panicked' = "no"
    BY <1>1, <1>5 DEF At, Reserved, n
  <2>4. /\ slot' \in [Threads -> SlotSet \cup {-1}] /\ slot'[t] = n
        /\ \A u \in Threads : u # t => slot'[u] = slot[u]
    BY <2>2, <2>3 DEF LocalTypes
  <2>5. /\ pc' \in [Threads -> {"idle", "pages", "oom", "map", "mapped", "grow"}]
        /\ pc'[t] = "map" /\ \A u \in Threads : u # t => pc'[u] = pc[u]
    BY <2>3 DEF LocalTypes
  <2>6. LocalTypes'  BY <1>1, <1>4, <2>4, <2>5 DEF LocalTypes
  <2>7. SlotTypes'  BY <1>1, <2>2, <2>3 DEF SlotTypes
  <2>8. Places'
    BY <1>1, <2>2, <2>3, <2>4, <2>5 DEF Places, Claimed, InMalloc
  <2>9. reap.slot # n
    BY <2>2 DEF NoReap
  <2>10. SlotsExclusive'
    BY <1>1, <2>2, <2>4, <2>9 DEF SlotsExclusive, Claimed
  <2>11. Bits'
    <3>1. ~Claimed(t)  BY <1>1 DEF Places
    <3>2. \A s : BitmapOf(s)' <=> BitmapOf(s) \/ s = n
      BY <1>1, <2>2, <2>4, <3>1 DEF BitmapOf, Claimed
    <3> QED  BY <2>3, <3>2 DEF Bits
  <2>12. Mappings'
    <3>1. index[t] = 1  BY <1>1 DEF Places
    <3>2. n \notin exited => \A i \in PageSet : pte[<<n, i>>] = 0
      BY <2>2 DEF Mappings
    <3>3. \A i \in PageSet : ~(i < 1)  BY SizesAssumption DEF PageSet
    <3> QED  BY <1>1, <2>2, <2>3, <2>4, <2>5, <3>1, <3>2, <3>3
        DEF Mappings, Claimed
  <2> QED  BY <1>2, <2>6, <2>7, <2>8, <2>10, <2>11, <2>12
<1>6. CASE /\ At(t, "pages", "idle") /\ panicked' = "slots"
           /\ UNCHANGED <<slot, bitmap>>
  <2>1. pc' = [pc EXCEPT ![t] = "idle"]  BY <1>6 DEF At
  <2>2. /\ LocalTypes' /\ pc'[t] = "idle"
        /\ \A u \in Threads : u # t => pc'[u] = pc[u] /\ pages'[u] = pages[u]
    BY <1>1, <1>3, <1>6, <2>1, LocalsSet
  <2>3. SlotTypes' /\ SlotsExclusive' /\ Bits' /\ Mappings'
    BY <1>1, <1>6, <2>2, SlotsKept
  <2>4. Places'
    BY <1>1, <1>6, <2>2 DEF Places, Claimed, InMalloc
  <2> QED  BY <1>2, <2>2, <2>3, <2>4
<1> QED  BY <1>5, <1>6 DEF FindSlot

(* mm_map_page sets an entry that is 0, and only finds another one where a *)
(* dead thread left it.                                                    *)
LEMMA MapPageKeeps ==
  ASSUME SlotInv, NEW t \in Threads, MapPage(t)
  PROVE  SlotInv'
<1> USE DEF SlotInv, Types
<1> DEFINE s == slot[t]
           k == index[t]
           entry == <<slot[t], index[t]>>
           page == pages[t][index[t]]
<1>1. /\ pc[t] = "map" /\ k <= StackPages
      /\ UNCHANGED <<first_free_page, word, mmap, heap, tables, bitmap, pages, slot,
                     live, reap, panicked, exited>>
  BY DEF MapPage, MorePages, heap_pages
<1>2. ListTypes'  BY <1>1, ListTypesKept
<1>3. /\ Claimed(t) /\ s \in SlotSet /\ k \in PageSet
      /\ Len(pages[t]) = StackPages /\ entry \in Entries
  <2>1. Claimed(t) /\ Len(pages[t]) = StackPages  BY <1>1 DEF Places
  <2>2. s \in SlotSet  BY <2>1 DEF Claimed, LocalTypes
  <2>3. k \in PageSet  BY <1>1, SizesAssumption DEF LocalTypes, PageSet
  <2> QED  BY <2>1, <2>2, <2>3, EntryPairs
<1>4. pages[t] \in Seq(Values) /\ pages' = [pages EXCEPT ![t] = pages[t]]
  BY <1>1 DEF LocalTypes
<1>5. page \in Nat
  <2>1. page \in Values
    <3> DEFINE p == pages[t]
    <3>1. p \in Seq(Values) /\ k \in 1..Len(p)  BY <1>3, <1>4 DEF PageSet
    <3> HIDE DEF p, k
    <3>2. p[k] \in Values  BY <3>1
    <3> QED  BY <3>2 DEF p, k
  <2> QED  BY <2>1 DEF Values
<1>6. CASE /\ Mappable(pte[entry]) /\ At(t, "map", "map")
           /\ pte' = [pte EXCEPT ![entry] = Mapped(page)]
           /\ index' = [index EXCEPT ![t] = @ + 1]
  <2>1. Mapped(page) \in Nat /\ Present(Mapped(page))  BY <1>5, FrameFacts
  <2>2. pc' = [pc EXCEPT ![t] = "map"]  BY <1>6 DEF At
  <2>3. pc' = pc  BY <1>1, <2>2 DEF LocalTypes
  <2>4. /\ index' \in [Threads -> 1..(StackPages + 1)] /\ index'[t] = k + 1
        /\ \A u \in Threads : u # t => index'[u] = index[u]
    BY <1>3, <1>6, SizesAssumption DEF LocalTypes, PageSet
  <2>5. LocalTypes'
    <3>1. Values' = Values  BY <1>1, ValuesKept
    <3> QED  BY <1>1, <2>3, <2>4, <3>1 DEF LocalTypes
  <2>6. /\ pte' \in [Entries -> Nat] /\ pte'[entry] = Mapped(page)
        /\ \A e \in Entries : e # entry => pte'[e] = pte[e]
    <3> HIDE DEF entry, page
    <3> QED  BY <1>3, <1>6, <2>1 DEF TableTypes
  <2>7. TableTypes'  BY <1>1, <2>6 DEF TableTypes
  <2>8. SlotTypes'  BY <1>1 DEF SlotTypes
  <2>9. Places'
    BY <1>1, <2>3, <2>4 DEF Places, Claimed, InMalloc
  <2>10. SlotsExclusive' /\ Bits'
    BY <1>1 DEF SlotsExclusive, Bits, BitmapOf, Claimed
  <2>11. \A r \in SlotSet : r # s => \A i \in PageSet : pte'[<<r, i>>] = pte[<<r, i>>]
    BY <2>6, EntryPairs
  <2>12. \A i \in PageSet : i # k => pte'[<<s, i>>] = pte[<<s, i>>]
    BY <1>3, <2>6, EntryPairs
  <2>13. Present(pte'[<<s, k>>])  BY <2>1, <2>6
  <2>14. /\ s \notin live /\ s \in bitmap
         /\ \A u \in Threads : Claimed(u) /\ slot[u] = s => u = t
    BY <1>3 DEF SlotsExclusive, Bits, BitmapOf
  <2>15. Mappings'
    <3> HIDE DEF s, k, entry, page
    <3>0. s = slot[t] /\ k = index[t]  BY DEF s, k
    <3>1. \A r \in live' : \A i \in PageSet : Present(pte'[<<r, i>>])
      BY <1>1, <2>11, <2>14 DEF Mappings, SlotTypes
    <3>2. \A u \in Threads : pc'[u] = "mapped" => slot'[u] \in exited'
      BY <1>1, <2>3 DEF Mappings
    <3>3. ASSUME NEW u \in Threads, Claimed(u)
          PROVE  /\ \A i \in PageSet : i < index'[u] => Present(pte'[<<slot[u], i>>])
                 /\ slot[u] \notin exited =>
                      \A i \in PageSet : i >= index'[u] => pte'[<<slot[u], i>>] = 0
      <4>1. CASE u = t
        <5>1. ASSUME NEW i \in PageSet, i < k + 1 PROVE Present(pte'[<<s, i>>])
          <6>1. CASE i = k  BY <2>13, <6>1
          <6>2. CASE i # k
            <7>1. i < k  BY <1>3, <5>1, <6>2 DEF PageSet
            <7> QED  BY <1>3, <2>12, <3>0, <6>2, <7>1 DEF Mappings
          <6> QED  BY <6>1, <6>2
        <5>2. ASSUME NEW i \in PageSet, i >= k + 1, s \notin exited
              PROVE  pte'[<<s, i>>] = 0
          <6>1. i # k /\ i >= k  BY <1>3, <5>2 DEF PageSet
          <6> QED  BY <1>3, <2>12, <3>0, <5>2, <6>1 DEF Mappings
        <5> QED  BY <2>4, <3>0, <4>1, <5>1, <5>2
      <4>2. CASE u # t
        <5>1. slot[u] # s /\ slot[u] \in SlotSet
          BY <2>14, <3>3, <4>2 DEF Claimed, LocalTypes
        <5> QED  BY <2>4, <2>11, <3>3, <4>2, <5>1 DEF Mappings
      <4> QED  BY <4>1, <4>2
    <3>4. \A r \in SlotSet \ exited : r \notin bitmap =>
            \A i \in PageSet : pte'[<<r, i>>] = 0
      BY <2>11, <2>14 DEF Mappings
    <3> QED  BY <1>1, <3>1, <3>2, <3>3, <3>4 DEF Mappings, Claimed
  <2> QED  BY <1>2, <2>5, <2>7, <2>8, <2>9, <2>10, <2>15
<1>7. CASE /\ ~Mappable(pte[entry]) /\ At(t, "map", "mapped")
           /\ UNCHANGED <<pte, index>>
  <2>1. pc' = [pc EXCEPT ![t] = "mapped"]  BY <1>7 DEF At
  <2>2. /\ LocalTypes' /\ pc'[t] = "mapped"
        /\ \A u \in Threads : u # t => pc'[u] = pc[u]
    BY <1>1, <1>4, <1>7, <2>1, LocalsSet
  <2>3. TableTypes' /\ SlotTypes'  BY <1>1, <1>7 DEF TableTypes, SlotTypes
  <2>4. Places'
    BY <1>1, <1>3, <1>7, <2>2 DEF Places, Claimed, InMalloc
  <2>5. SlotsExclusive' /\ Bits'
    BY <1>1 DEF SlotsExclusive, Bits, BitmapOf, Claimed
  <2>6. s \in exited
    <3>1. k >= k  BY <1>3 DEF PageSet
    <3> QED  BY <1>3, <1>7, <3>1 DEF Mappings, Mappable
  <2>7. Mappings'
    BY <1>1, <1>7, <2>2, <2>6 DEF Mappings, Claimed
  <2> QED  BY <1>2, <2>2, <2>3, <2>4, <2>5, <2>7
<1> QED  BY <1>6, <1>7 DEF MapPage

\* The new thread has its stack.
LEMMA DoneKeeps ==
  ASSUME SlotInv, NEW t \in Threads, Done(t)
  PROVE  SlotInv'
<1> USE DEF SlotInv, Types
<1>1. /\ pc[t] = "map" /\ ~(index[t] <= StackPages)
      /\ pc' = [pc EXCEPT ![t] = "idle"] /\ live' = live \cup {slot[t]}
      /\ slot' = [slot EXCEPT ![t] = -1] /\ index' = [index EXCEPT ![t] = 1]
      /\ pages' = [pages EXCEPT ![t] = <<>>]
      /\ UNCHANGED <<first_free_page, word, pte, mmap, heap, tables, bitmap, reap,
                     panicked, exited>>
  BY DEF Done, At, MorePages, heap_pages
<1>2. Claimed(t) /\ slot[t] \in SlotSet
  BY <1>1 DEF Places, Claimed, LocalTypes
<1>3. ListTypes' /\ TableTypes'  BY <1>1, ListTypesKept DEF TableTypes
<1>4. LocalTypes'
  <2>1. Values' = Values  BY <1>1, ValuesKept
  <2>2. pages' \in [Threads -> Seq(Values)]
    <3> DEFINE V == Seq(Values)
    <3>1. <<>> \in V /\ pages \in [Threads -> V]  BY DEF LocalTypes
    <3> HIDE DEF V
    <3>2. pages' \in [Threads -> V]  BY <1>1, <3>1
    <3> QED  BY <3>2 DEF V
  <2>3. 1 \in 1..(StackPages + 1)  BY SizesAssumption
  <2> QED  BY <1>1, <2>1, <2>2, <2>3 DEF LocalTypes
<1>5. /\ pc'[t] = "idle" /\ slot'[t] = -1 /\ index'[t] = 1 /\ pages'[t] = <<>>
      /\ \A u \in Threads : u # t => /\ pc'[u] = pc[u] /\ slot'[u] = slot[u]
                                     /\ index'[u] = index[u] /\ pages'[u] = pages[u]
  BY <1>1 DEF LocalTypes
<1>6. SlotTypes'  BY <1>1, <1>2 DEF SlotTypes
<1>7. Places'  BY <1>1, <1>5 DEF Places, Claimed, InMalloc
<1>8. /\ slot[t] \notin live /\ slot[t] # reap.slot
      /\ \A u \in Threads : Claimed(u) /\ slot[u] = slot[t] => u = t
  BY <1>2 DEF SlotsExclusive
<1>9. SlotsExclusive'
  BY <1>1, <1>5, <1>8 DEF SlotsExclusive, Claimed
<1>10. Bits'
  <2>1. \A s : BitmapOf(s)' <=> BitmapOf(s)
    BY <1>1, <1>2, <1>5 DEF BitmapOf, Claimed
  <2> QED  BY <1>1, <2>1 DEF Bits
<1>11. Mappings'
  <2>1. \A i \in PageSet : Present(pte[<<slot[t], i>>])
    <3>1. \A i \in PageSet : i < index[t]
      BY <1>1, SizesAssumption DEF PageSet, LocalTypes
    <3> QED  BY <1>2, <3>1 DEF Mappings
  <2> QED  BY <1>1, <1>5, <2>1 DEF Mappings, Claimed
<1> QED  BY <1>3, <1>4, <1>6, <1>7, <1>9, <1>10, <1>11

LEMMA UndoKeeps ==
  ASSUME SlotInv, NEW t \in Threads, Undo(t)
  PROVE  SlotInv'
<1> USE DEF SlotInv, Types
<1>1. /\ pc[t] \in {"oom", "mapped"}
      /\ UNCHANGED <<pte, mmap, heap, tables, bitmap, slot, index, live, reap, exited>>
  BY DEF Undo, heap_pages
<1>2. pages[t] \in Seq(Values)  BY DEF LocalTypes
<1>3. /\ pc' = [pc EXCEPT ![t] = pc[t]]
      /\ ListTypes'
      /\ \E p \in Seq(Values) : pages' = [pages EXCEPT ![t] = p]
  <2>1. CASE /\ pages[t] # <<>> /\ At(t, pc[t], pc[t])
             /\ mm_free_physical_page(Head(pages[t]))
             /\ pages' = [pages EXCEPT ![t] = Tail(@)]
    <3> DEFINE q == pages[t]
    <3>1. q \in Seq(Values) /\ q # <<>>  BY <1>2, <2>1
    <3> HIDE DEF q
    <3>2. Head(q) \in Values /\ Tail(q) \in Seq(Values)  BY <3>1
    <3>3. ListTypes'  BY <1>1, <2>1, <3>2, FreeTypes DEF q
    <3>4. pages' = [pages EXCEPT ![t] = Tail(q)]  BY <2>1 DEF q
    <3> QED  BY <2>1, <3>2, <3>3, <3>4 DEF At
  <2>2. CASE /\ At(t, pc[t], pc[t]) /\ UNCHANGED <<first_free_page, word, pages>>
    <3>1. ListTypes'  BY <1>1, <2>2, ListTypesKept
    <3>2. pages' = [pages EXCEPT ![t] = pages[t]]  BY <2>2 DEF LocalTypes
    <3> QED  BY <1>2, <2>2, <3>1, <3>2 DEF At
  <2> QED  BY <2>1, <2>2 DEF Undo
<1>4. PICK p \in Seq(Values) : pages' = [pages EXCEPT ![t] = p]  BY <1>3
<1>5. /\ LocalTypes' /\ pc'[t] = pc[t]
      /\ \A u \in Threads : u # t => pc'[u] = pc[u] /\ pages'[u] = pages[u]
  BY <1>1, <1>3, <1>4, LocalsSet
<1>6. TableTypes'  BY <1>1 DEF TableTypes
<1>7. SlotTypes' /\ SlotsExclusive' /\ Bits' /\ Mappings'
  BY <1>1, <1>5, SlotsKept
<1>8. panicked = "no"  BY DEF Undo, At
<1>9. Places'  BY <1>1, <1>5, <1>8 DEF Places, Claimed, InMalloc
<1> QED  BY <1>3, <1>5, <1>6, <1>7, <1>9

LEMMA GrowAllocKeeps ==
  ASSUME SlotInv, NEW t \in Threads, GrowAlloc(t)
  PROVE  SlotInv'
<1> USE DEF SlotInv, Types
<1>1. /\ pc[t] = "idle" /\ panicked = "no" /\ Len(heap) < HeapPages
      /\ \A u \in Threads : pc[u] # "grow"
      /\ UNCHANGED <<pte, mmap, heap, tables, bitmap, slot, index, live, reap, exited>>
  BY DEF GrowAlloc, At, heap_pages, InMalloc
<1>2. TableTypes'  BY <1>1 DEF TableTypes
<1>3. CASE /\ mm_alloc_physical_page(first_free_page)
           /\ pages' = [pages EXCEPT ![t] = <<first_free_page>>]
           /\ At(t, "idle", "grow") /\ UNCHANGED panicked
  <2>1. ListTypes'  BY <1>1, <1>3, AllocTypes
  <2>2. <<first_free_page>> \in Seq(Values) /\ Len(<<first_free_page>>) = 1
    BY DEF ListTypes
  <2>3. pc' = [pc EXCEPT ![t] = "grow"]  BY <1>3 DEF At
  <2> DEFINE p == <<first_free_page>>
  <2>4. pages' = [pages EXCEPT ![t] = p] /\ p \in Seq(Values) /\ Len(p) = 1
    BY <1>3, <2>2
  <2> HIDE DEF p
  <2>5. /\ LocalTypes' /\ pc'[t] = "grow" /\ pages'[t] = p
        /\ \A u \in Threads : u # t => pc'[u] = pc[u] /\ pages'[u] = pages[u]
    BY <1>1, <2>3, <2>4, LocalsSet
  <2>6. SlotTypes' /\ SlotsExclusive' /\ Bits' /\ Mappings'
    BY <1>1, <2>5, SlotsKept
  <2>7. Places'
    BY <1>1, <1>3, <2>4, <2>5 DEF Places, Claimed, InMalloc
  <2> QED  BY <1>2, <2>1, <2>5, <2>6, <2>7
<1>4. CASE /\ At(t, "idle", "idle") /\ panicked' = "heap"
           /\ UNCHANGED <<first_free_page, word, pages>>
  <2>1. ListTypes'  BY <1>1, <1>4, ListTypesKept
  <2>2. pages' = [pages EXCEPT ![t] = pages[t]] /\ pages[t] \in Seq(Values)
    BY <1>4 DEF LocalTypes
  <2>3. pc' = [pc EXCEPT ![t] = "idle"]  BY <1>4 DEF At
  <2>4. /\ LocalTypes' /\ pc'[t] = "idle"
        /\ \A u \in Threads : u # t => pc'[u] = pc[u] /\ pages'[u] = pages[u]
    BY <1>1, <2>2, <2>3, LocalsSet
  <2>5. SlotTypes' /\ SlotsExclusive' /\ Bits' /\ Mappings'
    BY <1>1, <2>4, SlotsKept
  <2>6. Places'
    BY <1>1, <1>4, <2>4 DEF Places, Claimed, InMalloc
  <2> QED  BY <1>2, <2>1, <2>4, <2>5, <2>6
<1> QED  BY <1>3, <1>4 DEF GrowAlloc

LEMMA GrowMapKeeps ==
  ASSUME SlotInv, NEW t \in Threads, GrowMap(t)
  PROVE  SlotInv'
<1> USE DEF SlotInv, Types
<1> DEFINE table == TableOf(Len(heap) + 1)
           page == Head(pages[t])
<1>1. /\ pc[t] = "grow" /\ panicked = "no" /\ pc' = [pc EXCEPT ![t] = "idle"]
      /\ heap' = Append(heap, Mapped(page)) /\ pages' = [pages EXCEPT ![t] = <<>>]
      /\ UNCHANGED <<mmap, pte, bitmap, slot, index, live, reap, panicked, exited>>
  BY DEF GrowMap, At
<1>2. page \in Nat
  <2>1. pages[t] \in Seq(Values) /\ Len(pages[t]) = 1
    BY <1>1 DEF LocalTypes, Places, InMalloc
  <2>2. page \in Values
    <3> DEFINE q == pages[t]
    <3>1. q \in Seq(Values) /\ Len(q) = 1  BY <2>1
    <3> HIDE DEF q
    <3>2. Head(q) \in Values  BY <3>1
    <3> QED  BY <3>2 DEF q
  <2> QED  BY <2>2 DEF Values
<1>3. Mapped(page) \in Nat  BY <1>2, FrameFacts
<1>4. heap' \in Seq(Nat)
  <2>1. heap \in Seq(Nat)  BY DEF TableTypes
  <2> HIDE DEF page
  <2> QED  BY <1>1, <1>3, <2>1
<1>5. ListTypes' /\ tables' \in [0..TableOf(HeapPages) -> Nat]
  <2>1. CASE UNCHANGED <<first_free_page, word, tables>>
    BY <1>1, <2>1, ListTypesKept DEF TableTypes
  <2>2. CASE tables' = [tables EXCEPT ![table] = NewTable(page)]
    <3>1. first_free_page \in Nat  BY DEF ListTypes, Values
    <3>2. NewTable(page) \in Nat  BY <3>1, FrameFacts DEF NewTable
    <3>3. tables' \in [0..TableOf(HeapPages) -> Nat]
      <4> HIDE DEF table, page
      <4> QED  BY <2>2, <3>2 DEF TableTypes
    <3>4. CASE mm_alloc_physical_page(first_free_page)
      BY <1>1, <3>3, <3>4, AllocTypes
    <3>5. CASE UNCHANGED <<first_free_page, word>>
      BY <1>1, <3>3, <3>5, ListTypesKept
    <3>6. mm_alloc_physical_page(first_free_page)
          \/ UNCHANGED <<first_free_page, word>>
      BY DEF GrowMap
    <3> QED  BY <3>4, <3>5, <3>6
  <2>3. \/ UNCHANGED <<first_free_page, word, tables>>
        \/ tables' = [tables EXCEPT ![table] = NewTable(page)]
    BY DEF GrowMap
  <2> QED  BY <2>1, <2>2, <2>3
<1>6. TableTypes'  BY <1>1, <1>4, <1>5 DEF TableTypes
<1>7. /\ LocalTypes' /\ pc'[t] = "idle" /\ pages'[t] = <<>>
      /\ \A u \in Threads : u # t => pc'[u] = pc[u] /\ pages'[u] = pages[u]
  <2> DEFINE p == <<>>
  <2>1. p \in Seq(Values) /\ pages' = [pages EXCEPT ![t] = p]  BY <1>1
  <2> HIDE DEF p
  <2>2. /\ LocalTypes' /\ pc'[t] = "idle" /\ pages'[t] = p
        /\ \A u \in Threads : u # t => pc'[u] = pc[u] /\ pages'[u] = pages[u]
    BY <1>1, <2>1, LocalsSet
  <2> QED  BY <2>2 DEF p
<1>8. SlotTypes' /\ SlotsExclusive' /\ Bits' /\ Mappings'
  BY <1>1, <1>7, SlotsKept
<1>9. Places'
  <2>1. \A u \in Threads : pc'[u] # "grow"  BY <1>1, <1>7 DEF Places, InMalloc
  <2> QED  BY <1>1, <1>7, <2>1 DEF Places, Claimed, InMalloc
<1> QED  BY <1>5, <1>6, <1>7, <1>8, <1>9

LEMMA GrowFailsKeeps ==
  ASSUME SlotInv, NEW t \in Threads, GrowFails(t)
  PROVE  SlotInv'
<1> USE DEF SlotInv, Types
<1>1. /\ pc[t] = "grow" /\ pc' = [pc EXCEPT ![t] = "idle"] /\ panicked' = "map"
      /\ UNCHANGED <<first_free_page, word, pte, mmap, heap, tables, bitmap, pages,
                     slot, index, live, reap, exited>>
  BY DEF GrowFails, At, heap_pages
<1>2. ListTypes' /\ TableTypes'  BY <1>1, ListTypesKept DEF TableTypes
<1>3. pages' = [pages EXCEPT ![t] = pages[t]] /\ pages[t] \in Seq(Values)
  BY <1>1 DEF LocalTypes
<1>4. /\ LocalTypes' /\ pc'[t] = "idle"
      /\ \A u \in Threads : u # t => pc'[u] = pc[u] /\ pages'[u] = pages[u]
  BY <1>1, <1>3, LocalsSet
<1>5. SlotTypes' /\ SlotsExclusive' /\ Bits' /\ Mappings'
  BY <1>1, <1>4, SlotsKept
<1>6. Places'  BY <1>1, <1>4 DEF Places, Claimed, InMalloc
<1> QED  BY <1>2, <1>4, <1>5, <1>6

\* Nothing of the threads changes.
LEMMA LocalsKept ==
  ASSUME LocalTypes, Places, mmap' = mmap, UNCHANGED <<locals, heap, panicked>>
  PROVE  LocalTypes' /\ Places'
<1>1. UNCHANGED <<pc, pages, slot, index>>  BY DEF locals
<1>2. Values' = Values  BY ValuesKept
<1>3. LocalTypes'  BY <1>1, <1>2 DEF LocalTypes
<1>4. Places'  BY <1>1 DEF Places, Claimed, InMalloc
<1> QED  BY <1>3, <1>4

\* The timer takes the stack of a thread that exited.
LEMMA FreeStackKeeps ==
  ASSUME SlotInv, FreeStack
  PROVE  SlotInv'
<1> USE DEF SlotInv, Types
<1>1. PICK s \in live \ BootSlots :
        /\ live' = live \ {s} /\ reap' = [slot |-> s, page |-> 1]
        /\ exited' = exited \cup {s}
  BY DEF FreeStack
<1>2. /\ reap = NoReap
      /\ UNCHANGED <<first_free_page, word, pte, mmap, heap, tables, bitmap, locals,
                     panicked>>
      /\ UNCHANGED <<pc, pages, slot, index>>
  BY DEF FreeStack, heap_pages, locals
<1>3. ListTypes' /\ TableTypes' /\ LocalTypes' /\ Places'
  BY <1>2, ListTypesKept, LocalsKept DEF TableTypes
<1>4. s \in SlotSet /\ s # -1  BY SizesAssumption DEF SlotTypes, SlotSet
<1>5. reap' \in [slot : SlotSet, page : 1..(StackPages + 1)] /\ reap'.slot = s
      /\ reap' # NoReap
  <2>1. 1 \in 1..(StackPages + 1)  BY SizesAssumption
  <2>2. reap'.slot = s  BY <1>1
  <2> QED  BY <1>1, <1>4, <2>1, <2>2 DEF NoReap
<1>6. SlotTypes'
  <2>1. live' \in SUBSET SlotSet /\ BootSlots \subseteq live' /\ bitmap' \in SUBSET SlotSet
    BY <1>1, <1>2 DEF SlotTypes
  <2>2. reap'.slot \in exited'  BY <1>1, <1>5
  <2> QED  BY <1>5, <2>1, <2>2 DEF SlotTypes
<1>7. SlotsExclusive'
  BY <1>1, <1>2, <1>5 DEF SlotsExclusive, Claimed
<1>8. Bits'
  <2>1. \A r : BitmapOf(r)' <=> BitmapOf(r)
    BY <1>1, <1>2, <1>5 DEF BitmapOf, Claimed
  <2> QED  BY <1>2, <2>1 DEF Bits
<1>9. Mappings'
  BY <1>1, <1>2 DEF Mappings, Claimed
<1> QED  BY <1>3, <1>6, <1>7, <1>8, <1>9

\* Its entries are left as they are now, not as they were at first.
LEMMA UnmapPageKeeps ==
  ASSUME SlotInv, UnmapPage
  PROVE  SlotInv'
<1> USE DEF SlotInv, Types
<1> DEFINE s == reap.slot
           k == reap.page
           entry == <<reap.slot, reap.page>>
<1>1. /\ reap # NoReap /\ k <= StackPages
      /\ mm_free_physical_page(Unmapped(pte[entry]))
      /\ pte' = [pte EXCEPT ![entry] = IF Present(@) THEN 2 ELSE @]
      /\ reap' = [reap EXCEPT !.page = @ + 1]
      /\ UNCHANGED <<mmap, heap, tables, bitmap, locals, live, panicked, exited>>
      /\ UNCHANGED <<pc, pages, slot, index>>
  BY DEF UnmapPage, heap_pages, locals
<1>2. s \in SlotSet /\ k \in PageSet /\ entry \in Entries /\ s \in exited
  <2>1. reap \in [slot : SlotSet, page : 1..(StackPages + 1)] /\ s \in exited
    BY <1>1 DEF SlotTypes
  <2>2. k \in 1..(StackPages + 1)  BY <2>1
  <2>3. s \in SlotSet /\ k \in PageSet  BY <1>1, <2>1, <2>2, SizesAssumption DEF PageSet
  <2> QED  BY <2>1, <2>3, EntryPairs
<1>3. ListTypes'
  <2>1. Unmapped(pte[entry]) \in {0, 1}  BY DEF Unmapped
  <2>2. Unmapped(pte[entry]) \in Values  BY <2>1, SmallValues
  <2> QED  BY <1>1, <2>2, FreeTypes
<1>4. /\ pte' \in [Entries -> Nat]
      /\ \A e \in Entries : e # entry => pte'[e] = pte[e]
  <2> HIDE DEF entry
  <2> QED  BY <1>1 DEF TableTypes
<1>5. TableTypes' /\ LocalTypes' /\ Places'
  BY <1>1, <1>4, LocalsKept DEF TableTypes
<1>6. /\ reap' \in [slot : SlotSet, page : 1..(StackPages + 1)] /\ reap'.slot = s
      /\ reap' # NoReap
  <2>1. reap \in [slot : SlotSet, page : 1..(StackPages + 1)]
    BY <1>1 DEF SlotTypes
  <2>2. k + 1 \in 1..(StackPages + 1)  BY <1>2, SizesAssumption DEF PageSet
  <2>3. reap' \in [slot : SlotSet, page : 1..(StackPages + 1)] /\ reap'.slot = s
    BY <1>1, <2>1, <2>2
  <2>4. s # -1  BY <1>2, SizesAssumption DEF SlotSet
  <2> QED  BY <2>3, <2>4 DEF NoReap
<1>7. SlotTypes'  BY <1>1, <1>2, <1>6 DEF SlotTypes
<1>8. SlotsExclusive'
  BY <1>1, <1>6 DEF SlotsExclusive, Claimed
<1>9. Bits'
  <2>1. \A r : BitmapOf(r)' <=> BitmapOf(r)
    BY <1>1, <1>6 DEF BitmapOf, Claimed
  <2> QED  BY <1>1, <2>1 DEF Bits
<1>10. Mappings'
  <2>1. /\ s \notin live /\ s \in bitmap
        /\ \A u \in Threads : Claimed(u) => slot[u] # s
    BY <1>1 DEF SlotsExclusive, Bits, BitmapOf
  <2>2. \A r \in SlotSet : r # s => \A i \in PageSet : pte'[<<r, i>>] = pte[<<r, i>>]
    BY <1>4, EntryPairs
  <2>3. \A u \in Threads : Claimed(u) => slot[u] \in SlotSet
    BY DEF Claimed, LocalTypes
  <2> HIDE DEF s, k, entry
  <2>4. \A r \in live' : \A i \in PageSet : Present(pte'[<<r, i>>])
    BY <1>1, <2>1, <2>2 DEF Mappings, SlotTypes
  <2>5. \A u \in Threads : Claimed(u) =>
          /\ \A i \in PageSet : i < index[u] => Present(pte'[<<slot[u], i>>])
          /\ slot[u] \notin exited =>
               \A i \in PageSet : i >= index[u] => pte'[<<slot[u], i>>] = 0
    BY <2>1, <2>2, <2>3 DEF Mappings
  <2>6. \A r \in SlotSet \ exited : r \notin bitmap =>
          \A i \in PageSet : pte'[<<r, i>>] = 0
    BY <1>2, <2>2 DEF Mappings
  <2> QED  BY <1>1, <2>4, <2>5, <2>6 DEF Mappings, Claimed
<1> QED  BY <1>3, <1>5, <1>7, <1>8, <1>9, <1>10

LEMMA ClearBitKeeps ==
  ASSUME SlotInv, ClearBit
  PROVE  SlotInv'
<1> USE DEF SlotInv, Types
<1> DEFINE s == reap.slot
<1>1. /\ reap # NoReap /\ bitmap' = bitmap \ {s} /\ reap' = NoReap
      /\ UNCHANGED <<first_free_page, word, pte, mmap, heap, tables, locals, live,
                     panicked, exited>>
      /\ UNCHANGED <<pc, pages, slot, index>>
  BY DEF ClearBit, Freed, heap_pages, locals
<1>2. ListTypes' /\ TableTypes' /\ LocalTypes' /\ Places'
  BY <1>1, ListTypesKept, LocalsKept DEF TableTypes
<1>3. SlotTypes'  BY <1>1 DEF SlotTypes
<1>4. /\ s \in exited /\ s \notin live
      /\ \A u \in Threads : Claimed(u) => slot[u] # s
  BY <1>1 DEF SlotTypes, SlotsExclusive
<1>5. reap'.slot = -1  BY <1>1 DEF NoReap
<1>6. -1 \notin live  BY SizesAssumption DEF SlotTypes, SlotSet
<1>7. SlotsExclusive'
  BY <1>1, <1>5, <1>6 DEF SlotsExclusive, Claimed
<1>8. Bits'
  <2> HIDE DEF s
  <2>1. \A r : BitmapOf(r)' <=> BitmapOf(r) /\ r # s
    BY <1>1, <1>4 DEF BitmapOf, Claimed, s
  <2> QED  BY <1>1, <2>1 DEF Bits
<1>9. Mappings'
  BY <1>1, <1>4 DEF Mappings, Claimed
<1> QED  BY <1>2, <1>3, <1>7, <1>8, <1>9

LEMMA StutterKeeps ==
  ASSUME SlotInv, UNCHANGED vars
  PROVE  SlotInv'
<1> USE DEF SlotInv, Types
<1>1. /\ UNCHANGED <<first_free_page, word, pte, mmap, heap, tables, bitmap, locals,
                     live, reap, panicked, exited>>
      /\ UNCHANGED <<pc, pages, slot, index>>
  BY DEF vars, heap_pages, locals
<1>2. ListTypes' /\ TableTypes' /\ LocalTypes' /\ Places'
  BY <1>1, ListTypesKept, LocalsKept DEF TableTypes
<1>3. SlotTypes' /\ SlotsExclusive' /\ Bits' /\ Mappings'
  BY <1>1, SlotsKept
<1> QED  BY <1>2, <1>3

\* The pages that the kernel takes before interrupts are on.
LEMMA BootTaken ==
  ASSUME NEW m \in Maps
  PROVE  LET p == BootPages(m) IN
         /\ Len(p) \in Nat /\ DOMAIN p = 1..Len(p)
         /\ \A i \in 1..Len(p) : p[i] \in FramesOf(m)
         /\ 1..TakenAtBoot \subseteq 1..Len(p)
         /\ StackPages \in Nat \ {0}
         /\ HeapAtBoot \in 1..TakenAtBoot /\ DirectoryAtBoot \in 1..TakenAtBoot
         /\ \A i \in PageSet : /\ i > 1 => i - 1 \in 1..TakenAtBoot
                               /\ DirectoryAtBoot + i \in 1..TakenAtBoot
<1> DEFINE p == BootPages(m)
<1>1. p \in Seq(FramesOf(m)) /\ Len(p) >= TakenAtBoot  BY BootPagesExact DEF Lists
<1>2. StackPages \in Nat \ {0}  BY SizesAssumption
<1> HIDE DEF p
<1>3. Len(p) \in Nat /\ DOMAIN p = 1..Len(p) /\ \A i \in 1..Len(p) : p[i] \in FramesOf(m)
  BY <1>1
<1>4. 1..TakenAtBoot \subseteq 1..Len(p)  BY <1>1, <1>2, <1>3 DEF TakenAtBoot
<1>5. HeapAtBoot \in 1..TakenAtBoot /\ DirectoryAtBoot \in 1..TakenAtBoot
  BY <1>2 DEF HeapAtBoot, DirectoryAtBoot, TakenAtBoot
<1>6. \A i \in PageSet : /\ i > 1 => i - 1 \in 1..TakenAtBoot
                         /\ DirectoryAtBoot + i \in 1..TakenAtBoot
  BY <1>2 DEF DirectoryAtBoot, TakenAtBoot, PageSet
<1> QED  BY <1>2, <1>3, <1>4, <1>5, <1>6 DEF p

\* The word of a page that is not the last one found is the next one.
LEMMA MarkedLinks ==
  ASSUME NEW m \in Maps, NEW f
  PROVE  LET p == BootPages(m) IN
         \/ \E i \in (TakenAtBoot + 1)..(Len(p) - 1) : p[i] = f /\ Marked(p, f) = p[i + 1]
         \/ /\ Marked(p, f) = 0
            /\ \A i \in (TakenAtBoot + 1)..(Len(p) - 1) : p[i] # f
<1> DEFINE p == BootPages(m)
           later == {i \in TakenAtBoot + 1..Len(p) - 1 : p[i] = f}
<1>1. /\ Len(p) \in Nat /\ TakenAtBoot \in Nat
      /\ \A i, j \in 1..Len(p) : p[i] = p[j] => i = j
  <2>1. Len(p) \in Nat  BY BootTaken
  <2>2. TakenAtBoot \in Nat  BY SizesAssumption DEF TakenAtBoot
  <2>3. Lists(p, FramesOf(m))  BY BootPagesExact
  <2> HIDE DEF p
  <2> QED  BY <2>1, <2>2, <2>3 DEF Lists
<1>2. Marked(p, f) = IF later = {} THEN 0 ELSE p[Max(later) + 1]  BY DEF Marked
<1> HIDE DEF p
<1>3. CASE later = {}  BY <1>2, <1>3 DEF p
<1>4. CASE later # {}
  <2>1. PICK i \in TakenAtBoot + 1..Len(p) - 1 : p[i] = f  BY <1>4
  <2>2. \A j \in TakenAtBoot + 1..Len(p) - 1 : p[j] = f => j = i
    BY <1>1, <2>1
  <2>3. later = {i} /\ i \in Int  BY <1>1, <2>1, <2>2
  <2> HIDE DEF later
  <2>4. Max(later) = i  BY <2>3 DEF Max
  <2> QED  BY <1>2, <1>4, <2>1, <2>4 DEF p
<1> QED  BY <1>3, <1>4

LEMMA MarkedTypes ==
  ASSUME NEW m \in Maps, NEW f
  PROVE  Marked(BootPages(m), f) \in FramesOf(m) \cup {0}
<1> DEFINE p == BootPages(m)
<1>1. /\ Len(p) \in Nat /\ TakenAtBoot \in Nat
      /\ \A i \in 1..Len(p) : p[i] \in FramesOf(m)
  BY BootTaken DEF TakenAtBoot
<1>2. \/ \E i \in (TakenAtBoot + 1)..(Len(p) - 1) : Marked(p, f) = p[i + 1]
      \/ Marked(p, f) = 0
  BY MarkedLinks
<1> HIDE DEF p
<1>3. \A i \in (TakenAtBoot + 1)..(Len(p) - 1) : i + 1 \in 1..Len(p)  BY <1>1
<1>4. Marked(p, f) \in FramesOf(m) \cup {0}  BY <1>1, <1>2, <1>3
<1> QED  BY <1>4 DEF p

\* The pages of the kernel itself.
LEMMA BootKernelPages ==
  /\ BootStack \in Nat /\ BootTable \in Nat /\ BootStack > 0 /\ BootTable > 0
  /\ BootStack # BootTable /\ BootStack < KernelEnd /\ BootTable < KernelEnd
  /\ Frame(BootStack) = BootStack /\ Frame(BootTable) = BootTable
<1>1. /\ PageSize \in Nat \ {0} /\ KernelEnd \in Nat /\ KernelEnd % PageSize = 0
      /\ KernelEnd > 2 * PageSize
  BY SizesAssumption
<1>2. PICK k \in Nat : KernelEnd = k * PageSize  BY PageSizes
<1>3. k - 1 \in Int /\ k - 2 \in Int  BY <1>2
<1>4. ((k - 1) * PageSize + 0) % PageSize = 0 /\ ((k - 2) * PageSize + 0) % PageSize = 0
  BY <1>1, <1>3, QuotientRemainder
<1>5. BootStack = (k - 1) * PageSize + 0 /\ BootTable = (k - 2) * PageSize + 0
  BY <1>1, <1>2 DEF BootStack, BootTable
<1>6. BootStack \in Nat /\ BootTable \in Nat /\ BootStack > 0 /\ BootTable > 0
      /\ BootStack # BootTable /\ BootStack < KernelEnd /\ BootTable < KernelEnd
  BY <1>1 DEF BootStack, BootTable
<1>7. Frame(BootStack) = BootStack /\ Frame(BootTable) = BootTable
  BY <1>4, <1>5, <1>6, FrameFacts
<1> QED  BY <1>6, <1>7

\* The entry of a page that the kernel takes.
LEMMA BootEntries ==
  ASSUME NEW m \in Maps, NEW s \in SlotSet, NEW i \in PageSet
  PROVE  LET p == BootPages(m)
             a == BootEntry(p, <<s, i>>) IN
         /\ a \in Nat
         /\ s \in BootSlots => Present(a)
         /\ s \notin BootSlots => a = 0
         /\ s = 0 /\ i = 1 => Frame(a) = BootStack
         /\ s = 0 /\ i > 1 => Frame(a) = p[i - 1] /\ i - 1 \in 1..TakenAtBoot
         /\ s = 1 => Frame(a) = p[DirectoryAtBoot + i]
                     /\ DirectoryAtBoot + i \in 1..TakenAtBoot
<1> DEFINE p == BootPages(m)
           a == BootEntry(p, <<s, i>>)
<1>1. /\ \A j \in 1..TakenAtBoot : p[j] \in FramesOf(m)
      /\ i > 1 => i - 1 \in 1..TakenAtBoot
      /\ DirectoryAtBoot + i \in 1..TakenAtBoot
  BY BootTaken
<1>2. ASSUME NEW f \in FramesOf(m) PROVE f \in Nat /\ Frame(f) = f
  <2>1. f \in Multiples  BY DEF FramesOf, Multiples
  <2>2. PICK k \in Nat : f = k * PageSize  BY <2>1, SizesAssumption DEF Multiples
  <2>3. PageSize \in Nat \ {0}  BY SizesAssumption
  <2>4. f \in Nat /\ k * PageSize + 0 = f  BY <2>2, <2>3
  <2>5. (k * PageSize + 0) % PageSize = 0  BY <2>3, QuotientRemainder
  <2> QED  BY <2>4, <2>5, FrameFacts
<1>3. i \in Nat /\ i >= 1 /\ s \in Nat  BY SizesAssumption DEF PageSet, SlotSet
<1>4. /\ s = 0 /\ i = 1 => a = Mapped(BootStack)
      /\ s = 0 /\ i > 1 => a = Mapped(p[i - 1])
      /\ s = 1 => a = Mapped(p[DirectoryAtBoot + i])
      /\ s \notin {0, 1} => a = 0
  BY <1>3, EntryPairs DEF BootEntry
<1>5. ASSUME NEW f \in Nat, Frame(f) = f
      PROVE  Mapped(f) \in Nat /\ Present(Mapped(f)) /\ Frame(Mapped(f)) = f
  BY <1>5, FrameFacts
<1> HIDE DEF p, a
<1>6. CASE s = 0 /\ i = 1
  BY <1>3, <1>4, <1>5, <1>6, BootKernelPages DEF BootSlots, a, p
<1>7. CASE s = 0 /\ i > 1
  <2>1. i - 1 \in 1..TakenAtBoot /\ p[i - 1] \in Nat /\ Frame(p[i - 1]) = p[i - 1]
    BY <1>1, <1>2, <1>7
  <2> QED  BY <1>3, <1>4, <1>5, <1>7, <2>1 DEF BootSlots, a, p
<1>8. CASE s = 1
  <2> DEFINE j == DirectoryAtBoot + i
  <2>1. j \in 1..TakenAtBoot /\ p[j] \in Nat /\ Frame(p[j]) = p[j]
    BY <1>1, <1>2
  <2> HIDE DEF j
  <2>2. a = Mapped(p[j])  BY <1>4, <1>8 DEF j
  <2>3. a \in Nat /\ Present(a) /\ Frame(a) = p[j]  BY <1>5, <2>1, <2>2
  <2> QED  BY <1>8, <2>1, <2>3 DEF BootSlots, a, p, j
<1>9. CASE s \notin {0, 1}  BY <1>3, <1>4, <1>9 DEF BootSlots, a, p
<1> QED  BY <1>3, <1>6, <1>7, <1>8, <1>9

LEMMA TablesNumbers ==
  ASSUME NEW v \in Nat \ {0}, v <= HeapPages
  PROVE  TableOf(v) \in 0..TableOf(HeapPages) /\ TableOf(HeapPages) \in Nat
<1>1. TablePages \in Nat \ {0} /\ KernelPages \in Nat /\ HeapPages \in Nat \ {0}
  BY SizesAssumption
<1> DEFINE a == KernelPages + v - 1
           b == KernelPages + HeapPages - 1
           q == a \div TablePages
           r == b \div TablePages
<1>2. a \in Nat /\ b \in Nat /\ a <= b  BY <1>1
<1> HIDE DEF a, b
<1>3. /\ q \in Nat /\ r \in Nat
      /\ q * TablePages <= a /\ a < (q + 1) * TablePages
      /\ r * TablePages <= b /\ b < (r + 1) * TablePages
  BY <1>1, <1>2
<1> HIDE DEF q, r
<1>4. q * TablePages < (r + 1) * TablePages
  <2>1. q * TablePages \in Int /\ (r + 1) * TablePages \in Int  BY <1>1, <1>3
  <2> QED  BY <1>2, <1>3, <2>1
<1>5. q < r + 1  BY <1>1, <1>3, <1>4, MultipleOrder
<1>6. q \in 0..r  BY <1>3, <1>5
<1> QED  BY <1>3, <1>6 DEF TableOf, a, b, q, r

LEMMA InitSlots ==
  ASSUME Init
  PROVE  SlotInv
<1> DEFINE p == BootPages(mmap)
<1>1. mmap \in Maps  BY DEF Init
<1>2. Frames = FramesOf(mmap)  BY DEF Frames
<1>3. ListTypes
  <2>1. first_free_page = IF Len(p) > TakenAtBoot THEN p[TakenAtBoot + 1] ELSE 0
    BY DEF Init
  <2>2. Len(p) \in Nat /\ TakenAtBoot \in Nat /\ \A i \in 1..Len(p) : p[i] \in Frames
    BY <1>1, <1>2, BootTaken DEF TakenAtBoot
  <2> HIDE DEF p
  <2>3. first_free_page \in Frames \cup {0}
    <3>1. Len(p) > TakenAtBoot => TakenAtBoot + 1 \in 1..Len(p)  BY <2>2
    <3> QED  BY <2>1, <2>2, <3>1
  <2>4. \A f \in Frames \cup {0} : word[f] \in Frames \cup {0}
    BY <1>1, <1>2, MarkedTypes DEF Init
  <2>5. DOMAIN word = Frames \cup {0}  BY DEF Init
  <2> QED  BY <1>1, <2>3, <2>4, <2>5, SmallValues DEF ListTypes
<1>4. pte = [e \in Entries |-> BootEntry(p, e)]  BY DEF Init
<1>5. \A s \in SlotSet, i \in PageSet :
        LET a == pte[<<s, i>>] IN
        a \in Nat /\ (s \in BootSlots => Present(a)) /\ (s \notin BootSlots => a = 0)
  <2> SUFFICES ASSUME NEW s \in SlotSet, NEW i \in PageSet
               PROVE  LET a == pte[<<s, i>>] IN
                      /\ a \in Nat
                      /\ s \in BootSlots => Present(a)
                      /\ s \notin BootSlots => a = 0
    OBVIOUS
  <2>1. <<s, i>> \in Entries  BY EntryPairs
  <2>2. pte[<<s, i>>] = BootEntry(p, <<s, i>>)  BY <1>4, <2>1
  <2> QED  BY <1>1, <2>2, BootEntries
<1>6. TableTypes
  <2>1. pte \in [Entries -> Nat]
    <3>1. \A e \in Entries : \E s \in SlotSet, i \in PageSet : e = <<s, i>>
      BY DEF Entries, SlotSet, PageSet
    <3>2. \A e \in Entries : pte[e] \in Nat  BY <1>5, <3>1
    <3> HIDE DEF p
    <3>3. pte = [e \in Entries |-> pte[e]]  BY <1>4
    <3> QED  BY <3>2, <3>3
  <2>2. heap \in Seq(Nat)
    <3> DEFINE h == Mapped(p[HeapAtBoot])
    <3>1. p[HeapAtBoot] \in Frames  BY <1>1, <1>2, BootTaken
    <3>2. h \in Nat  BY <3>1, FramesOfMemory, FrameFacts
    <3>3. heap = <<h>>  BY DEF Init
    <3> HIDE DEF h
    <3> QED  BY <3>2, <3>3
  <2>3. tables \in [0..TableOf(HeapPages) -> Nat]
    <3>1. Mapped(BootTable) \in Nat  BY BootKernelPages, FrameFacts
    <3>2. tables = [i \in 0..TableOf(HeapPages) |-> IF i = 0 THEN Mapped(BootTable) ELSE 0]
      BY DEF Init
    <3> QED  BY <3>1, <3>2
  <2> QED  BY <2>1, <2>2, <2>3 DEF TableTypes
<1>7. LocalTypes
  <2>1. StackPages \in Nat  BY SizesAssumption
  <2> DEFINE V == Seq(Values)
  <2>2. <<>> \in V  OBVIOUS
  <2> HIDE DEF V
  <2>3. pages \in [Threads -> V]  BY <2>2 DEF Init
  <2>4. index \in [Threads -> 1..(StackPages + 1)]  BY <2>1 DEF Init
  <2>5. slot \in [Threads -> SlotSet \cup {-1}]  BY DEF Init
  <2>6. pc \in [Threads -> {"idle", "pages", "oom", "map", "mapped", "grow"}]
    BY DEF Init
  <2> QED  BY <2>3, <2>4, <2>5, <2>6 DEF LocalTypes, V
<1>8. SlotTypes
  <2>1. BootSlots \subseteq SlotSet  BY SizesAssumption DEF BootSlots, SlotSet
  <2> QED  BY <2>1 DEF Init, SlotTypes
<1>9. \A t \in Threads : pc[t] = "idle" /\ pages[t] = <<>> /\ slot[t] = -1 /\ index[t] = 1
  BY DEF Init
<1>10. Places  BY <1>9 DEF Places, Claimed, InMalloc
<1>11. SlotsExclusive  BY <1>9 DEF SlotsExclusive, Claimed, Init, NoReap, BootSlots
<1>12. Bits  BY <1>9 DEF Bits, BitmapOf, Claimed, Init
<1>13. Mappings
  <2>1. live = BootSlots /\ bitmap = BootSlots /\ exited = {}  BY DEF Init
  <2>2. live \subseteq SlotSet  BY <1>8 DEF SlotTypes
  <2> QED  BY <1>5, <1>9, <2>1, <2>2 DEF Mappings, Claimed
<1> QED  BY <1>3, <1>6, <1>7, <1>8, <1>10, <1>11, <1>12, <1>13 DEF SlotInv, Types

LEMMA SlotStep ==
  ASSUME SlotInv, [Next]_vars
  PROVE  SlotInv'
<1>1. ASSUME NEW t \in Threads, mm_alloc_stack(t) PROVE SlotInv'
  <2>1. CASE Call(t)  BY <2>1, CallKeeps
  <2>2. CASE AllocPage(t)  BY <2>2, AllocPageKeeps
  <2>3. CASE FindSlot(t)  BY <2>3, FindSlotKeeps
  <2>4. CASE MapPage(t)  BY <2>4, MapPageKeeps
  <2>5. CASE Done(t)  BY <2>5, DoneKeeps
  <2>6. CASE Undo(t)  BY <2>6, UndoKeeps
  <2> QED  BY <1>1, <2>1, <2>2, <2>3, <2>4, <2>5, <2>6 DEF mm_alloc_stack
<1>2. ASSUME NEW t \in Threads, malloc(t) PROVE SlotInv'
  <2>1. CASE GrowAlloc(t)  BY <2>1, GrowAllocKeeps
  <2>2. CASE GrowMap(t)  BY <2>2, GrowMapKeeps
  <2>3. CASE GrowFails(t)  BY <2>3, GrowFailsKeeps
  <2> QED  BY <1>2, <2>1, <2>2, <2>3 DEF malloc
<1>3. CASE FreeStack  BY <1>3, FreeStackKeeps
<1>4. CASE UnmapPage  BY <1>4, UnmapPageKeeps
<1>5. CASE ClearBit  BY <1>5, ClearBitKeeps
<1>6. CASE UNCHANGED vars  BY <1>6, StutterKeeps
<1> QED  BY <1>1, <1>2, <1>3, <1>4, <1>5, <1>6 DEF Next

(* The slots, the bits, the entries and the locals of the threads are      *)
(* always as SlotInv says, wherever the threads interrupt each other in    *)
(* mm_alloc_stack and whenever the timer frees the stack of a dead one.    *)
THEOREM SlotInvariant == Spec => []SlotInv
<1>1. Init => SlotInv  BY InitSlots
<1>2. SlotInv /\ [Next]_vars => SlotInv'  BY SlotStep
<1> QED  BY <1>1, <1>2, PTL DEF Spec

(* A slot is never given to a thread while another one uses it, sets it up *)
(* or is having it freed (find_free_bit, mm_free_stack).                   *)
THEOREM SlotsCorrect == Spec => []SlotsExclusive
<1>1. SlotInv => SlotsExclusive  BY DEF SlotInv
<1> QED  BY <1>1, SlotInvariant, PTL

(* stacks_bitmaps has the bits of the slots in use, and no other.          *)
THEOREM BitmapCorrect == Spec => []BitmapExact
<1>1. SlotInv => BitmapExact
  <2> SUFFICES ASSUME SlotInv PROVE BitmapExact  OBVIOUS
  <2> DEFINE B == live \cup {slot[t] : t \in {u \in Threads : Claimed(u)}}
                       \cup (IF reap = NoReap THEN {} ELSE {reap.slot})
  <2>1. \A s : s \in B <=> BitmapOf(s)  BY DEF BitmapOf
  <2>2. \A s : s \in bitmap <=> BitmapOf(s)  BY DEF SlotInv, Bits
  <2> HIDE DEF B
  <2>3. bitmap = B  BY <2>1, <2>2
  <2> QED  BY <2>3 DEF BitmapExact, B
<1> QED  BY <1>1, SlotInvariant, PTL

(* A thread's stack has all its pages, and mm_alloc_stack finds an entry   *)
(* in use only in a slot of a dead thread (mm_map_page, mm_unmap_page).    *)
THEOREM StacksMapped == Spec => []LiveStacksMapped
<1>1. SlotInv => LiveStacksMapped
  BY DEF SlotInv, Mappings, LiveStacksMapped, PageSet
<1> QED  BY <1>1, SlotInvariant, PTL

-----------------------------------------------------------------------------
(* Lists that end with 0, and the uses of frames.                          *)

\* The first element is taken; the links of the others stay.
LEMMA ListPop ==
  ASSUME NEW head, NEW S, NEW nx, NEW my, FreeList(head, S, nx), 0 \notin S, head # 0,
         \A f \in S \ {head} : my[f] = nx[f]
  PROVE  FreeList(nx[head], S \ {head}, my)
<1> DEFINE T == S \ {head}
<1>1. head \in S  BY DEF FreeList
<1>2. nx[head] \in T \cup {0}  BY <1>1 DEF FreeList
<1>3. \A f \in T : my[f] \in T \cup {0} /\ my[f] # f  BY DEF FreeList
<1>4. \A f \in T : my[f] # 0 => my[f] # nx[head]  BY <1>1 DEF FreeList
<1>5. \A f, g \in T : my[f] = my[g] /\ my[f] # 0 => f = g  BY DEF FreeList
<1>6. ASSUME NEW X \in SUBSET T, nx[head] # 0 => nx[head] \in X,
             \A f \in X : my[f] # 0 => my[f] \in X
      PROVE  X = T
  <2> DEFINE Y == X \cup {head}
  <2>1. Y \in SUBSET S /\ head \in Y  BY <1>1
  <2>2. \A f \in Y : nx[f] # 0 => nx[f] \in Y  BY <1>6
  <2>3. Y = S  BY <2>1, <2>2 DEF FreeList
  <2> QED  BY <2>3
<1> QED  BY <1>2, <1>3, <1>4, <1>5, <1>6 DEF FreeList

\* A new element is put in front.
LEMMA ListPush ==
  ASSUME NEW head, NEW S, NEW nx, NEW my, NEW e, FreeList(head, S, nx), 0 \notin S,
         e \notin S, e # 0, my[e] = head, \A f \in S : my[f] = nx[f]
  PROVE  FreeList(e, S \cup {e}, my)
<1> DEFINE T == S \cup {e}
<1>1. \A f \in T : my[f] \in T \cup {0} /\ my[f] # f  BY DEF FreeList
<1>2. \A f \in T : my[f] # 0 => my[f] # e  BY DEF FreeList
<1>3. \A f, g \in T : my[f] = my[g] /\ my[f] # 0 => f = g  BY DEF FreeList
<1>4. ASSUME NEW X \in SUBSET T, e # 0 => e \in X,
             \A f \in X : my[f] # 0 => my[f] \in X
      PROVE  X = T
  <2> DEFINE Y == X \ {e}
  <2>1. Y \in SUBSET S /\ e \in X  BY <1>4
  <2>2. head # 0 => head \in Y
    <3>1. head # 0 => head \in X /\ head \in S  BY <1>4, <2>1 DEF FreeList
    <3> QED  BY <3>1
  <2>3. \A f \in Y : nx[f] # 0 => nx[f] \in Y  BY <1>2, <1>4
  <2>4. Y = S  BY <2>1, <2>2, <2>3 DEF FreeList
  <2> QED  BY <2>1, <2>4
<1> QED  BY <1>1, <1>2, <1>3, <1>4 DEF FreeList

\* The page that is taken gets a use.
LEMMA AllocUse ==
  ASSUME NEW F, NEW U, NEW head, NEW nx, NEW my, NEW new,
         Memory(F, U, head, nx), 0 \notin F, head # 0, new[3] = head,
         \A f \in F \ {head} : my[f] = nx[f]
  PROVE  Memory(F, U \cup {new}, nx[head], my) /\ head \in F
<1> DEFINE S == F \ Used(U)
           V == U \cup {new}
<1>1. head \in S  BY DEF Memory, FreeList
<1>2. \A u \in U : u[3] # head  BY <1>1 DEF Used
<1>3. Used(V) = Used(U) \cup {head}  BY DEF Used
<1>4. F \ Used(V) = S \ {head}  BY <1>3
<1>5. FreeList(nx[head], S \ {head}, my)
  <2>1. FreeList(head, S, nx)  BY DEF Memory
  <2>2. 0 \notin S /\ \A f \in S \ {head} : my[f] = nx[f]  OBVIOUS
  <2> HIDE DEF S
  <2> QED  BY <2>1, <2>2, ListPop
<1>6. Exclusive(V)  BY <1>2 DEF Memory, Exclusive
<1>7. InMemory(F, V)  BY <1>1 DEF Memory, InMemory
<1> HIDE DEF S, V
<1>8. Memory(F, V, nx[head], my)  BY <1>4, <1>5, <1>6, <1>7 DEF Memory
<1> QED  BY <1>1, <1>8 DEF V, S

\* A page goes from one use to another.
LEMMA MoveUse ==
  ASSUME NEW F, NEW U, NEW head, NEW nx, NEW old \in U, NEW new,
         Memory(F, U, head, nx), new[3] = old[3], old[3] \in F, 0 \notin F
  PROVE  Memory(F, (U \ {old}) \cup {new}, head, nx)
<1> DEFINE V == (U \ {old}) \cup {new}
<1>1. Used(V) = Used(U)
  <2>1. \A f : f \in Used(U) <=> \E u \in U : u[3] = f  BY DEF Used
  <2>2. \A f : f \in Used(V) <=> \E u \in V : u[3] = f  BY DEF Used
  <2>3. \A f : (\E u \in U : u[3] = f) <=> (\E u \in V : u[3] = f)  OBVIOUS
  <2> HIDE DEF V
  <2> QED  BY <2>1, <2>2, <2>3
<1>2. Exclusive(V)
  <2> SUFFICES ASSUME NEW u \in V, NEW v \in V, u[3] = v[3], u[3] # 0 PROVE u = v
    BY DEF Exclusive
  <2>1. \A w \in U : w[3] = old[3] => w = old  BY DEF Memory, Exclusive
  <2>2. \A w \in V : w = new \/ (w \in U /\ w # old)  OBVIOUS
  <2>3. Exclusive(U)  BY DEF Memory
  <2> QED  BY <2>1, <2>2, <2>3 DEF Exclusive
<1>3. InMemory(F, V)  BY DEF Memory, InMemory
<1> HIDE DEF V
<1>4. Memory(F, V, head, nx)  BY <1>1, <1>2, <1>3 DEF Memory
<1> QED  BY <1>4 DEF V

\* A page table in frame 0.
LEMMA ZeroUse ==
  ASSUME NEW F, NEW U, NEW head, NEW nx, NEW i,
         Memory(F, U, head, nx), 0 \notin F
  PROVE  Memory(F, U \cup {<<"table", i, 0>>}, head, nx)
<1> DEFINE new == <<"table", i, 0>>
           V == U \cup {new}
<1>1. new[1] = "table" /\ new[3] = 0  OBVIOUS
<1> HIDE DEF new
<1>2. Used(V) = Used(U) \cup {0}  BY <1>1 DEF Used
<1>3. F \ Used(V) = F \ Used(U)  BY <1>2
<1>4. Exclusive(V)  BY <1>1 DEF Memory, Exclusive
<1>5. InMemory(F, V)  BY <1>1 DEF Memory, InMemory
<1> HIDE DEF V
<1>6. Memory(F, V, head, nx)  BY <1>3, <1>4, <1>5 DEF Memory
<1> QED  BY <1>6 DEF V, new

\* A page is given back; f says what the uses that are left were before.
Renamed(f, V, U, old) ==
  /\ \A v \in V : f[v] \in U \ {old} /\ f[v][3] = v[3] /\ f[v][1] = v[1]
  /\ \A v, w \in V : f[v] = f[w] => v = w
  /\ \A u \in U \ {old} : \E v \in V : f[v] = u

Linked(my, nx, F, e, head) == my[e] = head /\ \A g \in F \ {e} : my[g] = nx[g]

LEMMA FreeUse ==
  ASSUME NEW F, NEW U, NEW head, NEW nx, NEW my, NEW old \in U, NEW V, NEW f,
         Memory(F, U, head, nx), 0 \notin F, old[3] \in F,
         Renamed(f, V, U, old), Linked(my, nx, F, old[3], head)
  PROVE  Memory(F, V, old[3], my)
<1> USE DEF Renamed, Linked
<1> DEFINE S == F \ Used(U)
           e == old[3]
<1>1. e \in F /\ e # 0 /\ e \notin S  BY DEF Used
<1>2. \A u \in U : u[3] = e => u = old  BY <1>1 DEF Memory, Exclusive
<1>3. F \ Used(V) = S \cup {e}
  <2>1. \A g : g \in Used(U) <=> \E u \in U : u[3] = g  BY DEF Used
  <2>2. \A g : g \in Used(V) <=> \E v \in V : v[3] = g  BY DEF Used
  <2>3. \A g : (\E v \in V : v[3] = g) <=> (\E u \in U \ {old} : u[3] = g)  OBVIOUS
  <2>4. \A g : (\E u \in U \ {old} : u[3] = g) <=> (g # e /\ \E u \in U : u[3] = g)
    BY <1>2
  <2>5. \A g : g \in Used(V) <=> g \in Used(U) /\ g # e
    BY <2>1, <2>2, <2>3, <2>4
  <2> QED  BY <1>1, <2>5
<1>4. FreeList(e, S \cup {e}, my)
  <2>1. FreeList(head, S, nx)  BY DEF Memory
  <2>2. 0 \notin S /\ (\A g \in S : my[g] = nx[g]) /\ my[e] = head
    BY <1>1
  <2> HIDE DEF S, e
  <2> QED  BY <1>1, <2>1, <2>2, ListPush
<1>5. Exclusive(V)
  <2> SUFFICES ASSUME NEW v \in V, NEW w \in V, v[3] = w[3], v[3] # 0 PROVE v = w
    BY DEF Exclusive
  <2>1. f[v] \in U /\ f[w] \in U /\ f[v][3] = f[w][3] /\ f[v][3] # 0  OBVIOUS
  <2>2. f[v] = f[w]  BY <2>1 DEF Memory, Exclusive
  <2> QED  BY <2>2
<1>6. InMemory(F, V)  BY DEF Memory, InMemory
<1> HIDE DEF S, e
<1> QED  BY <1>3, <1>4, <1>5, <1>6 DEF Memory, e

-----------------------------------------------------------------------------
(* What the steps do to the uses of frames.                                *)

\* ThreadUses, when the threads hold the pages pg from ix on.
Held(pg, ix) ==
  UNION {{<<"thread", <<t, i>>, pg[t][i]>> : i \in ix[t]..Len(pg[t])} : t \in Threads}

\* The other uses.
Rest == StackUses \cup HeapUses \cup TableUses \cup DirectoryUses

LEMMA HeldUse ==
  ASSUME NEW pg, NEW ix, NEW u
  PROVE  u \in Held(pg, ix) <=>
           \E t \in Threads : \E i \in ix[t]..Len(pg[t]) : u = <<"thread", <<t, i>>, pg[t][i]>>
BY DEF Held

LEMMA UseKinds ==
  /\ Uses = Rest \cup Held(pages, index)
  /\ \A u \in Rest : u[1] # "thread"
  /\ \A u \in Held(pages, index) : u[1] = "thread"
<1>1. Uses = Rest \cup Held(pages, index)  BY DEF Uses, Rest, ThreadUses, Held
<1>2. \A u \in StackUses : u[1] # "thread"  BY DEF StackUses
<1>3. \A u \in HeapUses : u[1] # "thread"  BY DEF HeapUses
<1>4. \A u \in TableUses : u[1] # "thread"  BY DEF TableUses
<1>5. \A u \in DirectoryUses : u[1] # "thread"  BY DEF DirectoryUses
<1>6. \A u \in Held(pages, index) : u[1] = "thread"  BY HeldUse
<1> QED  BY <1>1, <1>2, <1>3, <1>4, <1>5, <1>6 DEF Rest

\* Thread t holds its page k with pg and ix, but not with pg2 and ix2.
OneLess(pg, ix, pg2, ix2, t, k) ==
  /\ \A u \in Threads : u # t => pg2[u] = pg[u] /\ ix2[u] = ix[u]
  /\ k \in ix[t]..Len(pg[t])
  /\ \A i : i \in ix2[t]..Len(pg2[t]) <=> i \in ix[t]..Len(pg[t]) /\ i # k
  /\ \A i \in ix2[t]..Len(pg2[t]) : pg2[t][i] = pg[t][i]

HeldBy(pg, t, k) == <<"thread", <<t, k>>, pg[t][k]>>

UseGone(pg, ix, pg2, ix2, t, k) ==
  /\ HeldBy(pg, t, k) \in Held(pg, ix)
  /\ Held(pg2, ix2) = Held(pg, ix) \ {HeldBy(pg, t, k)}

LEMMA HeldLess ==
  ASSUME NEW pg, NEW ix, NEW pg2, NEW ix2, NEW t \in Threads, NEW k,
         OneLess(pg, ix, pg2, ix2, t, k)
  PROVE  UseGone(pg, ix, pg2, ix2, t, k)
<1> USE DEF OneLess
<1> DEFINE x == <<"thread", <<t, k>>, pg[t][k]>>
           A(u) == \E s \in Threads : \E i \in ix[s]..Len(pg[s]) :
                     u = <<"thread", <<s, i>>, pg[s][i]>>
           B(u) == \E s \in Threads : \E i \in ix2[s]..Len(pg2[s]) :
                     u = <<"thread", <<s, i>>, pg2[s][i]>>
<1>1. x \in Held(pg, ix)  BY HeldUse
<1>2. ASSUME NEW u, B(u) PROVE A(u) /\ u # x
  <2>0. PICK s \in Threads : \E i \in ix2[s]..Len(pg2[s]) : u = <<"thread", <<s, i>>, pg2[s][i]>>
    BY <1>2
  <2>1. PICK i \in ix2[s]..Len(pg2[s]) : u = <<"thread", <<s, i>>, pg2[s][i]>>  BY <2>0
  <2>2. CASE s = t
    <3>1. i \in ix[t]..Len(pg[t]) /\ i # k /\ pg2[t][i] = pg[t][i]  BY <2>1, <2>2
    <3>2. u = <<"thread", <<t, i>>, pg[t][i]>>  BY <2>1, <2>2, <3>1
    <3>3. u # x  BY <3>1, <3>2
    <3> QED  BY <3>1, <3>2, <3>3
  <2>3. CASE s # t
    <3>1. pg2[s] = pg[s] /\ ix2[s] = ix[s]  BY <2>3
    <3>2. u = <<"thread", <<s, i>>, pg[s][i]>> /\ i \in ix[s]..Len(pg[s])  BY <2>1, <3>1
    <3>3. u # x  BY <2>3, <3>2
    <3> QED  BY <3>2, <3>3
  <2> QED  BY <2>2, <2>3
<1>3. ASSUME NEW u, A(u), u # x PROVE B(u)
  <2>0. PICK s \in Threads : \E i \in ix[s]..Len(pg[s]) : u = <<"thread", <<s, i>>, pg[s][i]>>
    BY <1>3
  <2>1. PICK i \in ix[s]..Len(pg[s]) : u = <<"thread", <<s, i>>, pg[s][i]>>  BY <2>0
  <2>2. CASE s = t
    <3>1. i # k  BY <1>3, <2>1, <2>2
    <3>2. i \in ix2[t]..Len(pg2[t]) /\ pg2[t][i] = pg[t][i]  BY <2>1, <2>2, <3>1
    <3> QED  BY <2>1, <2>2, <3>2
  <2>3. CASE s # t
    <3>1. pg2[s] = pg[s] /\ ix2[s] = ix[s]  BY <2>3
    <3> QED  BY <2>1, <3>1
  <2> QED  BY <2>2, <2>3
<1>4. \A u : u \in Held(pg, ix) <=> A(u)  BY HeldUse
<1>5. \A u : u \in Held(pg2, ix2) <=> B(u)  BY HeldUse
<1> HIDE DEF A, B, x
<1>6. Held(pg2, ix2) = Held(pg, ix) \ {x}  BY <1>2, <1>3, <1>4, <1>5
<1> QED  BY <1>1, <1>6 DEF x, HeldBy, UseGone

\* A thread gets a page.
OneMore(pg, ix, pg2, t, a) ==
  Held(pg2, ix) = Held(pg, ix) \cup {<<"thread", <<t, Len(pg[t]) + 1>>, a>>}

LEMMA HeldMore ==
  ASSUME NEW t \in Threads, NEW a, NEW pg, NEW ix, NEW pg2,
         pg[t] \in Seq(Nat), a \in Nat, ix[t] = 1,
         pg2[t] = Append(pg[t], a),
         \A u \in Threads : u # t => pg2[u] = pg[u]
  PROVE  OneMore(pg, ix, pg2, t, a)
<1> DEFINE n == Len(pg[t])
           q == pg[t]
           x == <<"thread", <<t, n + 1>>, pg2[t][n + 1]>>
<1> HIDE DEF q
<1>1. q \in Seq(Nat) /\ pg2[t] = Append(q, a) /\ n = Len(q)  BY DEF q
<1>2. n \in Nat  BY <1>1
<1>3. /\ Len(pg2[t]) = n + 1 /\ pg2[t][n + 1] = a
      /\ \A i \in 1..n : pg2[t][i] = q[i]
  BY <1>1, <1>2
<1> HIDE DEF n
<1>4. n + 1 \in ix[t]..Len(pg2[t])  BY <1>2, <1>3
<1>5. \A i : i \in ix[t]..Len(pg[t]) <=> i \in ix[t]..Len(pg2[t]) /\ i # n + 1
  BY <1>2, <1>3 DEF n
<1>6. \A i \in ix[t]..Len(pg[t]) : pg[t][i] = pg2[t][i]
  BY <1>3 DEF n, q
<1>7. x \in Held(pg2, ix) /\ Held(pg, ix) = Held(pg2, ix) \ {x}
  <2>1. \A u \in Threads : u # t => pg[u] = pg2[u] /\ ix[u] = ix[u]  OBVIOUS
  <2> DEFINE k == n + 1
  <2>2. OneLess(pg2, ix, pg, ix, t, k)  BY <1>4, <1>5, <1>6, <2>1 DEF OneLess
  <2> HIDE DEF k
  <2>3. UseGone(pg2, ix, pg, ix, t, k)  BY <2>2, HeldLess
  <2> QED  BY <2>3 DEF k, HeldBy, UseGone
<1>8. x = <<"thread", <<t, n + 1>>, a>>  BY <1>3
<1> QED  BY <1>7, <1>8 DEF n, OneMore

\* mm_alloc_physical_page and mm_free_physical_page with a right list.
LEMMA AllocWords ==
  ASSUME ListTypes, Memory(Frames, Uses, first_free_page, word),
         mm_alloc_physical_page(first_free_page)
  PROVE  /\ first_free_page # 0 /\ first_free_page \in Frames
         /\ first_free_page' = word[first_free_page]
         /\ \A f \in Frames \ {first_free_page} : word'[f] = word[f]
<1>1. first_free_page # 0 /\ first_free_page \in Frames
  BY DEF mm_alloc_physical_page, Memory, FreeList
<1>2. Frame(first_free_page) = first_free_page  BY <1>1, FramesOfMemory
<1> QED  BY <1>1, <1>2 DEF mm_alloc_physical_page, ListTypes

LEMMA FreeWords ==
  ASSUME ListTypes, NEW page \in Frames, mm_free_physical_page(page)
  PROVE  /\ first_free_page' = page /\ word'[page] = first_free_page
         /\ \A f \in Frames \ {page} : word'[f] = word[f]
<1>1. Frame(page) = page  BY FramesOfMemory
<1> QED  BY <1>1 DEF mm_free_physical_page, ListTypes

LEMMA RestKept ==
  ASSUME UNCHANGED <<pte, heap, tables, mmap>>
  PROVE  Rest' = Rest
BY DEF Rest, StackUses, HeapUses, TableUses, DirectoryUses

\* What a thread holds is usable memory, and no more than numbers.
LEMMA HeldFrames ==
  ASSUME SlotInv, Memory(Frames, Uses, first_free_page, word), NEW t \in Threads,
         NEW i \in index[t]..Len(pages[t])
  PROVE  LET x == <<"thread", <<t, i>>, pages[t][i]>> IN
         x \in Uses /\ x[3] = pages[t][i] /\ pages[t][i] \in Frames
<1> DEFINE x == <<"thread", <<t, i>>, pages[t][i]>>
<1>1. x \in Uses  BY UseKinds, HeldUse
<1>2. x[1] = "thread" /\ x[3] = pages[t][i]  OBVIOUS
<1> HIDE DEF x
<1>3. x[3] \in Frames  BY <1>1, <1>2 DEF Memory, InMemory
<1> QED  BY <1>1, <1>2, <1>3 DEF x

LEMMA PagesNumbers ==
  ASSUME SlotInv, NEW t \in Threads
  PROVE  pages[t] \in Seq(Nat) /\ Len(pages[t]) \in Nat
<1>1. Values \subseteq Nat  BY DEF Values
<1>2. pages[t] \in Seq(Values)  BY DEF SlotInv, Types, LocalTypes
<1> DEFINE q == pages[t]
<1> HIDE DEF q
<1>3. q \in Seq(Values)  BY <1>2 DEF q
<1>4. /\ Len(q) \in Nat /\ q = [i \in 1..Len(q) |-> q[i]]
      /\ \A i \in 1..Len(q) : q[i] \in Values
  BY <1>3
<1>5. q \in Seq(Nat)
  <2>1. \A i \in 1..Len(q) : q[i] \in Nat  BY <1>1, <1>4
  <2>2. q \in [1..Len(q) -> Nat]  BY <1>4, <2>1
  <2> QED  BY <1>4, <2>2
<1> QED  BY <1>4, <1>5 DEF q

\* A page that a thread takes.
LEMMA HoldsNewPage ==
  ASSUME SlotInv, Memory(Frames, Uses, first_free_page, word), NEW t \in Threads,
         mm_alloc_physical_page(first_free_page),
         pages'[t] = Append(pages[t], first_free_page),
         \A u \in Threads : u # t => pages'[u] = pages[u],
         index[t] = 1, UNCHANGED <<pte, heap, tables, mmap, index>>
  PROVE  Memory(Frames', Uses', first_free_page', word')
<1> DEFINE a == first_free_page
           new == <<"thread", <<t, Len(pages[t]) + 1>>, a>>
<1>1. /\ a # 0 /\ a \in Frames /\ a' = word[a]
      /\ \A f \in Frames \ {a} : word'[f] = word[f]
  BY AllocWords DEF SlotInv, Types
<1>2. a \in Nat /\ 0 \notin Frames  BY <1>1, FramesOfMemory
<1>3. pages[t] \in Seq(Nat)  BY PagesNumbers
<1>4. Held(pages', index) = Held(pages, index) \cup {new}
  <2>1. /\ t \in Threads /\ a \in Nat /\ pages[t] \in Seq(Nat) /\ index[t] = 1
        /\ pages'[t] = Append(pages[t], a)
        /\ \A u \in Threads : u # t => pages'[u] = pages[u]
    BY <1>2, <1>3
  <2> HIDE DEF a
  <2>2. OneMore(pages, index, pages', t, a)  BY ONLY <2>1, HeldMore
  <2> QED  BY <2>2 DEF OneMore, a
<1>5. Rest' = Rest /\ Frames' = Frames  BY RestKept, ValuesKept
<1>6. Uses' = Rest' \cup Held(pages', index')
  BY DEF Uses, Rest, ThreadUses, Held
<1>7. new[3] = a  OBVIOUS
<1> HIDE DEF new
<1>8. Uses' = Uses \cup {new}  BY <1>4, <1>5, <1>6, UseKinds
<1>9. Memory(Frames, Uses \cup {new}, word[a], word')
  BY <1>1, <1>2, <1>7, AllocUse
<1> QED  BY <1>1, <1>5, <1>8, <1>9

\* Nothing of memory changes.
LEMMA MemoryKept ==
  ASSUME Memory(Frames, Uses, first_free_page, word),
         UNCHANGED <<pte, heap, tables, mmap, first_free_page, word>>,
         Held(pages', index') = Held(pages, index)
  PROVE  Memory(Frames', Uses', first_free_page', word')
<1>1. Rest' = Rest /\ Frames' = Frames  BY RestKept, ValuesKept
<1>2. Uses' = Rest' \cup Held(pages', index')
  BY DEF Uses, Rest, ThreadUses, Held
<1>3. Uses' = Uses  BY <1>1, <1>2, UseKinds
<1> QED  BY <1>1, <1>3

LEMMA CallMemory ==
  ASSUME SlotInv, Memory(Frames, Uses, first_free_page, word), NEW t \in Threads, Call(t)
  PROVE  Memory(Frames', Uses', first_free_page', word')
<1>1. UNCHANGED <<pte, heap, tables, mmap, first_free_page, word, pages, index>>
  BY DEF Call, heap_pages
<1> QED  BY <1>1, MemoryKept

LEMMA AllocPageMemory ==
  ASSUME SlotInv, Memory(Frames, Uses, first_free_page, word), NEW t \in Threads,
         AllocPage(t)
  PROVE  Memory(Frames', Uses', first_free_page', word')
<1>1. UNCHANGED <<pte, heap, tables, mmap, index>> /\ pc[t] = "pages"
  BY DEF AllocPage, heap_pages
<1>2. index[t] = 1  BY <1>1 DEF SlotInv, Places
<1>3. CASE /\ mm_alloc_physical_page(first_free_page)
           /\ pages' = [pages EXCEPT ![t] = Append(@, first_free_page)]
  <2>1. /\ pages'[t] = Append(pages[t], first_free_page)
        /\ \A u \in Threads : u # t => pages'[u] = pages[u]
    BY <1>3 DEF SlotInv, Types, LocalTypes
  <2> QED  BY <1>1, <1>2, <1>3, <2>1, HoldsNewPage
<1>4. CASE UNCHANGED <<first_free_page, word, pages>>
  BY <1>1, <1>4, MemoryKept
<1> QED  BY <1>3, <1>4 DEF AllocPage

LEMMA FindSlotMemory ==
  ASSUME SlotInv, Memory(Frames, Uses, first_free_page, word), NEW t \in Threads,
         FindSlot(t)
  PROVE  Memory(Frames', Uses', first_free_page', word')
<1>1. UNCHANGED <<pte, heap, tables, mmap, first_free_page, word, pages, index>>
  BY DEF FindSlot, heap_pages
<1> QED  BY <1>1, MemoryKept

\* The page of the thread becomes a page of its stack.
LEMMA MapPageMemory ==
  ASSUME SlotInv, Memory(Frames, Uses, first_free_page, word), NEW t \in Threads,
         MapPage(t)
  PROVE  Memory(Frames', Uses', first_free_page', word')
<1> DEFINE e == <<slot[t], index[t]>>
           k == index[t]
           a == pages[t][k]
           old == HeldBy(pages, t, k)
           new == <<"stack", e, a>>
<1>1. /\ pc[t] = "map" /\ k <= StackPages
      /\ UNCHANGED <<heap, tables, mmap, first_free_page, word, pages>>
  BY DEF MapPage, MorePages, heap_pages
<1>2. CASE UNCHANGED <<pte, index>>
  BY <1>1, <1>2, MemoryKept
<1>3. CASE /\ pte[e] = 0 /\ pte' = [pte EXCEPT ![e] = Mapped(a)]
           /\ index' = [index EXCEPT ![t] = @ + 1]
  <2>1. /\ k \in Nat /\ k >= 1 /\ Len(pages[t]) = StackPages /\ StackPages \in Nat
        /\ slot[t] \in SlotSet /\ k \in PageSet /\ e \in Entries
    <3>1. k \in 1..(StackPages + 1) /\ Len(pages[t]) = StackPages /\ Claimed(t)
      BY <1>1 DEF SlotInv, Types, LocalTypes, Places
    <3>2. slot[t] \in SlotSet  BY <3>1 DEF SlotInv, Types, LocalTypes, Claimed
    <3>3. StackPages \in Nat  BY SizesAssumption
    <3>4. k \in PageSet /\ k \in Nat /\ k >= 1  BY <1>1, <3>1, <3>3 DEF PageSet
    <3> QED  BY <3>1, <3>2, <3>3, <3>4, EntryPairs
  <2>2. k \in index[t]..Len(pages[t])  BY <2>1 DEF PageSet
  <2>3. a \in Frames  BY <2>2, HeldFrames
  <2>4. a \in Nat /\ Frame(a) = a /\ 0 \notin Frames  BY <2>3, FramesOfMemory
  <2>5. Present(Mapped(a)) /\ Frame(Mapped(a)) = a  BY <2>4, FrameFacts
  <2>6. index'[t] = k + 1 /\ \A u \in Threads : u # t => index'[u] = index[u]
    BY <1>3 DEF SlotInv, Types, LocalTypes
  <2>7. OneLess(pages, index, pages', index', t, k)
    <3>1. \A i : i \in (k + 1)..Len(pages[t]) <=> i \in k..Len(pages[t]) /\ i # k
      BY <2>1
    <3> HIDE DEF k
    <3> QED  BY <1>1, <2>2, <2>6, <3>1 DEF OneLess, k
  <2> HIDE DEF k
  <2>8. UseGone(pages, index, pages', index', t, k)  BY <2>7, HeldLess
  <2>9. StackUses' = StackUses \cup {new}
    <3>1. /\ pte'[e] = Mapped(a) /\ DOMAIN pte = Entries
          /\ \A x \in Entries : x # e => pte'[x] = pte[x]
      BY <1>3, <2>1 DEF SlotInv, Types, TableTypes
    <3>2. ~Present(pte[e])  BY <1>3 DEF Present
    <3> DEFINE P == {x \in Entries : Present(pte[x])}
               Q == {x \in Entries : Present(pte'[x])}
    <3>3. Q = P \cup {e} /\ e \notin P  BY <2>1, <2>5, <3>1, <3>2
    <3> HIDE DEF e, a
    <3>4. \A x \in P : Frame(pte'[x]) = Frame(pte[x])  BY <3>1, <3>3
    <3>5. Frame(pte'[e]) = a  BY <2>5, <3>1
    <3>6. StackUses = {<<"stack", x, Frame(pte[x])>> : x \in P}  BY DEF StackUses
    <3>7. StackUses' = {<<"stack", x, Frame(pte'[x])>> : x \in Q}  BY DEF StackUses
    <3> HIDE DEF P, Q
    <3> QED  BY <3>3, <3>4, <3>5, <3>6, <3>7
  <2>10. Rest' = Rest \cup {new}
    <3>1. HeapUses' = HeapUses /\ TableUses' = TableUses /\ DirectoryUses' = DirectoryUses
      BY <1>1 DEF HeapUses, TableUses, DirectoryUses
    <3> HIDE DEF new
    <3> QED  BY <2>9, <3>1 DEF Rest
  <2>11. old[1] = "thread" /\ old[3] = a /\ new[3] = a  BY DEF HeldBy
  <2> HIDE DEF old, new, a
  <2>12. Uses' = (Uses \ {old}) \cup {new} /\ old \in Uses
    <3>1. Uses' = Rest' \cup Held(pages', index')
      BY DEF Uses, Rest, ThreadUses, Held
    <3>2. Held(pages', index') = Held(pages, index) \ {old} /\ old \in Held(pages, index)
      BY <2>8 DEF UseGone, old
    <3>3. old \notin Rest  BY <2>11, UseKinds
    <3> QED  BY <2>10, <3>1, <3>2, <3>3, UseKinds
  <2>13. Memory(Frames, (Uses \ {old}) \cup {new}, first_free_page, word)
    BY <2>3, <2>4, <2>11, <2>12, MoveUse
  <2>14. Frames' = Frames  BY <1>1, ValuesKept
  <2> QED  BY <1>1, <2>12, <2>13, <2>14
<1> QED  BY <1>2, <1>3 DEF MapPage, Mappable

\* The new thread has its stack: nothing is left to be mapped.
LEMMA DoneMemory ==
  ASSUME SlotInv, Memory(Frames, Uses, first_free_page, word), NEW t \in Threads, Done(t)
  PROVE  Memory(Frames', Uses', first_free_page', word')
<1>1. /\ pc[t] = "map" /\ ~(index[t] <= StackPages)
      /\ index' = [index EXCEPT ![t] = 1] /\ pages' = [pages EXCEPT ![t] = <<>>]
      /\ UNCHANGED <<pte, heap, tables, mmap, first_free_page, word>>
  BY DEF Done, At, MorePages, heap_pages
<1>2. /\ index'[t] = 1 /\ pages'[t] = <<>>
      /\ \A u \in Threads : u # t => index'[u] = index[u] /\ pages'[u] = pages[u]
  BY <1>1 DEF SlotInv, Types, LocalTypes
<1>3. \A i : i \notin index[t]..Len(pages[t])
  <2>1. Len(pages[t]) = StackPages /\ index[t] \in 1..(StackPages + 1)
    BY <1>1 DEF SlotInv, Types, LocalTypes, Places
  <2>2. StackPages \in Nat  BY SizesAssumption
  <2> QED  BY <1>1, <2>1, <2>2
<1>4. \A i : i \notin index'[t]..Len(pages'[t])  BY <1>2
<1>5. Held(pages', index') = Held(pages, index)
  <2> DEFINE A(u) == \E s \in Threads : \E i \in index[s]..Len(pages[s]) :
                       u = <<"thread", <<s, i>>, pages[s][i]>>
             B(u) == \E s \in Threads : \E i \in index'[s]..Len(pages'[s]) :
                       u = <<"thread", <<s, i>>, pages'[s][i]>>
  <2>1. \A u : A(u) => B(u)  BY <1>2, <1>3
  <2>2. \A u : B(u) => A(u)  BY <1>2, <1>4
  <2>3. \A u : u \in Held(pages, index) <=> A(u)  BY HeldUse
  <2>4. \A u : u \in Held(pages', index') <=> B(u)  BY HeldUse
  <2> HIDE DEF A, B
  <2> QED  BY <2>1, <2>2, <2>3, <2>4
<1> QED  BY <1>1, <1>5, MemoryKept

\* A page is given back: those behind it move up.
LEMMA UndoMemory ==
  ASSUME SlotInv, exited = {}, Memory(Frames, Uses, first_free_page, word),
         NEW t \in Threads, Undo(t)
  PROVE  Memory(Frames', Uses', first_free_page', word')
<1>1. /\ pc[t] \in {"oom", "mapped"}
      /\ UNCHANGED <<pte, heap, tables, mmap, index>>
  BY DEF Undo, heap_pages
<1>2. index[t] = 1
  <2>1. pc[t] # "mapped"  BY DEF SlotInv, Mappings
  <2> QED  BY <1>1, <2>1 DEF SlotInv, Places
<1>3. CASE UNCHANGED <<first_free_page, word, pages>>
  BY <1>1, <1>3, MemoryKept
<1>4. CASE /\ pages[t] # <<>> /\ mm_free_physical_page(Head(pages[t]))
           /\ pages' = [pages EXCEPT ![t] = Tail(@)]
  <2> DEFINE q == pages[t]
             n == Len(pages[t])
             a == pages[t][1]
             old == HeldBy(pages, t, 1)
             V == Uses'
             Mine(v) == v[1] = "thread" /\ v[2][1] = t
             f == [v \in V |-> IF Mine(v) THEN <<"thread", <<t, v[2][2] + 1>>, v[3]>> ELSE v]
  <2>1. /\ n \in Nat /\ n >= 1 /\ Head(q) = a
        /\ Len(Tail(q)) = n - 1 /\ \A i \in 1..(n - 1) : Tail(q)[i] = q[i + 1]
    <3>1. q \in Seq(Nat) /\ q # <<>> /\ n = Len(q) /\ a = q[1]  BY <1>4, PagesNumbers
    <3> HIDE DEF q, n, a
    <3> QED  BY <3>1
  <2>2. pages'[t] = Tail(q) /\ \A u \in Threads : u # t => pages'[u] = pages[u]
    BY <1>4 DEF SlotInv, Types, LocalTypes
  <2> HIDE DEF n
  <2>3. 1 \in index[t]..Len(pages[t])  BY <1>2, <2>1 DEF n
  <2>4. old \in Uses /\ old[1] = "thread" /\ old[3] = a /\ a \in Frames
    BY <2>3, HeldFrames DEF HeldBy
  <2>5. 0 \notin Frames  BY FramesOfMemory
  <2>6. /\ first_free_page' = a /\ word'[a] = first_free_page
        /\ \A g \in Frames \ {a} : word'[g] = word[g]
    BY <1>4, <2>1, <2>4, FreeWords DEF SlotInv, Types
  <2>7. V = Rest \cup Held(pages', index')
    <3>1. V = Rest' \cup Held(pages', index')  BY DEF Uses, Rest, ThreadUses, Held
    <3> QED  BY <1>1, <3>1, RestKept
  <2> DEFINE Others == Rest \cup
               {u \in Held(pages, index) : ~Mine(u)}
             Old(i) == <<"thread", <<t, i>>, q[i]>>
             New(i) == <<"thread", <<t, i>>, q[i + 1]>>
  <2>8. \A u : u \in Uses <=> u \in Others \/ \E i \in 1..n : u = Old(i)
    <3>1. ASSUME NEW u \in Held(pages, index), Mine(u) PROVE \E i \in 1..n : u = Old(i)
      <4>1. PICK s \in Threads : \E i \in index[s]..Len(pages[s]) :
              u = <<"thread", <<s, i>>, pages[s][i]>>
        BY HeldUse
      <4>2. PICK i \in index[s]..Len(pages[s]) : u = <<"thread", <<s, i>>, pages[s][i]>>
        BY <4>1
      <4>3. s = t  BY <3>1, <4>2
      <4> QED  BY <1>2, <4>2, <4>3 DEF n
    <3>2. ASSUME NEW i \in 1..n PROVE Old(i) \in Held(pages, index)
      BY <1>2, HeldUse DEF n
    <3> HIDE DEF Mine, Old
    <3> QED  BY <3>1, <3>2, UseKinds
  <2>9. \A u : u \in V <=> u \in Others \/ \E i \in 1..(n - 1) : u = New(i)
    <3>1. index' = index /\ index'[t] = 1 /\ Len(pages'[t]) = n - 1
      BY <1>1, <1>2, <2>1, <2>2
    <3>2. ASSUME NEW u \in Held(pages', index')
          PROVE  \/ u \in Held(pages, index) /\ ~Mine(u)
                 \/ \E i \in 1..(n - 1) : u = New(i)
      <4>1. PICK s \in Threads : \E i \in index'[s]..Len(pages'[s]) :
              u = <<"thread", <<s, i>>, pages'[s][i]>>
        BY HeldUse
      <4>2. PICK i \in index'[s]..Len(pages'[s]) : u = <<"thread", <<s, i>>, pages'[s][i]>>
        BY <4>1
      <4>3. CASE s = t
        <5>1. i \in 1..(n - 1)  BY <3>1, <4>2, <4>3
        <5>2. pages'[t][i] = q[i + 1]  BY <2>1, <2>2, <5>1
        <5> QED  BY <4>2, <4>3, <5>1, <5>2
      <4>4. CASE s # t
        <5>1. i \in index[s]..Len(pages[s]) /\ u = <<"thread", <<s, i>>, pages[s][i]>>
          BY <2>2, <3>1, <4>2, <4>4
        <5>2. u \in Held(pages, index)  BY <5>1, HeldUse
        <5>3. u[2][1] = s  BY <5>1
        <5> QED  BY <4>4, <5>2, <5>3
      <4> QED  BY <4>3, <4>4
    <3>3. ASSUME NEW u \in Held(pages, index), ~Mine(u) PROVE u \in Held(pages', index')
      <4>1. PICK s \in Threads : \E i \in index[s]..Len(pages[s]) :
              u = <<"thread", <<s, i>>, pages[s][i]>>
        BY HeldUse
      <4>2. PICK i \in index[s]..Len(pages[s]) : u = <<"thread", <<s, i>>, pages[s][i]>>
        BY <4>1
      <4>3. s # t  BY <3>3, <4>2
      <4>4. i \in index'[s]..Len(pages'[s]) /\ u = <<"thread", <<s, i>>, pages'[s][i]>>
        BY <2>2, <3>1, <4>2, <4>3
      <4> QED  BY <4>4, HeldUse
    <3>4. ASSUME NEW i \in 1..(n - 1) PROVE New(i) \in Held(pages', index')
      <4>1. pages'[t][i] = q[i + 1]  BY <2>1, <2>2
      <4>2. i \in index'[t]..Len(pages'[t])  BY <3>1
      <4>3. New(i) = <<"thread", <<t, i>>, pages'[t][i]>>  BY <4>1
      <4> HIDE DEF New
      <4> QED  BY <4>2, <4>3, HeldUse
    <3> HIDE DEF Mine, New, V
    <3> QED  BY <2>7, <3>2, <3>3, <3>4
  <2>10. \A u \in Others : ~Mine(u)  BY UseKinds
  <2>11. \A i : /\ Mine(Old(i)) /\ Old(i)[3] = q[i] /\ Old(i)[1] = "thread"
                /\ Mine(New(i)) /\ New(i)[3] = q[i + 1] /\ New(i)[1] = "thread"
                /\ Old(i)[2][2] = i /\ New(i)[2][2] = i
    OBVIOUS
  <2>12. \A i \in 1..(n - 1) : New(i) \in V /\ f[New(i)] = Old(i + 1)
    <3>1. \A i \in 1..(n - 1) : New(i) \in V  BY <2>9
    <3> HIDE DEF V
    <3> QED  BY <3>1, <2>11
  <2>13. \A v \in Others : v \in V /\ f[v] = v
    <3>1. \A v \in Others : v \in V  BY <2>9
    <3> HIDE DEF V, Others
    <3> QED  BY <2>10, <3>1
  <2>14. old = Old(1)  BY DEF HeldBy
  <2>15. \A i \in 1..(n - 1) : i + 1 \in 1..n /\ i + 1 # 1  BY <2>1
  <2> HIDE DEF V, f, Others, Mine, Old, New, old, q
  <2>16. \A v \in V : f[v] \in Uses \ {old} /\ f[v][3] = v[3] /\ f[v][1] = v[1]
    <3> SUFFICES ASSUME NEW v \in V
                 PROVE  f[v] \in Uses \ {old} /\ f[v][3] = v[3] /\ f[v][1] = v[1]
      OBVIOUS
    <3>1. CASE v \in Others
      <4>1. v # old  BY <2>10, <2>11, <2>14, <3>1
      <4> QED  BY <2>8, <2>13, <3>1, <4>1
    <3>2. CASE \E i \in 1..(n - 1) : v = New(i)
      <4>1. PICK i \in 1..(n - 1) : v = New(i)  BY <3>2
      <4> DEFINE j == i + 1
      <4>2. j \in 1..n /\ j # 1  BY <2>15
      <4>3. f[v] = Old(j) /\ v[3] = q[j] /\ v[1] = "thread"  BY <2>11, <2>12, <4>1
      <4> HIDE DEF j
      <4>4. Old(j) \in Uses /\ Old(j) # old
        <5>1. Old(j)[2][2] = j /\ old[2][2] = 1  BY <2>11, <2>14
        <5> QED  BY <2>8, <4>2, <5>1
      <4> QED  BY <2>11, <4>3, <4>4
    <3> QED  BY <2>9, <3>1, <3>2
  <2>17. \A v, w \in V : f[v] = f[w] => v = w
    <3> SUFFICES ASSUME NEW v \in V, NEW w \in V, f[v] = f[w] PROVE v = w
      OBVIOUS
    <3>1. \A x \in V : \/ x \in Others /\ f[x] = x /\ ~Mine(f[x])
                       \/ \E i \in 1..(n - 1) :
                            x = New(i) /\ Mine(f[x]) /\ f[x][2][2] = i + 1
      BY <2>9, <2>10, <2>11, <2>12, <2>13
    <3>2. CASE Mine(f[v])
      <4>1. PICK i \in 1..(n - 1) : v = New(i) /\ f[v][2][2] = i + 1  BY <3>1, <3>2
      <4>2. PICK j \in 1..(n - 1) : w = New(j) /\ f[w][2][2] = j + 1  BY <3>1, <3>2
      <4>3. i + 1 = j + 1  BY <4>1, <4>2
      <4>4. i = j  BY <2>1, <4>3
      <4> QED  BY <4>1, <4>2, <4>4
    <3>3. CASE ~Mine(f[v])  BY <3>1, <3>3
    <3> QED  BY <3>2, <3>3
  <2>18. \A u \in Uses \ {old} : \E v \in V : f[v] = u
    <3> SUFFICES ASSUME NEW u \in Uses, u # old PROVE \E v \in V : f[v] = u
      OBVIOUS
    <3>1. CASE u \in Others  BY <2>13, <3>1
    <3>2. CASE \E i \in 1..n : u = Old(i)
      <4>1. PICK i \in 1..n : u = Old(i)  BY <3>2
      <4>2. i # 1  BY <2>14, <4>1
      <4>3. i - 1 \in 1..(n - 1) /\ (i - 1) + 1 = i  BY <2>1, <4>2
      <4>4. New(i - 1) \in V /\ f[New(i - 1)] = Old(i)  BY <2>12, <4>3
      <4> QED  BY <4>1, <4>4
    <3> QED  BY <2>8, <3>1, <3>2
  <2> HIDE DEF a
  <2>19. Memory(Frames, V, old[3], word')
    <3>1. Linked(word', word, Frames, old[3], first_free_page) /\ old[3] \in Frames
      BY <2>4, <2>6 DEF Linked
    <3>2. Renamed(f, V, Uses, old)  BY <2>16, <2>17, <2>18 DEF Renamed
    <3> QED  BY <2>4, <2>5, <3>1, <3>2, FreeUse
  <2>20. Frames' = Frames  BY <1>1, ValuesKept
  <2> QED  BY <2>4, <2>6, <2>19, <2>20 DEF V
<1> QED  BY <1>3, <1>4 DEF Undo

LEMMA GrowAllocMemory ==
  ASSUME SlotInv, Memory(Frames, Uses, first_free_page, word), NEW t \in Threads,
         GrowAlloc(t)
  PROVE  Memory(Frames', Uses', first_free_page', word')
<1>1. /\ pc[t] = "idle" /\ panicked = "no"
      /\ UNCHANGED <<pte, heap, tables, mmap, index>>
  BY DEF GrowAlloc, At, heap_pages
<1>2. index[t] = 1 /\ pages[t] = <<>>  BY <1>1 DEF SlotInv, Places
<1>3. CASE /\ mm_alloc_physical_page(first_free_page)
           /\ pages' = [pages EXCEPT ![t] = <<first_free_page>>]
  <2>1. /\ pages'[t] = <<first_free_page>>
        /\ \A u \in Threads : u # t => pages'[u] = pages[u]
    BY <1>3 DEF SlotInv, Types, LocalTypes
  <2>2. Append(pages[t], first_free_page) = <<first_free_page>>  BY <1>2
  <2> QED  BY <1>1, <1>2, <1>3, <2>1, <2>2, HoldsNewPage
<1>4. CASE UNCHANGED <<first_free_page, word, pages>>
  BY <1>1, <1>4, MemoryKept
<1> QED  BY <1>3, <1>4 DEF GrowAlloc

LEMMA GrowFailsMemory ==
  ASSUME SlotInv, Memory(Frames, Uses, first_free_page, word), NEW t \in Threads,
         GrowFails(t)
  PROVE  Memory(Frames', Uses', first_free_page', word')
<1>1. UNCHANGED <<pte, heap, tables, mmap, first_free_page, word, pages, index>>
  BY DEF GrowFails, heap_pages
<1> QED  BY <1>1, MemoryKept

\* The page becomes one of the heap; a page table may be made for it.
LEMMA GrowMapMemory ==
  ASSUME SlotInv, Memory(Frames, Uses, first_free_page, word), NEW t \in Threads,
         GrowMap(t)
  PROVE  Memory(Frames', Uses', first_free_page', word')
<1> DEFINE a == pages[t][1]
           n == Len(heap) + 1
           k == TableOf(n)
           old == HeldBy(pages, t, 1)
           new == <<"heap", n, a>>
           b == first_free_page
           U == (Uses \ {old}) \cup {new}
           tbl == <<"table", k, b>>
<1>1. /\ pc[t] = "grow" /\ heap' = Append(heap, Mapped(Head(pages[t])))
      /\ pages' = [pages EXCEPT ![t] = <<>>]
      /\ UNCHANGED <<mmap, pte, index>>
  BY DEF GrowMap, At
<1>2. /\ index[t] = 1 /\ Len(pages[t]) = 1 /\ Len(heap) < HeapPages
      /\ heap \in Seq(Nat) /\ tables \in [0..TableOf(HeapPages) -> Nat]
  BY <1>1 DEF SlotInv, Types, TableTypes, Places, InMalloc
<1>3. Head(pages[t]) = a
  <2>1. pages[t] \in Seq(Nat)  BY PagesNumbers
  <2> QED  BY <1>2, <2>1
<1>4. 1 \in index[t]..Len(pages[t])  BY <1>2
<1>5. a \in Frames  BY <1>4, HeldFrames
<1>6. a \in Nat /\ Frame(a) = a /\ 0 \notin Frames  BY <1>5, FramesOfMemory
<1>7. Frame(Mapped(a)) = a /\ Mapped(a) \in Nat  BY <1>6, FrameFacts
<1>8. pages'[t] = <<>> /\ \A u \in Threads : u # t => pages'[u] = pages[u]
  BY <1>1 DEF SlotInv, Types, LocalTypes
<1>9. OneLess(pages, index, pages', index', t, 1)
  <2>1. \A i : i \in 1..0 <=> i \in 1..1 /\ i # 1  OBVIOUS
  <2>2. Len(pages'[t]) = 0  BY <1>8
  <2> QED  BY <1>1, <1>2, <1>4, <1>8, <2>1, <2>2 DEF OneLess
<1>10. UseGone(pages, index, pages', index', t, 1)  BY <1>9, HeldLess
<1>11. n \in Nat \ {0} /\ n <= HeapPages /\ Len(heap) \in Nat
  BY <1>2, SizesAssumption
<1>12. k \in 0..TableOf(HeapPages)  BY <1>11, TablesNumbers
<1>13. HeapUses' = HeapUses \cup {new}
  <2> DEFINE m == Mapped(a)
  <2>1. heap' = Append(heap, m) /\ m \in Nat  BY <1>1, <1>3, <1>7
  <2> HIDE DEF m
  <2>2. /\ DOMAIN heap = 1..Len(heap) /\ DOMAIN heap' = 1..n /\ heap'[n] = m
        /\ \A i \in 1..Len(heap) : heap'[i] = heap[i]
    BY <1>2, <2>1
  <2>3. \A i : i \in 1..n <=> i \in 1..Len(heap) \/ i = n  BY <1>11
  <2> HIDE DEF n
  <2>4. Frame(heap'[n]) = a  BY <1>7, <2>2 DEF m
  <2> QED  BY <2>2, <2>3, <2>4 DEF HeapUses
<1>14. StackUses' = StackUses /\ DirectoryUses' = DirectoryUses /\ Frames' = Frames
  BY <1>1, ValuesKept DEF StackUses, DirectoryUses
<1>15. old[1] = "thread" /\ old[3] = a /\ new[3] = a  BY DEF HeldBy
<1>16. old \in Uses /\ old \notin Rest
  BY <1>10, <1>15, UseKinds DEF UseGone
<1> HIDE DEF old, new, a, n
<1>17. Memory(Frames, U, b, word)  BY <1>5, <1>6, <1>15, <1>16, MoveUse
<1>18. Uses' = StackUses' \cup HeapUses' \cup TableUses' \cup DirectoryUses'
              \cup Held(pages', index')
  BY DEF Uses, ThreadUses, Held
<1>19. Held(pages', index') = Held(pages, index) \ {old}  BY <1>10 DEF UseGone, old
<1>20. CASE UNCHANGED <<first_free_page, word, tables>>
  <2>1. TableUses' = TableUses  BY <1>20 DEF TableUses
  <2>2. Uses' = U
    BY <1>13, <1>14, <1>16, <1>18, <1>19, <2>1, UseKinds DEF Rest
  <2> QED  BY <1>14, <1>17, <1>20, <2>2
<1>21. CASE /\ ~Present(tables[k]) /\ tables' = [tables EXCEPT ![k] = Mapped(b)]
            /\ \/ mm_alloc_physical_page(b)
               \/ b = 0 /\ UNCHANGED <<first_free_page, word>>
  <2>1. b \in Nat /\ Frame(b) = b
    <3>1. b \in Frames \cup {0}  BY DEF Memory, FreeList
    <3>2. Frame(0) = 0  BY SmallValues
    <3> QED  BY <3>1, <3>2, FramesOfMemory
  <2>2. Present(Mapped(b)) /\ Frame(Mapped(b)) = b  BY <2>1, FrameFacts
  <2>3. TableUses' = TableUses \cup {tbl}
    <3> DEFINE P == {x \in DOMAIN tables : Present(tables[x])}
               Q == {x \in DOMAIN tables' : Present(tables'[x])}
    <3> HIDE DEF k
    <3>1. /\ tables'[k] = Mapped(b) /\ DOMAIN tables' = DOMAIN tables
          /\ k \in DOMAIN tables
          /\ \A x \in DOMAIN tables : x # k => tables'[x] = tables[x]
      BY <1>2, <1>12, <1>21
    <3>2. Q = P \cup {k} /\ k \notin P  BY <1>21, <2>2, <3>1
    <3>3. \A x \in P : Frame(tables'[x]) = Frame(tables[x])  BY <3>1, <3>2
    <3>4. Frame(tables'[k]) = b  BY <2>2, <3>1
    <3>5. TableUses = {<<"table", x, Frame(tables[x])>> : x \in P}  BY DEF TableUses
    <3>6. TableUses' = {<<"table", x, Frame(tables'[x])>> : x \in Q}  BY DEF TableUses
    <3> HIDE DEF P, Q
    <3> QED  BY <3>2, <3>3, <3>4, <3>5, <3>6
  <2>4. tbl[1] = "table" /\ tbl[3] = b  OBVIOUS
  <2> HIDE DEF k, tbl
  <2>5. Uses' = U \cup {tbl}
    BY <1>13, <1>14, <1>16, <1>18, <1>19, <2>3, UseKinds DEF Rest
  <2>6. CASE mm_alloc_physical_page(b)
    <3>1. /\ b # 0 /\ b' = word[b] /\ \A f \in Frames \ {b} : word'[f] = word[f]
      BY <2>6, AllocWords DEF SlotInv, Types
    <3> HIDE DEF U
    <3>2. Memory(Frames, U \cup {tbl}, word[b], word')
      BY <1>6, <1>17, <2>4, <3>1, AllocUse
    <3> QED  BY <1>14, <2>5, <3>1, <3>2
  <2>7. CASE b = 0 /\ UNCHANGED <<first_free_page, word>>
    <3> HIDE DEF U
    <3>1. Memory(Frames, U \cup {<<"table", k, 0>>}, b, word)
      BY <1>6, <1>17, ZeroUse
    <3> QED  BY <1>14, <2>5, <2>7, <3>1 DEF tbl
  <2> QED  BY <1>21, <2>6, <2>7
<1> QED  BY <1>20, <1>21 DEF GrowMap, NewTable, n, a

\* A list that is linked in the order of the sequence p, from place k on.
LEMMA LinkedSequence ==
  ASSUME NEW p, NEW n \in Nat, NEW k \in 1..(n + 1), NEW nx, NEW S, 0 \notin S,
         \A i, j \in k..n : p[i] = p[j] => i = j,
         \A f : f \in S <=> \E i \in k..n : p[i] = f,
         \A i \in k..n : nx[p[i]] = IF i = n THEN 0 ELSE p[i + 1]
  PROVE  FreeList(IF k <= n THEN p[k] ELSE 0, S, nx)
<1> DEFINE head == IF k <= n THEN p[k] ELSE 0
<1>1. k \in Nat /\ k >= 1  OBVIOUS
<1>2. k <= n => k \in k..n  BY <1>1
<1>3. \A i \in k..n : i # n => i + 1 \in k..n /\ i + 1 # k /\ i + 1 # i  BY <1>1
<1>4. head \in S \cup {0}  BY <1>2
<1>5. ASSUME NEW i \in k..n
      PROVE  nx[p[i]] \in S \cup {0} /\ nx[p[i]] # p[i] /\ (nx[p[i]] # 0 => nx[p[i]] # head)
  <2>1. CASE i = n
    <3>1. nx[p[i]] = 0 /\ p[i] # 0  BY <1>5, <2>1
    <3> QED  BY <3>1
  <2>2. CASE i # n
    <3> DEFINE j == i + 1
    <3>1. j \in k..n /\ j # k /\ j # i /\ nx[p[i]] = p[j]  BY <1>3, <2>2
    <3> HIDE DEF j
    <3>2. k \in k..n /\ k <= n  BY <1>1, <3>1
    <3>3. p[j] # p[i] /\ p[j] # p[k] /\ p[j] \in S  BY <1>5, <3>1, <3>2
    <3> QED  BY <3>1, <3>2, <3>3
  <2> QED  BY <2>1, <2>2
<1>6. ASSUME NEW i \in k..n, NEW j \in k..n, nx[p[i]] = nx[p[j]], nx[p[i]] # 0
      PROVE  i = j
  <2>1. i # n /\ j # n  BY <1>6
  <2>2. p[i + 1] = p[j + 1]  BY <1>6, <2>1
  <2>3. i + 1 = j + 1  BY <1>3, <2>1, <2>2
  <2> QED  BY <1>1, <2>3
<1>7. ASSUME NEW X \in SUBSET S, head # 0 => head \in X,
             \A f \in X : nx[f] # 0 => nx[f] \in X
      PROVE  X = S
  <2> DEFINE Bad == {i \in k..n : p[i] \notin X}
  <2>1. Bad = {}
    <3> SUFFICES ASSUME Bad # {} PROVE FALSE  OBVIOUS
    <3>1. Bad \in SUBSET Nat  BY <1>1
    <3>2. PICK i \in Bad : \A j \in Bad : i <= j  BY <3>1, LeastElement
    <3>3. i \in k..n /\ p[i] \notin X  OBVIOUS
    <3>4. i # k
      <4>1. i = k => k <= n /\ head = p[k] /\ p[k] \in S  BY <1>1, <3>3
      <4> QED  BY <1>7, <3>3, <4>1
    <3> DEFINE j == i - 1
    <3>5. j \in k..n /\ j # n /\ j + 1 = i /\ ~(i <= j)  BY <1>1, <3>3, <3>4
    <3> HIDE DEF j
    <3>6. p[j] \in X  BY <3>2, <3>5
    <3>7. nx[p[j]] = p[i] /\ p[i] \in S  BY <3>3, <3>5
    <3> QED  BY <1>7, <3>3, <3>6, <3>7
  <2> QED  BY <2>1
<1> HIDE DEF head
<1>8. FreeList(head, S, nx)
  <2>1. \A f \in S : nx[f] \in S \cup {0} /\ nx[f] # f /\ (nx[f] # 0 => nx[f] # head)
    BY <1>5
  <2>2. \A f, g \in S : nx[f] = nx[g] /\ nx[f] # 0 => f = g  BY <1>6
  <2> QED  BY <1>4, <1>7, <2>1, <2>2 DEF FreeList
<1> QED  BY <1>8 DEF head

\* The use of the k-th page that the kernel takes.
BootUse(p, k) ==
  IF k < HeapAtBoot THEN <<"stack", <<0, k + 1>>, p[k]>>
  ELSE IF k = HeapAtBoot THEN <<"heap", 1, p[k]>>
  ELSE IF k = DirectoryAtBoot THEN <<"directory", 1, p[k]>>
  ELSE <<"stack", <<1, k - DirectoryAtBoot>>, p[k]>>

KernelUses == {<<"stack", <<0, 1>>, BootStack>>, <<"table", 0, BootTable>>}

LEMMA BootUses ==
  ASSUME Init
  PROVE  LET p == BootPages(mmap) IN
         /\ \A u \in Uses : u \in KernelUses \/ \E k \in 1..TakenAtBoot : u = BootUse(p, k)
         /\ \A k \in 1..TakenAtBoot : BootUse(p, k) \in Uses
<1> DEFINE p == BootPages(mmap)
           M == StackPages
<1>1. mmap \in Maps /\ M \in Nat \ {0} /\ Slots \in Nat /\ Slots >= 2
  BY SizesAssumption DEF Init
<1>2. HeapAtBoot = M /\ DirectoryAtBoot = M + 1 /\ TakenAtBoot = 2 * M + 1
  BY DEF HeapAtBoot, DirectoryAtBoot, TakenAtBoot
<1>3. DirectoryUses = {<<"directory", 1, p[M + 1]>>}  BY <1>2 DEF DirectoryUses
<1>4. HeapUses = {<<"heap", 1, p[M]>>}
  <2> DEFINE a == p[M]
             h == Mapped(a)
  <2>1. a \in Frames  BY <1>1, <1>2, BootTaken DEF Frames
  <2>2. a \in Nat /\ Frame(a) = a  BY <2>1, FramesOfMemory
  <2>3. Frame(h) = a  BY <2>2, FrameFacts
  <2>4. heap = <<h>>  BY <1>2 DEF Init
  <2> HIDE DEF h, a
  <2>5. DOMAIN heap = {1} /\ heap[1] = h  BY <2>4
  <2> QED  BY <2>3, <2>5 DEF HeapUses, a
<1>5. TableUses = {<<"table", 0, BootTable>>}
  <2> DEFINE h == Mapped(BootTable)
             D == 0..TableOf(HeapPages)
  <2>1. Present(h) /\ Frame(h) = BootTable  BY BootKernelPages, FrameFacts
  <2>2. ~Present(0)  BY DEF Present
  <2>3. 0 \in D
    <3>1. 1 \in Nat \ {0} /\ 1 <= HeapPages  BY SizesAssumption
    <3>2. TableOf(HeapPages) \in Nat  BY <3>1, TablesNumbers
    <3> QED  BY <3>2
  <2>4. tables = [i \in D |-> IF i = 0 THEN h ELSE 0]  BY DEF Init
  <2> HIDE DEF h, D
  <2>5. {x \in DOMAIN tables : Present(tables[x])} = {0} /\ tables[0] = h
    BY <2>1, <2>2, <2>3, <2>4
  <2> QED  BY <2>1, <2>5 DEF TableUses
<1>6. ThreadUses = {}
  <2>1. \A t \in Threads : pages[t] = <<>> /\ index[t] = 1  BY DEF Init
  <2>2. \A t \in Threads : index[t]..Len(pages[t]) = {}  BY <2>1
  <2> QED  BY <2>2 DEF ThreadUses
<1>7. \A s \in SlotSet, i \in PageSet : pte[<<s, i>>] = BootEntry(p, <<s, i>>)
  <2> SUFFICES ASSUME NEW s \in SlotSet, NEW i \in PageSet
               PROVE  pte[<<s, i>>] = BootEntry(p, <<s, i>>)
    OBVIOUS
  <2>1. <<s, i>> \in Entries  BY EntryPairs
  <2>2. pte = [e \in Entries |-> BootEntry(p, e)]  BY DEF Init
  <2> QED  BY <2>1, <2>2
<1>8. ASSUME NEW s \in SlotSet, NEW i \in PageSet
      PROVE  LET a == pte[<<s, i>>] IN
             /\ s \in BootSlots => Present(a)
             /\ s \notin BootSlots => ~Present(a)
             /\ s = 0 /\ i = 1 => Frame(a) = BootStack
             /\ s = 0 /\ i > 1 => Frame(a) = p[i - 1]
             /\ s = 1 => Frame(a) = p[DirectoryAtBoot + i]
  <2>1. ~Present(0)  BY DEF Present
  <2> QED  BY <1>1, <1>7, <2>1, BootEntries
<1> HIDE DEF p
<1>9. ASSUME NEW u \in StackUses
      PROVE  \/ u = <<"stack", <<0, 1>>, BootStack>>
             \/ \E k \in 1..TakenAtBoot : u = BootUse(p, k)
  <2>1. PICK e \in Entries : Present(pte[e]) /\ u = <<"stack", e, Frame(pte[e])>>
    BY DEF StackUses
  <2>2. PICK s \in SlotSet, i \in PageSet : e = <<s, i>>
    BY DEF Entries, SlotSet, PageSet
  <2>3. i \in Nat /\ i >= 1 /\ i <= M /\ s \in BootSlots
    BY <1>1, <1>8, <2>1, <2>2 DEF PageSet
  <2>4. CASE s = 0 /\ i = 1  BY <1>8, <2>1, <2>2, <2>4
  <2>5. CASE s = 0 /\ i > 1
    <3> DEFINE k == i - 1
    <3>1. k \in 1..TakenAtBoot /\ k < M /\ k + 1 = i  BY <1>1, <1>2, <2>3, <2>5
    <3>2. u = <<"stack", <<0, i>>, p[k]>>  BY <1>8, <2>1, <2>2, <2>5
    <3> HIDE DEF k
    <3>3. u = BootUse(p, k)  BY <1>2, <3>1, <3>2 DEF BootUse
    <3> QED  BY <3>1, <3>3
  <2>6. CASE s = 1
    <3> DEFINE k == DirectoryAtBoot + i
    <3>1. /\ k \in 1..TakenAtBoot /\ ~(k < M) /\ k # M /\ k # M + 1
          /\ k - DirectoryAtBoot = i
      BY <1>1, <1>2, <2>3
    <3>2. u = <<"stack", <<1, i>>, p[k]>>  BY <1>8, <2>1, <2>2, <2>6
    <3> HIDE DEF k
    <3>3. u = BootUse(p, k)  BY <1>2, <3>1, <3>2 DEF BootUse
    <3> QED  BY <3>1, <3>3
  <2> QED  BY <2>3, <2>4, <2>5, <2>6 DEF BootSlots
<1>10. ASSUME NEW s \in BootSlots, NEW i \in PageSet
       PROVE  <<"stack", <<s, i>>, Frame(pte[<<s, i>>])>> \in StackUses
  <2>1. s \in SlotSet  BY <1>1 DEF BootSlots, SlotSet
  <2>2. <<s, i>> \in Entries /\ Present(pte[<<s, i>>])  BY <1>8, <2>1, EntryPairs
  <2> QED  BY <2>2 DEF StackUses
<1>11. ASSUME NEW k \in 1..TakenAtBoot PROVE BootUse(p, k) \in Uses
  <2>0. 0 \in SlotSet /\ 1 \in SlotSet /\ 0 \in BootSlots /\ 1 \in BootSlots
    BY <1>1 DEF SlotSet, BootSlots
  <2>1. CASE k < M
    <3> DEFINE i == k + 1
    <3>1. i \in PageSet /\ i > 1 /\ i - 1 = k  BY <1>1, <1>2, <2>1 DEF PageSet
    <3>2. BootUse(p, k) = <<"stack", <<0, i>>, p[k]>>  BY <1>2, <2>1 DEF BootUse
    <3> HIDE DEF i
    <3>3. Frame(pte[<<0, i>>]) = p[k]  BY <1>8, <2>0, <3>1
    <3>4. BootUse(p, k) \in StackUses  BY <1>10, <2>0, <3>1, <3>2, <3>3
    <3> QED  BY <3>4 DEF Uses
  <2>2. CASE k = M
    <3>1. BootUse(p, k) = <<"heap", 1, p[k]>>  BY <1>1, <1>2, <2>2 DEF BootUse
    <3> QED  BY <1>4, <2>2, <3>1 DEF Uses
  <2>3. CASE k = M + 1
    <3>1. BootUse(p, k) = <<"directory", 1, p[k]>>  BY <1>1, <1>2, <2>3 DEF BootUse
    <3> QED  BY <1>3, <2>3, <3>1 DEF Uses
  <2>4. CASE k > M + 1
    <3> DEFINE i == k - DirectoryAtBoot
    <3>1. i \in PageSet /\ DirectoryAtBoot + i = k  BY <1>1, <1>2, <2>4 DEF PageSet
    <3>2. BootUse(p, k) = <<"stack", <<1, i>>, p[k]>>
      <4>1. ~(k < M) /\ k # M /\ k # M + 1  BY <1>1, <1>2, <2>4
      <4> QED  BY <1>2, <4>1 DEF BootUse
    <3> HIDE DEF i
    <3>3. Frame(pte[<<1, i>>]) = p[k]  BY <1>8, <2>0, <3>1
    <3>4. BootUse(p, k) \in StackUses  BY <1>10, <2>0, <3>1, <3>2, <3>3
    <3> QED  BY <3>4 DEF Uses
  <2> QED  BY <1>1, <1>2, <2>1, <2>2, <2>3, <2>4
<1>12. ASSUME NEW u \in Uses
       PROVE  u \in KernelUses \/ \E k \in 1..TakenAtBoot : u = BootUse(p, k)
  <2>1. CASE u \in StackUses  BY <1>9, <2>1 DEF KernelUses
  <2>2. CASE u \in HeapUses
    <3>1. M \in 1..TakenAtBoot /\ BootUse(p, M) = <<"heap", 1, p[M]>>
      BY <1>1, <1>2 DEF BootUse
    <3> QED  BY <1>4, <2>2, <3>1
  <2>3. CASE u \in TableUses  BY <1>5, <2>3 DEF KernelUses
  <2>4. CASE u \in DirectoryUses
    <3> DEFINE k == M + 1
    <3>1. k \in 1..TakenAtBoot /\ BootUse(p, k) = <<"directory", 1, p[k]>>
      BY <1>1, <1>2 DEF BootUse
    <3> HIDE DEF k
    <3> QED  BY <1>3, <2>4, <3>1 DEF k
  <2> QED  BY <1>6, <2>1, <2>2, <2>3, <2>4 DEF Uses
<1> QED  BY <1>11, <1>12 DEF p

LEMMA InitMemory ==
  ASSUME Init
  PROVE  Memory(Frames, Uses, first_free_page, word)
<1> DEFINE p == BootPages(mmap)
           n == Len(BootPages(mmap))
           N == TakenAtBoot
           k == N + 1
           S == Frames \ Used(Uses)
<1>1. mmap \in Maps  BY DEF Init
<1>2. /\ n \in Nat /\ n >= N /\ N \in Nat /\ Lists(p, Frames)
      /\ \A i \in 1..n : p[i] \in Frames
  BY <1>1, BootTaken, BootPagesExact, SizesAssumption DEF Frames, TakenAtBoot
<1>3. /\ \A u \in Uses : u \in KernelUses \/ \E j \in 1..N : u = BootUse(p, j)
      /\ \A j \in 1..N : BootUse(p, j) \in Uses
  BY BootUses
<1>4. \A i, j \in 1..n : p[i] = p[j] => i = j  BY <1>2 DEF Lists
<1>5. \A f \in Frames : \E i \in 1..n : p[i] = f  BY <1>2 DEF Lists
<1>6. \A f \in Frames : word[f] = Marked(p, f)  BY DEF Init
<1>7. first_free_page = IF n > N THEN p[k] ELSE 0  BY DEF Init
<1>8. \A f \in Frames : \/ \E i \in k..(n - 1) : p[i] = f /\ word[f] = p[i + 1]
                        \/ word[f] = 0 /\ \A i \in k..(n - 1) : p[i] # f
  BY <1>1, <1>6, MarkedLinks
<1>9. \A j \in 1..N : BootUse(p, j)[3] = p[j] /\ BootUse(p, j)[1] \in {"stack", "heap", "directory"}
  BY DEF BootUse
<1>10. /\ 0 \notin Frames
       /\ \A f \in Frames : f # BootStack /\ f # BootTable
  <2>1. \A f \in Frames : f \in Nat /\ f > 0 /\ f >= KernelEnd  BY FramesOfMemory
  <2>2. KernelEnd \in Nat  BY SizesAssumption
  <2> QED  BY <2>1, <2>2, BootKernelPages
<1>11. \A u \in KernelUses : u[3] \in {BootStack, BootTable} /\ u[1] \in {"stack", "table"}
  BY DEF KernelUses
<1>12. \A u, v \in KernelUses : u[3] = v[3] => u = v
  BY BootKernelPages DEF KernelUses
<1>13. \A j \in 1..N : j \in 1..n  BY <1>2
<1> HIDE DEF p, n, N
<1>14. Exclusive(Uses)
  <2> SUFFICES ASSUME NEW u \in Uses, NEW v \in Uses, u[3] = v[3] PROVE u = v
    BY DEF Exclusive
  <2>1. \A x \in Uses : \/ x \in KernelUses /\ x[3] \notin Frames
                        \/ \E j \in 1..N : x = BootUse(p, j) /\ x[3] = p[j] /\ x[3] \in Frames
    BY <1>2, <1>3, <1>9, <1>10, <1>11, <1>13
  <2>2. CASE u[3] \in Frames
    <3>1. PICK i \in 1..N : u = BootUse(p, i) /\ u[3] = p[i]  BY <2>1, <2>2
    <3>2. PICK j \in 1..N : v = BootUse(p, j) /\ v[3] = p[j]  BY <2>1, <2>2
    <3>3. i = j  BY <1>4, <1>13, <3>1, <3>2
    <3> QED  BY <3>1, <3>2, <3>3
  <2>3. CASE u[3] \notin Frames  BY <1>12, <2>1, <2>3
  <2> QED  BY <2>2, <2>3
<1>15. InMemory(Frames, Uses)
  BY <1>2, <1>3, <1>9, <1>11, <1>13 DEF InMemory
<1>16. \A f : f \in S <=> \E i \in k..n : p[i] = f
  <2>1. \A f \in Frames : f \in Used(Uses) <=> \E j \in 1..N : p[j] = f
    <3>1. \A f : f \in Used(Uses) <=> \E u \in Uses : u[3] = f  BY DEF Used
    <3>2. ASSUME NEW f \in Frames, NEW u \in Uses, u[3] = f PROVE \E j \in 1..N : p[j] = f
      BY <1>3, <1>9, <1>10, <1>11, <3>2
    <3>3. ASSUME NEW j \in 1..N PROVE \E u \in Uses : u[3] = p[j]
      BY <1>3, <1>9
    <3> QED  BY <3>1, <3>2, <3>3
  <2>2. \A i : i \in 1..n <=> i \in 1..N \/ i \in k..n  BY <1>2
  <2>3. \A i : ~(i \in 1..N /\ i \in k..n)  BY <1>2
  <2>4. ASSUME NEW f, f \in S PROVE \E i \in k..n : p[i] = f
    <3>1. f \in Frames /\ ~\E j \in 1..N : p[j] = f  BY <2>1, <2>4
    <3> QED  BY <1>5, <2>2, <3>1
  <2>5. ASSUME NEW i \in k..n PROVE p[i] \in S
    <3>1. i \in 1..n /\ p[i] \in Frames  BY <1>2, <2>2
    <3>2. \A j \in 1..N : p[j] # p[i]  BY <1>4, <1>13, <2>3, <3>1
    <3> QED  BY <2>1, <3>1, <3>2
  <2> HIDE DEF S, k
  <2> QED  BY <2>4, <2>5
<1>17. FreeList(first_free_page, S, word)
  <2>1. \A i \in k..n : word[p[i]] = IF i = n THEN 0 ELSE p[i + 1]
    <3> SUFFICES ASSUME NEW i \in k..n
                 PROVE  word[p[i]] = IF i = n THEN 0 ELSE p[i + 1]
      OBVIOUS
    <3>1. i \in 1..n /\ (i # n => i \in k..(n - 1))  BY <1>2
    <3>2. \A j \in k..(n - 1) : j \in 1..n /\ j # n  BY <1>2
    <3>3. p[i] \in Frames /\ \A j \in k..(n - 1) : p[j] = p[i] => j = i
      BY <1>2, <1>4, <3>1, <3>2
    <3>4. CASE i = n
      <4>1. \A j \in k..(n - 1) : p[j] # p[i]  BY <3>2, <3>3, <3>4
      <4>2. word[p[i]] = 0  BY <1>8, <3>3, <4>1
      <4> QED  BY <3>4, <4>2
    <3>5. CASE i # n
      <4>1. PICK j \in k..(n - 1) : p[j] = p[i] /\ word[p[i]] = p[j + 1]
        BY <1>8, <3>1, <3>3, <3>5
      <4>2. j = i  BY <3>3, <4>1
      <4> QED  BY <3>5, <4>1, <4>2
    <3> QED  BY <3>4, <3>5
  <2>2. \A i, j \in k..n : p[i] = p[j] => i = j
    <3>1. \A i \in k..n : i \in 1..n  BY <1>2
    <3> QED  BY <1>4, <3>1
  <2>3. k \in 1..(n + 1) /\ (n > N <=> k <= n)  BY <1>2
  <2>4. 0 \notin S  BY <1>10
  <2>5. first_free_page = IF k <= n THEN p[k] ELSE 0  BY <1>7, <2>3
  <2> HIDE DEF S, k
  <2>6. FreeList(IF k <= n THEN p[k] ELSE 0, S, word)
    BY <1>2, <1>16, <2>1, <2>2, <2>3, <2>4, LinkedSequence
  <2> QED  BY <2>5, <2>6
<1> QED  BY <1>14, <1>15, <1>17 DEF Memory

LEMMA MemoryStep ==
  ASSUME SlotInv, MemoryInv, [Next]_vars
  PROVE  MemoryInv'
<1> SUFFICES ASSUME exited' = {} PROVE Memory(Frames', Uses', first_free_page', word')
  BY DEF MemoryInv
<1>1. exited = {}
  BY DEF Next, mm_alloc_stack, malloc, Call, AllocPage, FindSlot, MapPage, Done, Undo,
         GrowAlloc, GrowMap, GrowFails, FreeStack, UnmapPage, ClearBit, vars
<1>2. Memory(Frames, Uses, first_free_page, word)  BY <1>1 DEF MemoryInv
<1>3. reap = NoReap  BY <1>1 DEF SlotInv, Types, SlotTypes
<1>4. ASSUME NEW t \in Threads, mm_alloc_stack(t)
      PROVE  Memory(Frames', Uses', first_free_page', word')
  <2>1. CASE Call(t)  BY <1>2, <2>1, CallMemory
  <2>2. CASE AllocPage(t)  BY <1>2, <2>2, AllocPageMemory
  <2>3. CASE FindSlot(t)  BY <1>2, <2>3, FindSlotMemory
  <2>4. CASE MapPage(t)  BY <1>2, <2>4, MapPageMemory
  <2>5. CASE Done(t)  BY <1>2, <2>5, DoneMemory
  <2>6. CASE Undo(t)  BY <1>1, <1>2, <2>6, UndoMemory
  <2> QED  BY <1>4, <2>1, <2>2, <2>3, <2>4, <2>5, <2>6 DEF mm_alloc_stack
<1>5. ASSUME NEW t \in Threads, malloc(t)
      PROVE  Memory(Frames', Uses', first_free_page', word')
  <2>1. CASE GrowAlloc(t)  BY <1>2, <2>1, GrowAllocMemory
  <2>2. CASE GrowMap(t)  BY <1>2, <2>2, GrowMapMemory
  <2>3. CASE GrowFails(t)  BY <1>2, <2>3, GrowFailsMemory
  <2> QED  BY <1>5, <2>1, <2>2, <2>3 DEF malloc
<1>6. ~FreeStack
  <2> SUFFICES ASSUME FreeStack PROVE FALSE  OBVIOUS
  <2>1. PICK s : exited' = exited \cup {s}  BY DEF FreeStack
  <2> QED  BY <2>1
<1>7. ~UnmapPage /\ ~ClearBit  BY <1>3 DEF UnmapPage, ClearBit
<1>8. CASE UNCHANGED vars
  <2>1. UNCHANGED <<pte, heap, tables, mmap, first_free_page, word, pages, index>>
    BY <1>8 DEF vars, heap_pages, locals
  <2> QED  BY <1>2, <2>1, MemoryKept
<1> QED  BY <1>4, <1>5, <1>6, <1>7, <1>8 DEF Next

(* As long as no stack was freed, the free list and the uses of the frames *)
(* are as Memory says, for every memory map and every interleaving.        *)
THEOREM MemoryInvariant == Spec => []MemoryInv
<1>1. Init => MemoryInv  BY InitMemory DEF MemoryInv
<1>2. SlotInv /\ MemoryInv /\ [Next]_vars => MemoryInv'  BY MemoryStep
<1> QED  BY <1>1, <1>2, SlotInvariant, PTL DEF Spec

(* mm_alloc_physical_page and mm_free_physical_page keep a list of exactly *)
(* the pages nobody has, until mm_free_stack frees the first stack.        *)
THEOREM FreeListCorrect == Spec => []FreeListExactUntilExit
<1>1. MemoryInv => FreeListExactUntilExit
  <2> SUFFICES ASSUME MemoryInv, exited = {} PROVE FreeListExact
    BY DEF FreeListExactUntilExit
  <2>1. FreeFrames = Frames \ Used(Uses)  BY DEF FreeFrames, Used
  <2>2. FreeList(first_free_page, FreeFrames, word)  BY <2>1 DEF MemoryInv, Memory
  <2>3. 0 \notin FreeFrames  BY <2>1, FramesOfMemory
  <2>4. \A f \in FreeFrames : word[f] \in (FreeFrames \ {first_free_page}) \cup {0}
    BY <2>2 DEF FreeList
  <2> QED  BY <2>2, <2>4 DEF FreeList, FreeListExact
<1> QED  BY <1>1, MemoryInvariant, PTL

(* Until then no page of a stack, of the heap, no page table and no page   *)
(* directory is another one too, whatever mm_map_page makes of a lack of   *)
(* memory.                                                                 *)
THEOREM FramesCorrect == Spec => []FramesExclusive
<1>1. MemoryInv => FramesExclusive
  BY DEF MemoryInv, Memory, Exclusive, InMemory, FramesExclusive
<1> QED  BY <1>1, MemoryInvariant, PTL

=============================================================================
