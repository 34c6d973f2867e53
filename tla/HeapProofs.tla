----------------------------- MODULE HeapProofs -----------------------------
(***************************************************************************)
(* Proofs about Heap, for every size of a page, of a marker and of a word, *)
(* every amount of memory and every request.                               *)
(***************************************************************************)
EXTENDS Heap, Lemmas

-----------------------------------------------------------------------------
(* The inductive invariant.  S are the addresses of chunks, sz their sizes *)
(* and fr whether they are free; e is the end of the heap.                 *)

After(sz, p) == p + sz[p] + Overhead

(* The chunks cover the heap without gap or overlap.                       *)
Tiles(S, sz, e) ==
  /\ S \subseteq Nat /\ e \in Nat
  /\ e > 0 => 0 \in S
  /\ \A p \in S : sz[p] \in Nat /\ After(sz, p) \in S \cup {e} /\ p < e
  /\ \A p, q \in S : q > p => q >= After(sz, p)
  /\ \A x \in S \cup {e} : x > 0 => \E y \in S : After(sz, y) = x

(* No two free chunks side by side, unless b is the second one: in the     *)
(* middle of free, b is the chunk that is merged next.                     *)
Apart(S, sz, fr, b) ==
  \A p \in S : After(sz, p) \in S \ {b} => ~(fr[p] /\ fr[After(sz, p)])

Cells == StartMarkers \cup EndMarkers \cup {Junk}

(* Every start marker in memory is that of a chunk: there are no stale     *)
(* ones.                                                                   *)
Starts(m) == {a \in Addresses : m[a] \in StartMarkers}
Sizes(m) == [p \in Starts(m) |-> m[p].size]
Frees(m) == [p \in Starts(m) |-> m[p].free]

Ends(m) == \A p \in Starts(m) : m[p + start_size + m[p].size] = End(m[p].size)

Laid(m, e) ==
  /\ m \in [Addresses -> Cells]
  /\ e \in 0..Limit
  /\ Tiles(Starts(m), Sizes(m), e)
  /\ Ends(m)

NoTwoFree(m, b) == Apart(Starts(m), Sizes(m), Frees(m), b)

Used(m) == {p \in Starts(m) : ~m[p].free}

Handed(m, ow) ==
  /\ DOMAIN ow = {p + start_size : p \in Used(m)}
  /\ \A a \in DOMAIN ow : Wraps(ow[a]) \/ m[a - start_size].size >= ow[a]

Inv ==
  /\ Laid(mem, heap_end)
  /\ NoTwoFree(mem, -1)
  /\ Handed(mem, owned)
  /\ moving \subseteq DOMAIN owned
  /\ panicked \in {"no", "memory"}

-----------------------------------------------------------------------------
(* Sizes.                                                                  *)

\* aligned_size counts in words.
LEMMA AlignedType ==
  ASSUME NEW n \in Nat
  PROVE  aligned_size(n) \in 0..(Word - 1)
<1> DEFINE pad == IF n % MaxAlign # 0 THEN MaxAlign - (n % MaxAlign) ELSE 0
<1>1. MaxAlign \in Nat \ {0} /\ Word \in Nat \ {0}  BY SizesAssumption
<1>2. n % MaxAlign \in 0..(MaxAlign - 1)  BY <1>1
<1>3. pad \in Nat  BY <1>1, <1>2
<1>4. aligned_size(n) = (n + pad) % Word  BY DEF aligned_size
<1> HIDE DEF pad
<1> QED  BY <1>1, <1>3, <1>4

\* Markers take room: a chunk is never empty.
LEMMA OverheadFacts ==
  /\ start_size \in Nat \ {0} /\ end_size = start_size
  /\ Overhead = start_size + start_size /\ Overhead \in Nat \ {0}
<1> DEFINE pad == IF MarkerSize % MaxAlign # 0
                    THEN MaxAlign - (MarkerSize % MaxAlign) ELSE 0
<1>1. MaxAlign \in Nat \ {0} /\ Word \in Nat /\ MarkerSize \in Nat \ {0}
      /\ MarkerSize + MaxAlign <= Word
  BY SizesAssumption
<1>2. MarkerSize % MaxAlign \in 0..(MaxAlign - 1)  BY <1>1
<1>3. pad \in 0..(MaxAlign - 1)  BY <1>1, <1>2
<1>4. aligned_size(MarkerSize) = (MarkerSize + pad) % Word  BY DEF aligned_size
<1> HIDE DEF pad
<1>5. MarkerSize + pad \in 0..(Word - 1) /\ Word \in Nat \ {0}  BY <1>1, <1>3
<1>6. (MarkerSize + pad) % Word = MarkerSize + pad  BY <1>5
<1>7. aligned_size(MarkerSize) \in Nat \ {0}  BY <1>1, <1>3, <1>4, <1>6
<1> QED  BY <1>7 DEF start_size, end_size, Overhead

LEMMA LimitFacts ==
  /\ Limit \in Nat /\ Page \in Nat \ {0}
  /\ \A a : a \in Addresses <=> a \in Nat /\ a < Limit
<1>1. Limit \in Nat /\ Page \in Nat \ {0}  BY SizesAssumption DEF Limit
<1> QED  BY <1>1 DEF Addresses

-----------------------------------------------------------------------------
(* Chunks as intervals.                                                    *)

\* No chunk reaches behind a place where another one starts or the heap ends.
LEMMA TilesOrder ==
  ASSUME NEW S, NEW sz, NEW e, Tiles(S, sz, e), NEW p \in S,
         NEW x \in S \cup {e}, x > p
  PROVE  After(sz, p) <= x
<1>1. /\ S \subseteq Nat /\ e \in Nat /\ p \in Nat /\ x \in Nat
      /\ \A q \in S : q < e
      /\ sz[p] \in Nat /\ After(sz, p) \in S \cup {e}
      /\ x \in S => x >= After(sz, p)
  BY DEF Tiles
<1>2. CASE After(sz, p) = e  BY <1>1, <1>2
<1>3. CASE After(sz, p) \in S
  <2>1. After(sz, p) \in Nat /\ After(sz, p) < e  BY <1>1, <1>3
  <2> QED  BY <1>1, <2>1
<1> QED  BY <1>1, <1>2, <1>3

\* The chunks from p to q become one; it may reach behind the end of the heap.
Joins(S, sz, e, p, n, S2, sz2, e2) ==
  /\ S2 = {x \in S : x < p \/ x >= p + n + Overhead} \cup {p}
  /\ sz2[p] = n
  /\ \A x \in S2 : x # p => sz2[x] = sz[x]
  /\ n \in Nat /\ p \in S \cup {e}
  /\ \/ e2 = p + n + Overhead /\ e2 >= e
     \/ e2 = e /\ p + n + Overhead \in S

LEMMA JoinTiles ==
  ASSUME NEW S, NEW sz, NEW e, Tiles(S, sz, e), NEW p, NEW n, NEW S2, NEW sz2,
         NEW e2, Joins(S, sz, e, p, n, S2, sz2, e2)
  PROVE  Tiles(S2, sz2, e2)
<1> DEFINE q == p + n + Overhead
           O == Overhead
<1>1. O \in Nat \ {0}  BY OverheadFacts
<1>2. /\ S \subseteq Nat /\ e \in Nat
      /\ e > 0 => 0 \in S
      /\ \A x \in S : sz[x] \in Nat /\ x + sz[x] + O \in S \cup {e} /\ x < e
      /\ \A x, y \in S : y > x => y >= x + sz[x] + O
      /\ \A x \in S \cup {e} : x > 0 => \E y \in S : y + sz[y] + O = x
  BY DEF Tiles, After
<1>3. /\ S2 = {x \in S : x < p \/ x >= q} \cup {p}
      /\ sz2[p] = n /\ n \in Nat /\ p \in S \cup {e}
      /\ \A x \in S2 : x # p => sz2[x] = sz[x]
      /\ (e2 = q /\ e2 >= e) \/ (e2 = e /\ q \in S)
      /\ q = p + n + O
  BY DEF Joins
<1> HIDE DEF q, O
<1>4. p \in Nat /\ q \in Nat /\ q > p /\ e2 \in Nat /\ e2 >= e /\ q <= e2
  BY <1>1, <1>2, <1>3
<1>5. S2 \subseteq Nat  BY <1>2, <1>3, <1>4
<1>6. 0 \in S2
  <2>1. CASE p = 0  BY <2>1, <1>3
  <2>2. CASE p # 0
    <3>1. e > 0  BY <1>2, <1>3, <1>4, <2>2
    <3> QED  BY <1>2, <1>3, <1>4, <2>2, <3>1
  <2> QED  BY <2>1, <2>2
<1>7. q \in S2 \cup {e2}  BY <1>2, <1>3, <1>4
<1>8. ASSUME NEW x \in S2, x # p, x < p
      PROVE  x \in S /\ sz2[x] = sz[x] /\ x + sz2[x] + O <= p /\ x + sz2[x] + O \in S2
  <2>1. x \in S /\ sz2[x] = sz[x]  BY <1>3, <1>8
  <2>2. sz[x] \in Nat /\ x \in Nat /\ x + sz[x] + O \in S \cup {e}  BY <1>2, <2>1
  <2>3. x + sz[x] + O <= p
    <3>1. CASE p \in S  BY <1>2, <2>1, <1>8, <3>1
    <3>2. CASE p = e
      <4>1. x + sz[x] + O \in S => x + sz[x] + O < e  BY <1>2
      <4> QED  BY <2>2, <3>2, <4>1, <1>2, <1>1
    <3> QED  BY <1>3, <3>1, <3>2
  <2>4. x + sz[x] + O \in S2
    <3>1. CASE x + sz[x] + O \in S  BY <1>1, <1>3, <1>4, <2>2, <2>3, <3>1
    <3>2. CASE x + sz[x] + O = e
      <4>1. p \in S => p < e  BY <1>2
      <4>2. p = e  BY <1>2, <1>3, <1>4, <2>3, <3>2, <4>1
      <4> QED  BY <1>3, <3>2, <4>2
    <3> QED  BY <2>2, <3>1, <3>2
  <2> QED  BY <2>1, <2>3, <2>4
<1>9. ASSUME NEW x \in S2, x > p
      PROVE  /\ x \in S /\ sz2[x] = sz[x] /\ x >= q /\ e2 = e
             /\ x + sz2[x] + O \in S2 \cup {e2} /\ x < e2
  <2>1. x \in S /\ sz2[x] = sz[x] /\ x >= q  BY <1>3, <1>4, <1>9
  <2>2. sz[x] \in Nat /\ x \in Nat /\ x + sz[x] + O \in S \cup {e} /\ x < e  BY <1>2, <2>1
  <2>3. e2 = e  BY <1>2, <1>3, <1>4, <2>1, <2>2
  <2>4. x + sz[x] + O > q  BY <1>1, <1>4, <2>1, <2>2
  <2>5. x + sz[x] + O \in S => x + sz[x] + O \in S2
    BY <1>1, <1>3, <1>4, <2>2, <2>4
  <2> QED  BY <2>1, <2>2, <2>3, <2>5
<1>10. ASSUME NEW x \in S2
       PROVE  sz2[x] \in Nat /\ x + sz2[x] + O \in S2 \cup {e2} /\ x < e2
  <2>1. CASE x = p  BY <2>1, <1>3, <1>4, <1>7
  <2>2. CASE x < p
    <3>1. sz2[x] = sz[x] /\ x \in S /\ x + sz2[x] + O \in S2  BY <1>8, <2>2, <1>4
    <3> QED  BY <1>2, <1>4, <3>1, <2>2
  <2>3. CASE x > p  BY <1>2, <1>9, <2>3
  <2> QED  BY <1>4, <1>5, <2>1, <2>2, <2>3
<1>11. ASSUME NEW x \in S2, NEW y \in S2, y > x PROVE y >= x + sz2[x] + O
  <2>0. x \in Nat /\ y \in Nat  BY <1>5
  <2>1. CASE x = p
    <3>1. y >= q  BY <1>9, <1>11, <2>1
    <3> QED  BY <1>3, <2>1, <3>1
  <2>2. CASE x < p
    <3>1. x \in S /\ sz2[x] = sz[x] /\ x + sz2[x] + O <= p  BY <1>4, <1>8, <2>0, <2>2
    <3>2. y \in S => y >= x + sz[x] + O  BY <1>2, <1>11, <3>1
    <3>3. y = p \/ y \in S  BY <1>3
    <3>4. CASE y = p  BY <3>1, <3>4
    <3>5. CASE y \in S  BY <3>1, <3>2, <3>5
    <3> QED  BY <3>3, <3>4, <3>5
  <2>3. CASE x > p
    <3>1. x \in S /\ sz2[x] = sz[x]  BY <1>9, <2>3
    <3>2. y \in S  BY <1>4, <1>9, <1>11, <2>0, <2>3
    <3> QED  BY <1>2, <1>11, <3>1, <3>2
  <2> QED  BY <1>4, <2>0, <2>1, <2>2, <2>3
<1>12. ASSUME NEW x \in S2 \cup {e2}, x > 0 PROVE \E y \in S2 : y + sz2[y] + O = x
  <2>0. x \in Nat  BY <1>4, <1>5
  <2>1. CASE x = q  BY <1>3, <2>1
  <2>2. CASE x # q /\ x <= p
    <3>1. x \in S \cup {e}
      <4>1. x = e2 => FALSE  BY <1>4, <2>2
      <4> QED  BY <1>3, <4>1
    <3>2. PICK y \in S : y + sz[y] + O = x  BY <1>2, <1>12, <3>1
    <3>3. y < p /\ y \in Nat  BY <1>1, <1>2, <1>4, <2>0, <2>2, <3>2
    <3>4. y \in S2 /\ y # p  BY <1>3, <1>4, <3>3
    <3>5. sz2[y] = sz[y]  BY <1>3, <3>4
    <3> QED  BY <3>2, <3>4, <3>5
  <2>3. CASE x # q /\ x > p
    <3>1. x \in S \cup {e} /\ x > q /\ q \in S
      <4>1. CASE x = e2  BY <1>3, <1>4, <2>3, <4>1
      <4>2. CASE x \in S2
        <5>1. x >= q /\ x \in S /\ e2 = e /\ x < e2  BY <1>9, <2>3, <4>2
        <5> QED  BY <1>3, <1>4, <5>1, <2>0, <2>3
      <4> QED  BY <4>1, <4>2
    <3>2. PICK y \in S : y + sz[y] + O = x  BY <1>2, <1>12, <3>1
    <3>3. y \in Nat /\ sz[y] \in Nat  BY <1>2
    <3>4. y >= q
      <4>1. q > y => q >= y + sz[y] + O  BY <1>2, <3>1
      <4> QED  BY <1>4, <2>0, <3>1, <3>2, <3>3, <4>1
    <3>5. y \in S2 /\ y # p  BY <1>3, <1>4, <3>3, <3>4
    <3>6. sz2[y] = sz[y]  BY <1>3, <3>5
    <3> QED  BY <3>2, <3>5, <3>6
  <2> QED  BY <1>4, <2>0, <2>1, <2>2, <2>3
<1> QED  BY <1>4, <1>5, <1>6, <1>10, <1>11, <1>12 DEF Tiles, After, O

\* A chunk becomes two.
Parts(S, sz, p, n, r, S2, sz2) ==
  /\ p \in S /\ n \in Nat /\ r \in Nat
  /\ sz[p] = n + Overhead + r
  /\ S2 = S \cup {p + n + Overhead}
  /\ sz2[p] = n /\ sz2[p + n + Overhead] = r
  /\ \A x \in S : x # p => sz2[x] = sz[x]

LEMMA PartTiles ==
  ASSUME NEW S, NEW sz, NEW e, Tiles(S, sz, e), NEW p, NEW n, NEW r, NEW S2,
         NEW sz2, Parts(S, sz, p, n, r, S2, sz2)
  PROVE  Tiles(S2, sz2, e)
<1> DEFINE c == p + n + Overhead
           O == Overhead
           q == p + sz[p] + O
<1>1. O \in Nat \ {0}  BY OverheadFacts
<1>2. /\ S \subseteq Nat /\ e \in Nat
      /\ e > 0 => 0 \in S
      /\ \A x \in S : sz[x] \in Nat /\ x + sz[x] + O \in S \cup {e} /\ x < e
      /\ \A x, y \in S : y > x => y >= x + sz[x] + O
      /\ \A x \in S \cup {e} : x > 0 => \E y \in S : y + sz[y] + O = x
  BY DEF Tiles, After
<1>3. /\ p \in S /\ n \in Nat /\ r \in Nat /\ sz[p] = n + O + r
      /\ S2 = S \cup {c}
      /\ sz2[p] = n /\ sz2[c] = r
      /\ \A x \in S : x # p => sz2[x] = sz[x]
      /\ c = p + n + O /\ q = p + sz[p] + O
  BY DEF Parts
<1> HIDE DEF c, O, q
<1>4. /\ p \in Nat /\ c \in Nat /\ q \in Nat /\ c > p /\ q > c /\ c + r + O = q
      /\ q \in S \cup {e} /\ q <= e
  BY <1>1, <1>2, <1>3
<1>5. c \notin S  BY <1>2, <1>3, <1>4
<1>6. ASSUME NEW x \in S2
      PROVE  sz2[x] \in Nat /\ x + sz2[x] + O \in S2 \cup {e} /\ x < e
  <2>1. CASE x = p  BY <1>2, <1>3, <2>1
  <2>2. CASE x = c  BY <1>3, <1>4, <1>2, <2>2
  <2>3. CASE x \in S /\ x # p
    <3>1. sz2[x] = sz[x]  BY <1>3, <2>3
    <3> QED  BY <1>2, <1>3, <2>3, <3>1
  <2> QED  BY <1>3, <2>1, <2>2, <2>3
<1>7. ASSUME NEW x \in S2, NEW y \in S2, y > x PROVE y >= x + sz2[x] + O
  <2>1. CASE x = p
    <3>1. x + sz2[x] + O = c  BY <1>3, <2>1
    <3>2. y \in S => y >= q  BY <1>2, <1>3, <1>7, <2>1
    <3>3. y = c \/ y \in S  BY <1>3
    <3>4. y \in Nat  BY <1>2, <1>4, <3>3
    <3> QED  BY <1>4, <3>1, <3>2, <3>3, <3>4
  <2>2. CASE x = c
    <3>1. x + sz2[x] + O = q  BY <1>3, <1>4, <2>2
    <3>2. y \in S /\ y > p  BY <1>2, <1>3, <1>4, <1>7, <2>2
    <3> QED  BY <1>2, <1>3, <3>1, <3>2
  <2>3. CASE x \in S /\ x # p
    <3>1. sz2[x] = sz[x] /\ x \in Nat /\ sz[x] \in Nat  BY <1>2, <1>3, <2>3
    <3>2. CASE y \in S  BY <1>2, <1>7, <2>3, <3>1, <3>2
    <3>3. CASE y = c
      <4>1. x < p
        <5>1. x > p => x >= q  BY <1>2, <1>3, <2>3
        <5> QED  BY <1>4, <1>7, <2>3, <3>1, <3>3, <5>1
      <4>2. p >= x + sz[x] + O  BY <1>2, <1>3, <2>3, <4>1
      <4> QED  BY <1>1, <1>4, <3>1, <3>3, <4>2
    <3> QED  BY <1>3, <3>2, <3>3
  <2> QED  BY <1>3, <2>1, <2>2, <2>3
<1>8. ASSUME NEW x \in S2 \cup {e}, x > 0 PROVE \E y \in S2 : y + sz2[y] + O = x
  <2>1. CASE x = c
    <3>1. p \in S2 /\ p + sz2[p] + O = c  BY <1>3
    <3> QED  BY <2>1, <3>1
  <2>2. CASE x \in S \cup {e}
    <3>1. PICK y \in S : y + sz[y] + O = x  BY <1>2, <1>8, <2>2
    <3>2. CASE y = p
      <4>1. x = q /\ c \in S2 /\ c + sz2[c] + O = q  BY <1>3, <1>4, <3>1, <3>2
      <4> QED  BY <4>1
    <3>3. CASE y # p
      <4>1. y \in S2 /\ sz2[y] = sz[y]  BY <1>3, <3>3
      <4> QED  BY <3>1, <4>1
    <3> QED  BY <3>2, <3>3
  <2> QED  BY <1>3, <2>1, <2>2
<1>9. S2 \subseteq Nat /\ (e > 0 => 0 \in S2)  BY <1>2, <1>3, <1>4
<1> QED  BY <1>2, <1>6, <1>7, <1>8, <1>9 DEF Tiles, After, O

(* What joining chunks up to q into the one at p does to the free ones.  b *)
(* is gone, or is p.                                                       *)
Joinable(S, fr, p, q, b, S2, fr2) ==
  /\ b \notin S2 \/ b = p
  /\ \A x \in S2 : x # p => fr2[x] = fr[x]
  /\ fr2[p] => (q \in S => ~fr[q])

LEMMA JoinApart ==
  ASSUME NEW S, NEW sz, NEW e, Tiles(S, sz, e), NEW p, NEW n, NEW S2, NEW sz2,
         NEW e2, Joins(S, sz, e, p, n, S2, sz2, e2),
         NEW fr, NEW fr2, NEW b, Apart(S, sz, fr, b),
         Joinable(S, fr, p, p + n + Overhead, b, S2, fr2)
  PROVE  Apart(S2, sz2, fr2, p)
<1> SUFFICES ASSUME NEW x \in S2, After(sz2, x) \in S2 \ {p}
             PROVE  ~(fr2[x] /\ fr2[After(sz2, x)])
  BY DEF Apart
<1>1. /\ S2 = {y \in S : y < p \/ y >= p + n + Overhead} \cup {p}
      /\ sz2[p] = n
      /\ \A y \in S2 : y # p => sz2[y] = sz[y]
  BY DEF Joins
<1>0. /\ b \notin S2 \/ b = p
      /\ \A y \in S2 : y # p => fr2[y] = fr[y]
      /\ fr2[p] => (p + n + Overhead \in S => ~fr[p + n + Overhead])
  BY DEF Joinable
<1>2. After(sz2, x) \in S /\ fr2[After(sz2, x)] = fr[After(sz2, x)]  BY <1>0, <1>1
<1>3. CASE x = p
  <2>1. After(sz2, x) = p + n + Overhead  BY <1>1, <1>3 DEF After
  <2> QED  BY <1>0, <1>2, <1>3, <2>1
<1>4. CASE x # p
  <2>1. x \in S /\ After(sz2, x) = After(sz, x) /\ fr2[x] = fr[x]
    BY <1>0, <1>1, <1>4 DEF After
  <2>2. After(sz, x) \in S \ {b}  BY <1>0, <1>2, <2>1
  <2>3. ~(fr[x] /\ fr[After(sz, x)])  BY <2>1, <2>2 DEF Apart
  <2> QED  BY <1>2, <2>1, <2>3
<1> QED  BY <1>3, <1>4

\* The first part of a chunk is handed out, the second one is free.
LEMMA PartApart ==
  ASSUME NEW S, NEW sz, NEW e, Tiles(S, sz, e), NEW p, NEW n, NEW r, NEW S2,
         NEW sz2, Parts(S, sz, p, n, r, S2, sz2),
         NEW fr, NEW fr2, Apart(S, sz, fr, p), ~fr2[p],
         \A x \in S : x # p => fr2[x] = fr[x],
         After(sz, p) \in S => ~fr[After(sz, p)]
  PROVE  Apart(S2, sz2, fr2, -1)
<1> DEFINE c == p + n + Overhead
<1> SUFFICES ASSUME NEW x \in S2, After(sz2, x) \in S2
             PROVE  ~(fr2[x] /\ fr2[After(sz2, x)])
  BY DEF Apart
<1>1. /\ p \in S /\ n \in Nat /\ r \in Nat /\ sz[p] = n + Overhead + r
      /\ S2 = S \cup {c}
      /\ sz2[p] = n /\ sz2[c] = r
      /\ \A y \in S : y # p => sz2[y] = sz[y]
  BY DEF Parts
<1>2. Overhead \in Nat \ {0}  BY OverheadFacts
<1>3. S \subseteq Nat /\ e \in Nat /\ (\A y \in S : sz[y] \in Nat)  BY DEF Tiles
<1>4. c \in Nat /\ p \in Nat /\ c > p /\ After(sz, p) = p + sz[p] + Overhead
      /\ c < After(sz, p) /\ After(sz, p) \in Nat
  BY <1>1, <1>2, <1>3 DEF After
<1>5. c \notin S
  <2>1. c \in S => After(sz, p) <= c  BY <1>1, <1>4, TilesOrder
  <2> QED  BY <1>4, <2>1
<1>6. CASE x = p  BY <1>6
<1>7. CASE x = c
  <2>1. After(sz2, x) = After(sz, p)  BY <1>1, <1>2, <1>3, <1>4, <1>7 DEF After
  <2>2. After(sz, p) \in S  BY <1>1, <1>4, <2>1
  <2>3. After(sz, p) # p  BY <1>4
  <2>4. fr2[After(sz, p)] = fr[After(sz, p)]  BY <2>2, <2>3
  <2> QED  BY <2>1, <2>2, <2>4
<1>8. CASE x \in S /\ x # p
  <2>1. After(sz2, x) = After(sz, x) /\ fr2[x] = fr[x]  BY <1>1, <1>8 DEF After
  <2>2. x \in Nat /\ sz[x] \in Nat /\ After(sz, x) > x  BY <1>2, <1>3, <1>8 DEF After
  <2>3. After(sz, x) # c
    <3>1. x < p => After(sz, x) <= p  BY <1>1, <1>8, TilesOrder
    <3>2. x > p => After(sz, p) <= x  BY <1>1, <1>8, TilesOrder
    <3>3. After(sz, x) \in Nat  BY <1>2, <2>2 DEF After
    <3> QED  BY <1>4, <1>8, <2>2, <3>1, <3>2, <3>3
  <2>4. After(sz, x) \in S  BY <1>1, <2>1, <2>3
  <2>5. CASE After(sz, x) = p  BY <2>1, <2>5
  <2>6. CASE After(sz, x) # p
    <3>1. ~(fr[x] /\ fr[After(sz, x)])  BY <1>8, <2>4, <2>6 DEF Apart
    <3>2. fr2[After(sz, x)] = fr[After(sz, x)]  BY <2>4, <2>6
    <3> QED  BY <2>1, <3>1, <3>2
  <2> QED  BY <2>5, <2>6
<1> QED  BY <1>1, <1>6, <1>7, <1>8

-----------------------------------------------------------------------------
(* Markers in memory.                                                      *)

LEMMA MarkerFacts ==
  /\ Junk \notin StartMarkers
  /\ \A n \in Nat : End(n) \in EndMarkers /\ End(n) \notin StartMarkers
                    /\ End(n).size = n
  /\ \A f \in BOOLEAN, n \in Nat :
       Start(f, n) \in StartMarkers /\ Start(f, n).size = n /\ Start(f, n).free = f
  /\ \A c \in StartMarkers : c.size \in Nat /\ c.free \in BOOLEAN
<1>1. Junk \notin StartMarkers  BY JunkAssumption
<1>2. \A n \in Nat : End(n) \in EndMarkers  BY DEF End, EndMarkers
<1>3. \A n \in Nat : End(n).marker = "end" /\ End(n).size = n  BY DEF End
<1>4. \A c \in StartMarkers : c.marker = "start"  BY DEF StartMarkers
<1>5. \A n \in Nat : End(n) \notin StartMarkers  BY <1>3, <1>4
<1>6. \A f \in BOOLEAN, n \in Nat :
        Start(f, n) \in StartMarkers /\ Start(f, n).size = n /\ Start(f, n).free = f
  BY DEF Start, StartMarkers
<1>7. \A c \in StartMarkers : c.size \in Nat /\ c.free \in BOOLEAN  BY DEF StartMarkers
<1> QED  BY <1>1, <1>2, <1>3, <1>5, <1>6, <1>7

\* What malloc and free take for a marker is one.
LEMMA CellFacts ==
  ASSUME NEW c \in Cells
  PROVE  /\ c # Junk /\ c.marker = "start" <=> c \in StartMarkers
         /\ c # Junk /\ c.marker = "end" <=> c \in EndMarkers
<1>1. \A d \in StartMarkers : d.marker = "start"  BY DEF StartMarkers
<1>2. \A d \in EndMarkers : d.marker = "end"  BY DEF EndMarkers
<1>3. Junk \notin StartMarkers /\ Junk \notin EndMarkers  BY JunkAssumption
<1> QED  BY <1>1, <1>2, <1>3 DEF Cells

\* m2 is m after mark_chunck for n units at p.
Written(m, m2, p, n, f) ==
  /\ m2 \in [Addresses -> Cells]
  /\ m2[p] = Start(f, n)
  /\ m2[p + start_size + n] = End(n)
  /\ \A a \in Addresses : p < a /\ a < p + n + Overhead => m2[a] \notin StartMarkers
  /\ \A a \in Addresses : a < p \/ a >= p + n + Overhead => m2[a] = m[a]

LEMMA MarkWrites ==
  ASSUME NEW m \in [Addresses -> Cells], NEW p \in Nat, NEW n \in Nat,
         NEW f \in BOOLEAN, p + n + Overhead <= Limit
  PROVE  Written(m, mark_chunck(m, p, n, f), p, n, f)
<1> DEFINE m2 == mark_chunck(m, p, n, f)
           b == p + start_size + n
           q == p + n + Overhead
<1>1. start_size \in Nat \ {0} /\ Overhead = start_size + start_size  BY OverheadFacts
<1>2. Limit \in Nat /\ \A a : a \in Addresses <=> a \in Nat /\ a < Limit  BY LimitFacts
<1>3. b \in Nat /\ q \in Nat /\ p < b /\ b < q /\ q <= Limit  BY <1>1
<1>4. m2 = [a \in Addresses |->
              IF a = p THEN Start(f, n) ELSE IF a = b THEN End(n)
              ELSE IF a > p /\ a < q THEN Junk ELSE m[a]]
  BY DEF mark_chunck
<1>5. p \in Addresses /\ b \in Addresses  BY <1>2, <1>3
<1>7. Start(f, n) \in Cells /\ End(n) \in Cells /\ Junk \in Cells
      /\ End(n) \notin StartMarkers /\ Junk \notin StartMarkers
  BY MarkerFacts DEF Cells
<1> HIDE DEF m2, b, q
<1>6. m2[p] = Start(f, n) /\ m2[b] = End(n)  BY <1>3, <1>4, <1>5
<1>8. \A a \in Addresses : m2[a] \in Cells
  <2> SUFFICES ASSUME NEW a \in Addresses PROVE m2[a] \in Cells  OBVIOUS
  <2>1. m[a] \in Cells  OBVIOUS
  <2> QED  BY <1>4, <1>7, <2>1
<1>9. m2 \in [Addresses -> Cells]  BY <1>4, <1>8
<1>10. \A a \in Addresses : p < a /\ a < q => m2[a] \notin StartMarkers
  BY <1>2, <1>3, <1>4, <1>7
<1>11. \A a \in Addresses : a < p \/ a >= q => m2[a] = m[a]  BY <1>2, <1>3, <1>4
<1> QED  BY <1>6, <1>9, <1>10, <1>11 DEF Written, m2, b, q

\* The chunks that m2 has then.
Rewritten(m, m2, p, n, f) ==
  /\ Starts(m2) = {x \in Starts(m) : x < p \/ x >= p + n + Overhead} \cup {p}
  /\ m2[p].size = n /\ m2[p].free = f
  /\ \A x \in Starts(m2) : x # p => m2[x] = m[x]

LEMMA WrittenStarts ==
  ASSUME NEW m \in [Addresses -> Cells], NEW m2, NEW p \in Nat, NEW n \in Nat,
         NEW f \in BOOLEAN, p + n + Overhead <= Limit, Written(m, m2, p, n, f)
  PROVE  Rewritten(m, m2, p, n, f)
<1> DEFINE q == p + n + Overhead
<1>1. Overhead \in Nat \ {0}  BY OverheadFacts
<1>2. Limit \in Nat /\ \A a : a \in Addresses <=> a \in Nat /\ a < Limit  BY LimitFacts
<1>3. /\ m2[p] = Start(f, n)
      /\ \A a \in Addresses : p < a /\ a < q => m2[a] \notin StartMarkers
      /\ \A a \in Addresses : a < p \/ a >= q => m2[a] = m[a]
  BY DEF Written
<1>4. m2[p] \in StartMarkers /\ m2[p].size = n /\ m2[p].free = f  BY <1>3, MarkerFacts
<1>5. q \in Nat /\ p < q /\ q <= Limit /\ p \in Addresses  BY <1>1, <1>2
<1> HIDE DEF q
<1>6. ASSUME NEW x
      PROVE  x \in Starts(m2) <=> x = p \/ (x \in Starts(m) /\ (x < p \/ x >= q))
  <2>1. CASE x \notin Addresses  BY <2>1, <1>5 DEF Starts
  <2>2. CASE x = p  BY <2>2, <1>4, <1>5 DEF Starts
  <2>3. CASE x \in Addresses /\ x # p
    <3>1. x \in Nat  BY <1>2, <2>3
    <3>2. CASE p < x /\ x < q  BY <1>3, <1>5, <3>1, <3>2, <2>3 DEF Starts
    <3>3. CASE x < p \/ x >= q
      <4>1. m2[x] = m[x]  BY <1>3, <2>3, <3>3
      <4> QED  BY <2>3, <3>3, <4>1 DEF Starts
    <3> QED  BY <1>5, <2>3, <3>1, <3>2, <3>3
  <2> QED  BY <2>1, <2>2, <2>3
<1>7. Starts(m2) = {x \in Starts(m) : x < p \/ x >= q} \cup {p}  BY <1>6
<1>8. \A x \in Starts(m2) : x # p => m2[x] = m[x]
  <2> SUFFICES ASSUME NEW x \in Starts(m2), x # p PROVE m2[x] = m[x]  OBVIOUS
  <2>1. x \in Addresses /\ (x < p \/ x >= q)  BY <1>6 DEF Starts
  <2> QED  BY <1>3, <2>1
<1> QED  BY <1>4, <1>7, <1>8 DEF q, Rewritten

\* The end marker of a chunk outside of what was written is still there.
LEMMA WrittenEnd ==
  ASSUME NEW m \in [Addresses -> Cells], NEW m2, NEW p \in Nat, NEW n \in Nat,
         NEW f \in BOOLEAN, p + n + Overhead <= Limit, Written(m, m2, p, n, f),
         NEW x \in Nat, NEW s \in Nat, x + s + Overhead <= Limit,
         x + s + Overhead <= p \/ x >= p + n + Overhead,
         m[x + start_size + s] = End(s)
  PROVE  m2[x + start_size + s] = End(s)
<1> DEFINE b == x + start_size + s
<1>1. start_size \in Nat \ {0} /\ Overhead = start_size + start_size  BY OverheadFacts
<1>2. Limit \in Nat /\ \A a : a \in Addresses <=> a \in Nat /\ a < Limit  BY LimitFacts
<1>3. b \in Nat /\ b < Limit /\ (b < p \/ b >= p + n + Overhead)  BY <1>1, <1>2
<1> HIDE DEF b
<1>4. m2[b] = m[b]  BY <1>2, <1>3 DEF Written
<1> QED  BY <1>4 DEF b

-----------------------------------------------------------------------------
(* Heaps: what a chunk has, and what marking chunks does to all of them.   *)

LEMMA LaidFacts ==
  ASSUME NEW m, NEW e, Laid(m, e)
  PROVE  /\ m \in [Addresses -> Cells] /\ e \in Nat /\ e <= Limit
         /\ Starts(m) \subseteq Nat
         /\ \A x \in Starts(m) :
              /\ x \in Addresses /\ m[x] \in StartMarkers
              /\ m[x].size \in Nat /\ m[x].free \in BOOLEAN
              /\ Sizes(m)[x] = m[x].size /\ Frees(m)[x] = m[x].free
              /\ After(Sizes(m), x) = x + m[x].size + Overhead
              /\ x < e /\ x + m[x].size + Overhead \in Starts(m) \cup {e}
              /\ x + m[x].size + Overhead <= e
              /\ m[x + start_size + m[x].size] = End(m[x].size)
<1>1. m \in [Addresses -> Cells] /\ e \in Nat /\ e <= Limit
      /\ Tiles(Starts(m), Sizes(m), e) /\ Ends(m)
  BY LimitFacts DEF Laid
<1>2. Starts(m) \subseteq Nat  BY <1>1 DEF Tiles
<1>3. ASSUME NEW x \in Starts(m)
      PROVE  /\ x \in Addresses /\ m[x] \in StartMarkers
             /\ m[x].size \in Nat /\ m[x].free \in BOOLEAN
             /\ Sizes(m)[x] = m[x].size /\ Frees(m)[x] = m[x].free
             /\ After(Sizes(m), x) = x + m[x].size + Overhead
             /\ x < e /\ x + m[x].size + Overhead \in Starts(m) \cup {e}
             /\ x + m[x].size + Overhead <= e
             /\ m[x + start_size + m[x].size] = End(m[x].size)
  <2>1. x \in Addresses /\ m[x] \in StartMarkers  BY DEF Starts
  <2>2. m[x].size \in Nat /\ m[x].free \in BOOLEAN  BY <2>1, MarkerFacts
  <2>3. Sizes(m)[x] = m[x].size /\ Frees(m)[x] = m[x].free  BY DEF Sizes, Frees
  <2>4. After(Sizes(m), x) = x + m[x].size + Overhead  BY <2>3 DEF After
  <2>5. x < e /\ After(Sizes(m), x) \in Starts(m) \cup {e}  BY <1>1 DEF Tiles
  <2>6. After(Sizes(m), x) <= e  BY <1>1, <2>5, TilesOrder
  <2>7. m[x + start_size + m[x].size] = End(m[x].size)  BY <1>1 DEF Ends
  <2> QED  BY <2>1, <2>2, <2>3, <2>4, <2>5, <2>6, <2>7
<1> QED  BY <1>1, <1>2, <1>3

\* A chunk of n units at p makes the heap end at e2.
Fits(m, e, p, n, e2) ==
  /\ p \in Starts(m) \cup {e} /\ n \in Nat
  /\ \/ e2 = p + n + Overhead /\ e2 >= e /\ e2 <= Limit
     \/ e2 = e /\ p + n + Overhead \in Starts(m)

LEMMA FitsFacts ==
  ASSUME NEW m, NEW e, Laid(m, e), NEW p, NEW n, NEW e2, Fits(m, e, p, n, e2)
  PROVE  /\ p \in Nat /\ n \in Nat /\ p + n + Overhead <= Limit
         /\ e2 \in Nat /\ e2 <= Limit
         /\ \A x \in Starts(m) : x < p => x + m[x].size + Overhead <= p
<1>1. m \in [Addresses -> Cells] /\ e \in Nat /\ e <= Limit /\ Starts(m) \subseteq Nat
      /\ Tiles(Starts(m), Sizes(m), e)
      /\ \A x \in Starts(m) : x < e /\ After(Sizes(m), x) = x + m[x].size + Overhead
  BY LaidFacts DEF Laid
<1>2. Limit \in Nat /\ Overhead \in Nat  BY LimitFacts, OverheadFacts
<1>3. p \in Nat /\ n \in Nat  BY <1>1 DEF Fits
<1>4. p + n + Overhead <= Limit /\ e2 \in Nat /\ e2 <= Limit
  <2>1. CASE e2 = p + n + Overhead /\ e2 >= e /\ e2 <= Limit  BY <1>2, <1>3, <2>1
  <2>2. CASE e2 = e /\ p + n + Overhead \in Starts(m)
    <3>1. p + n + Overhead < e  BY <1>1, <2>2
    <3> QED  BY <1>1, <1>2, <1>3, <2>2, <3>1
  <2> QED  BY <2>1, <2>2 DEF Fits
<1>5. ASSUME NEW x \in Starts(m), x < p PROVE x + m[x].size + Overhead <= p
  <2>1. p \in Starts(m) \cup {e} /\ p > x  BY <1>1, <1>3, <1>5 DEF Fits
  <2>2. After(Sizes(m), x) <= p  BY <1>1, <2>1, TilesOrder
  <2> QED  BY <1>1, <2>2
<1> QED  BY <1>3, <1>4, <1>5

LEMMA JoinLaid ==
  ASSUME NEW m, NEW e, Laid(m, e), NEW p, NEW n, NEW e2, Fits(m, e, p, n, e2),
         NEW f \in BOOLEAN, NEW m2, Written(m, m2, p, n, f)
  PROVE  /\ Laid(m2, e2)
         /\ Joins(Starts(m), Sizes(m), e, p, n, Starts(m2), Sizes(m2), e2)
<1> DEFINE S == Starts(m)
           S2 == Starts(m2)
<1>1. /\ m \in [Addresses -> Cells] /\ e \in Nat /\ e <= Limit /\ S \subseteq Nat
      /\ \A x \in S : /\ Sizes(m)[x] = m[x].size /\ m[x].size \in Nat
                      /\ x + m[x].size + Overhead <= e
                      /\ m[x + start_size + m[x].size] = End(m[x].size)
      /\ Tiles(S, Sizes(m), e)
  BY LaidFacts DEF Laid
<1>2. /\ p \in Nat /\ n \in Nat /\ p + n + Overhead <= Limit
      /\ e2 \in Nat /\ e2 <= Limit
      /\ \A x \in S : x < p => x + m[x].size + Overhead <= p
  BY FitsFacts
<1>3. /\ S2 = {x \in S : x < p \/ x >= p + n + Overhead} \cup {p}
      /\ m2[p].size = n /\ m2[p].free = f
      /\ \A x \in S2 : x # p => m2[x] = m[x]
  <2>1. Rewritten(m, m2, p, n, f)  BY <1>1, <1>2, WrittenStarts
  <2> QED  BY <2>1 DEF Rewritten
<1>4. \A x \in S2 : Sizes(m2)[x] = m2[x].size  BY DEF Sizes
<1>5. Joins(S, Sizes(m), e, p, n, S2, Sizes(m2), e2)
  <2>1. p \in S2 /\ Sizes(m2)[p] = n  BY <1>3, <1>4
  <2>2. \A x \in S2 : x # p => Sizes(m2)[x] = Sizes(m)[x]  BY <1>1, <1>3, <1>4
  <2>3. /\ n \in Nat /\ p \in S \cup {e}
        /\ \/ e2 = p + n + Overhead /\ e2 >= e
           \/ e2 = e /\ p + n + Overhead \in S
    BY DEF Fits
  <2> HIDE DEF S, S2
  <2> QED  BY <1>3, <2>1, <2>2, <2>3 DEF Joins
<1>6. Tiles(S2, Sizes(m2), e2)  BY <1>1, <1>5, JoinTiles
<1>7. Ends(m2)
  <2> SUFFICES ASSUME NEW x \in S2
               PROVE  m2[x + start_size + m2[x].size] = End(m2[x].size)
    BY DEF Ends
  <2>1. CASE x = p
    <3>1. m2[p + start_size + n] = End(n)  BY DEF Written
    <3> QED  BY <1>3, <2>1, <3>1
  <2>2. CASE x # p
    <3>1. x \in S /\ (x < p \/ x >= p + n + Overhead) /\ m2[x] = m[x]  BY <1>3, <2>2
    <3> DEFINE s == m[x].size
    <3>2. x \in Nat /\ s \in Nat /\ x + s + Overhead <= e
          /\ m[x + start_size + s] = End(s)
      BY <1>1, <3>1
    <3>3. x < p => x + s + Overhead <= p  BY <1>2, <3>1
    <3> HIDE DEF s, S, S2
    <3>4. x + s + Overhead <= Limit
      BY <1>1, <3>2, LimitFacts, OverheadFacts
    <3>5. m2[x + start_size + s] = End(s)
      BY <1>1, <1>2, <3>1, <3>2, <3>3, <3>4, WrittenEnd
    <3> QED  BY <3>1, <3>5 DEF s
  <2> QED  BY <2>1, <2>2
<1>8. m2 \in [Addresses -> Cells]  BY DEF Written
<1>9. e2 \in 0..Limit  BY <1>2, LimitFacts
<1> QED  BY <1>5, <1>6, <1>7, <1>8, <1>9 DEF Laid

\* A chunk is handed out that takes all of the place it is cut from.
LEMMA WholeLaid ==
  ASSUME NEW m, NEW e, Laid(m, e), NoTwoFree(m, -1),
         NEW p, NEW n, NEW e2, Fits(m, e, p, n, e2),
         NEW m2, Written(m, m2, p, n, FALSE)
  PROVE  Laid(m2, e2) /\ NoTwoFree(m2, -1)
<1> DEFINE S == Starts(m)
           S2 == Starts(m2)
<1>1. Laid(m2, e2) /\ Joins(S, Sizes(m), e, p, n, S2, Sizes(m2), e2)  BY JoinLaid
<1>2. m \in [Addresses -> Cells] /\ Tiles(S, Sizes(m), e) /\ S \subseteq Nat
  BY LaidFacts DEF Laid
<1>3. p \in Nat /\ n \in Nat /\ p + n + Overhead <= Limit  BY FitsFacts
<1>4. /\ p \in S2 /\ m2[p].free = FALSE /\ S2 \subseteq S \cup {p}
      /\ \A x \in S2 : x # p => m2[x] = m[x]
  <2> DEFINE f == FALSE
  <2>1. f \in BOOLEAN /\ Written(m, m2, p, n, f)  OBVIOUS
  <2> HIDE DEF f
  <2>2. /\ S2 = {x \in S : x < p \/ x >= p + n + Overhead} \cup {p}
        /\ m2[p].size = n /\ m2[p].free = f
        /\ \A x \in S2 : x # p => m2[x] = m[x]
    <3>1. Rewritten(m, m2, p, n, f)  BY <1>2, <1>3, <2>1, WrittenStarts
    <3> QED  BY <3>1 DEF Rewritten
  <2> QED  BY <2>2 DEF f
<1>5. ~Frees(m2)[p] /\ \A x \in S2 : x # p => Frees(m2)[x] = Frees(m)[x]
  <2>1. \A x \in S2 : Frees(m2)[x] = m2[x].free  BY DEF Frees
  <2>2. \A x \in S : Frees(m)[x] = m[x].free  BY DEF Frees
  <2> QED  BY <1>4, <2>1, <2>2
<1>6. Apart(S, Sizes(m), Frees(m), -1)  BY DEF NoTwoFree
<1>7. -1 \notin S2  BY <1>2, <1>3, <1>4
<1> HIDE DEF S, S2
<1>8. Apart(S2, Sizes(m2), Frees(m2), p)
  <2>1. Joinable(S, Frees(m), p, p + n + Overhead, -1, S2, Frees(m2))
    BY <1>5, <1>7 DEF Joinable
  <2> QED  BY <1>1, <1>2, <1>6, <2>1, JoinApart
<1>9. Apart(S2, Sizes(m2), Frees(m2), -1)  BY <1>5, <1>8 DEF Apart
<1> QED  BY <1>1, <1>9 DEF NoTwoFree, S2

\* A chunk is handed out, and what is left of the place is a free chunk.
Divided(m, m2, p, n, r) ==
  /\ \A x : x \in Starts(m2) <=>
       \/ x \in Starts(m) /\ (x < p \/ x >= p + (n + Overhead + r) + Overhead)
       \/ x = p \/ x = p + n + Overhead
  /\ m2[p].size = n /\ m2[p].free = FALSE
  /\ m2[p + n + Overhead].free = TRUE
  /\ \A x \in Starts(m2) : x \notin {p, p + n + Overhead} => m2[x] = m[x]

FreeAt(m, q) == q \in Starts(m) /\ m[q].free

LEMMA SplitLaid ==
  ASSUME NEW m, NEW e, Laid(m, e), NoTwoFree(m, -1),
         NEW p, NEW n \in Nat, NEW r \in Nat, NEW e2,
         Fits(m, e, p, n + Overhead + r, e2),
         ~FreeAt(m, p + (n + Overhead + r) + Overhead),
         NEW m1, Written(m, m1, p + n + Overhead, r, TRUE),
         NEW m2, Written(m1, m2, p, n, FALSE)
  PROVE  Laid(m2, e2) /\ NoTwoFree(m2, -1) /\ Divided(m, m2, p, n, r)
<1> DEFINE S == Starts(m)
           S1 == Starts(m1)
           S2 == Starts(m2)
           c == p + n + Overhead
           t == n + Overhead + r
           q == p + t + Overhead
           SW == {x \in S : x < p \/ x >= q} \cup {p}
           szW == [x \in SW |-> IF x = p THEN t ELSE Sizes(m)[x]]
           frW == [x \in SW |-> IF x = p THEN FALSE ELSE Frees(m)[x]]
           yes == TRUE
           no == FALSE
<1>1. /\ m \in [Addresses -> Cells] /\ e \in Nat /\ e <= Limit /\ S \subseteq Nat
      /\ \A x \in S : /\ Sizes(m)[x] = m[x].size /\ m[x].size \in Nat
                      /\ Frees(m)[x] = m[x].free
                      /\ x + m[x].size + Overhead <= e
                      /\ m[x + start_size + m[x].size] = End(m[x].size)
      /\ Tiles(S, Sizes(m), e)
  BY LaidFacts DEF Laid
<1>2. /\ p \in Nat /\ t \in Nat /\ q <= Limit
      /\ e2 \in Nat /\ e2 <= Limit
      /\ \A x \in S : x < p => x + m[x].size + Overhead <= p
  <2> HIDE DEF t
  <2> QED  BY FitsFacts DEF t
<1>3. /\ Overhead \in Nat \ {0} /\ Limit \in Nat /\ start_size \in Nat \ {0}
      /\ Overhead = start_size + start_size
  BY OverheadFacts, LimitFacts
<1>4. /\ c \in Nat /\ q \in Nat /\ p < c /\ c < q /\ c + r + Overhead = q
      /\ c + r + Overhead <= Limit /\ p + n + Overhead <= Limit
      /\ c = p + n + Overhead /\ q = p + t + Overhead /\ t = n + Overhead + r
  BY <1>2, <1>3
<1>5. Fits(m, e, p, t, e2) /\ Written(m, m1, c, r, yes) /\ Written(m1, m2, p, n, no)
      /\ (q \in S => ~m[q].free) /\ yes \in BOOLEAN /\ no \in BOOLEAN
  BY DEF FreeAt
<1> HIDE DEF S, S1, S2, c, t, q, SW, szW, frW, yes, no
<1>6. /\ S1 = {x \in S : x < c \/ x >= q} \cup {c}
      /\ m1[c].size = r /\ m1[c].free = TRUE
      /\ \A x \in S1 : x # c => m1[x] = m[x]
      /\ m1 \in [Addresses -> Cells]
      /\ m1[c + start_size + r] = End(r)
  <2>1. /\ S1 = {x \in S : x < c \/ x >= c + r + Overhead} \cup {c}
        /\ m1[c].size = r /\ m1[c].free = yes
        /\ \A x \in S1 : x # c => m1[x] = m[x]
    <3>1. Rewritten(m, m1, c, r, yes)  BY <1>1, <1>4, <1>5, WrittenStarts
    <3> QED  BY <3>1 DEF S, S1, Rewritten
  <2>2. m1 \in [Addresses -> Cells] /\ m1[c + start_size + r] = End(r)
    BY <1>5 DEF Written
  <2> QED  BY <1>4, <2>1, <2>2 DEF yes
<1>7. /\ S2 = {x \in S1 : x < p \/ x >= c} \cup {p}
      /\ m2[p].size = n /\ m2[p].free = FALSE
      /\ \A x \in S2 : x # p => m2[x] = m1[x]
      /\ m2 \in [Addresses -> Cells]
      /\ m2[p + start_size + n] = End(n)
  <2>0. m1 \in [Addresses -> Cells] /\ p \in Nat /\ p + n + Overhead <= Limit
        /\ no \in BOOLEAN /\ Written(m1, m2, p, n, no)
    BY <1>2, <1>4, <1>5, <1>6
  <2>1. /\ S2 = {x \in S1 : x < p \/ x >= p + n + Overhead} \cup {p}
        /\ m2[p].size = n /\ m2[p].free = no
        /\ \A x \in S2 : x # p => m2[x] = m1[x]
    <3>1. Rewritten(m1, m2, p, n, no)  BY <2>0, WrittenStarts
    <3> QED  BY <3>1 DEF S2, S1, Rewritten
  <2>2. m2 \in [Addresses -> Cells] /\ m2[p + start_size + n] = End(n)
    BY <1>5 DEF Written
  <2> QED  BY <1>4, <2>1, <2>2 DEF no
<1>8. \A x : x \in S2 <=> (x \in S /\ (x < p \/ x >= q)) \/ x = p \/ x = c
  <2> SUFFICES ASSUME NEW x
               PROVE  x \in S2 <=> (x \in S /\ (x < p \/ x >= q)) \/ x = p \/ x = c
    OBVIOUS
  <2>1. CASE x = p \/ x = c  BY <1>2, <1>4, <1>6, <1>7, <2>1
  <2>2. CASE x # p /\ x # c
    <3>1. x \in S1 <=> x \in S /\ (x < c \/ x >= q)  BY <1>6, <2>2
    <3>2. x \in S2 <=> x \in S1 /\ (x < p \/ x >= c)  BY <1>7, <2>2
    <3>3. CASE x \in S
      <4>1. x \in Nat  BY <1>1, <3>3
      <4> QED  BY <1>2, <1>4, <2>2, <3>1, <3>2, <4>1
    <3>4. CASE x \notin S  BY <2>2, <3>1, <3>2, <3>4
    <3> QED  BY <3>3, <3>4
  <2> QED  BY <2>1, <2>2
<1>9. S2 = SW \cup {c} /\ p \in SW /\ c \notin SW /\ SW \subseteq S \cup {p}
      /\ \A x \in SW : x # p => x \in S
  BY <1>1, <1>2, <1>4, <1>8 DEF SW
<1>10. /\ m2[c] = m1[c] /\ c \in S2
       /\ \A x \in S2 : x # p /\ x # c => m2[x] = m[x] /\ x \in S /\ (x < p \/ x >= q)
  <2>1. m2[c] = m1[c] /\ c \in S2  BY <1>4, <1>7, <1>8, <1>2
  <2>2. ASSUME NEW x \in S2, x # p, x # c
        PROVE  m2[x] = m[x] /\ x \in S /\ (x < p \/ x >= q)
    <3>1. x \in S1 /\ m2[x] = m1[x]  BY <1>7, <2>2
    <3> QED  BY <1>6, <1>8, <2>2, <3>1
  <2> QED  BY <2>1, <2>2
<1>11. \A x \in S2 : Sizes(m2)[x] = m2[x].size /\ Frees(m2)[x] = m2[x].free
  BY DEF Sizes, Frees, S2
<1>12. Joins(S, Sizes(m), e, p, t, SW, szW, e2)
  <2>1. szW[p] = t /\ \A x \in SW : x # p => szW[x] = Sizes(m)[x]  BY <1>9 DEF szW
  <2>2. /\ t \in Nat /\ p \in S \cup {e}
        /\ \/ e2 = p + t + Overhead /\ e2 >= e
           \/ e2 = e /\ p + t + Overhead \in S
    BY <1>5 DEF Fits, S
  <2> QED  BY <2>1, <2>2 DEF Joins, SW, q
<1>13. Tiles(SW, szW, e2)  BY <1>1, <1>12, JoinTiles
<1>14. Parts(SW, szW, p, n, r, S2, Sizes(m2))
  <2>1. szW[p] = n + Overhead + r  BY <1>4, <1>9 DEF szW
  <2>2. Sizes(m2)[p] = n /\ Sizes(m2)[c] = r  BY <1>6, <1>7, <1>8, <1>10, <1>11
  <2>3. ASSUME NEW x \in SW, x # p PROVE Sizes(m2)[x] = szW[x]
    <3>1. x \in S /\ x \in S2 /\ x # c  BY <1>9, <2>3
    <3>2. Sizes(m2)[x] = m[x].size  BY <1>10, <1>11, <2>3, <3>1
    <3>3. szW[x] = Sizes(m)[x]  BY <2>3 DEF szW
    <3> QED  BY <1>1, <3>1, <3>2, <3>3
  <2> QED  BY <1>4, <1>9, <2>1, <2>2, <2>3 DEF Parts
<1>15. Tiles(S2, Sizes(m2), e2)  BY <1>13, <1>14, PartTiles
<1>16. Apart(S2, Sizes(m2), Frees(m2), -1)
  <2>1. Apart(S, Sizes(m), Frees(m), -1)  BY DEF NoTwoFree, S
  <2>2. -1 \notin SW  BY <1>1, <1>2, <1>9
  <2>3. ~frW[p] /\ \A x \in SW : x # p => frW[x] = Frees(m)[x]  BY <1>9 DEF frW
  <2>4. Apart(SW, szW, frW, p)
    <3>1. Joinable(S, Frees(m), p, p + t + Overhead, -1, SW, frW)
      BY <2>2, <2>3 DEF Joinable
    <3> QED  BY <1>1, <1>12, <2>1, <3>1, JoinApart
  <2>5. ~Frees(m2)[p]  BY <1>7, <1>8, <1>11
  <2>6. ASSUME NEW x \in SW, x # p PROVE Frees(m2)[x] = frW[x]
    <3>1. x \in S /\ x \in S2 /\ x # c  BY <1>9, <2>6
    <3>2. Frees(m2)[x] = m[x].free  BY <1>10, <1>11, <2>6, <3>1
    <3> QED  BY <1>1, <2>3, <2>6, <3>1, <3>2
  <2>7. After(szW, p) \in SW => ~frW[After(szW, p)]
    <3>1. After(szW, p) = q  BY <1>4, <1>9 DEF After, szW
    <3>2. q \in SW => q \in S /\ q # p  BY <1>2, <1>4, <1>9
    <3>3. q \in SW => frW[q] = m[q].free  BY <1>1, <2>3, <3>2
    <3> QED  BY <1>5, <3>1, <3>2, <3>3
  <2> QED  BY <1>13, <1>14, <2>4, <2>5, <2>6, <2>7, PartApart
<1>17. Ends(m2)
  <2> SUFFICES ASSUME NEW x \in S2
               PROVE  m2[x + start_size + m2[x].size] = End(m2[x].size)
    BY DEF Ends, S2
  <2>1. CASE x = p  BY <1>7, <2>1
  <2>2. CASE x = c
    <3>1. m2[c + start_size + r] = End(r)
      BY <1>2, <1>4, <1>5, <1>6, WrittenEnd
    <3> QED  BY <1>6, <1>10, <2>2, <3>1
  <2>3. CASE x # p /\ x # c
    <3> DEFINE s == m[x].size
    <3>1. m2[x] = m[x] /\ x \in S /\ (x < p \/ x >= q)  BY <1>10, <2>3
    <3>2. x \in Nat /\ s \in Nat /\ x + s + Overhead <= e
          /\ m[x + start_size + s] = End(s)
      BY <1>1, <3>1
    <3>3. x < p => x + s + Overhead <= p  BY <1>2, <3>1
    <3> HIDE DEF s
    <3>4. x + s + Overhead <= Limit  BY <1>1, <1>3, <3>2
    <3>5. x + s + Overhead <= c \/ x >= c + r + Overhead
      BY <1>2, <1>3, <1>4, <3>1, <3>2, <3>3
    <3>6. m1[x + start_size + s] = End(s)
      BY <1>1, <1>4, <1>5, <3>2, <3>4, <3>5, WrittenEnd
    <3>7. x + s + Overhead <= p \/ x >= p + n + Overhead
      BY <1>2, <1>3, <1>4, <3>1, <3>2, <3>3
    <3>8. m2[x + start_size + s] = End(s)
      BY <1>2, <1>4, <1>5, <1>6, <3>2, <3>4, <3>6, <3>7, WrittenEnd
    <3> QED  BY <3>1, <3>8 DEF s
  <2> QED  BY <2>1, <2>2, <2>3
<1>18. Laid(m2, e2)
  <2>1. e2 \in 0..Limit  BY <1>2, <1>3
  <2> QED  BY <1>7, <1>15, <1>17, <2>1 DEF Laid, S2
<1>19. NoTwoFree(m2, -1)  BY <1>16 DEF NoTwoFree, S2
<1>20. m2[c].free = TRUE  BY <1>6, <1>10
<1>21. \A x \in S2 : x \notin {p, c} => m2[x] = m[x]  BY <1>10
<1> QED  BY <1>7, <1>8, <1>18, <1>19, <1>20, <1>21 DEF S, S2, c, q, t, Divided

-----------------------------------------------------------------------------
(* malloc takes a chunk.                                                   *)

\* p is handed out with at least n units, and nothing else changes hands.
HandsOut(m, m2, p, n) ==
  /\ \A x : x \in Used(m2) <=> x \in Used(m) \/ x = p
  /\ \A x \in Used(m) : x # p => m2[x].size = m[x].size
  /\ m2[p].size \in Nat /\ m2[p].size >= n

LEMMA CarvedKeeps ==
  ASSUME Laid(mem, heap_end), NoTwoFree(mem, -1),
         NEW p, NEW n \in Nat, NEW size, NEW e2, size >= n,
         Fits(mem, heap_end, p, size, e2),
         \A x \in Starts(mem) : ~(p < x /\ x < p + size + Overhead),
         ~FreeAt(mem, p + size + Overhead)
  PROVE  /\ Laid(Carved(p, n, size), e2) /\ NoTwoFree(Carved(p, n, size), -1)
         /\ HandsOut(mem, Carved(p, n, size), p, n)
<1> DEFINE m == mem
           e == heap_end
           q == p + size + Overhead
           c == p + n + Overhead
           r == size - n - Overhead
           m2 == Carved(p, n, size)
<1>1. /\ m \in [Addresses -> Cells] /\ Starts(m) \subseteq Nat
  BY LaidFacts
<1>2. /\ p \in Nat /\ size \in Nat /\ p + size + Overhead <= Limit
  BY FitsFacts
<1>3. Overhead \in Nat \ {0} /\ Limit \in Nat  BY OverheadFacts, LimitFacts
<1>4. CASE ~Splits(n, size)
  <2> DEFINE f == FALSE
  <2>1. m2 = mark_chunck(m, p, size, f) /\ f \in BOOLEAN  BY <1>4 DEF Carved
  <2> HIDE DEF m2, f
  <2>2. Written(m, m2, p, size, f)  BY <1>1, <1>2, <2>1, MarkWrites
  <2>3. Laid(m2, e2) /\ NoTwoFree(m2, -1)
    <3>1. Written(m, m2, p, size, FALSE)  BY <2>2 DEF f
    <3> QED  BY <3>1, WholeLaid
  <2>4. /\ Starts(m2) = {x \in Starts(m) : x < p \/ x >= q} \cup {p}
        /\ m2[p].size = size /\ m2[p].free = f
        /\ \A x \in Starts(m2) : x # p => m2[x] = m[x]
    <3>1. f \in BOOLEAN  BY <2>1
    <3>2. Rewritten(m, m2, p, size, f)  BY <1>1, <1>2, <2>2, <3>1, WrittenStarts
    <3> QED  BY <3>2 DEF Rewritten
  <2>5. HandsOut(m, m2, p, n)
    <3>1. ~f  BY DEF f
    <3>2. ASSUME NEW x PROVE x \in Used(m2) <=> x \in Used(m) \/ x = p
      <4>1. CASE x = p  BY <2>4, <3>1, <4>1 DEF Used
      <4>2. CASE x # p
        <5>1. x \in Starts(m) => x \in Nat /\ ~(p < x /\ x < q)  BY <1>1
        <5>2. x \in Starts(m) => x < p \/ x >= q  BY <1>2, <1>3, <4>2, <5>1
        <5>3. x \in Starts(m2) <=> x \in Starts(m)  BY <2>4, <4>2, <5>2
        <5>4. x \in Starts(m2) => m2[x] = m[x]  BY <2>4, <4>2
        <5> QED  BY <4>2, <5>3, <5>4 DEF Used
      <4> QED  BY <4>1, <4>2
    <3>3. \A x \in Used(m) : x # p => m2[x].size = m[x].size
      BY <2>4, <3>2 DEF Used
    <3> QED  BY <1>2, <2>4, <3>2, <3>3 DEF HandsOut
  <2> QED  BY <2>3, <2>5 DEF m2
<1>5. CASE Splits(n, size)
  <2>0. /\ r \in Nat /\ size = n + Overhead + r /\ c \in Nat /\ c + r + Overhead = q
        /\ c + r + Overhead <= Limit /\ p + n + Overhead <= Limit /\ c # p
        /\ c > p /\ c < q /\ r = size - n - Overhead /\ c = p + n + Overhead
    BY <1>2, <1>3, <1>5 DEF Splits
  <2> DEFINE yes == TRUE
             no == FALSE
             m1 == mark_chunck(m, c, r, yes)
  <2>1. m2 = mark_chunck(m1, p, n, no) /\ yes \in BOOLEAN /\ no \in BOOLEAN
    BY <1>5 DEF Carved
  <2> HIDE DEF m2, m1, yes, no, r, c
  <2>2. Written(m, m1, c, r, yes)  BY <1>1, <2>0, <2>1, MarkWrites DEF m1
  <2>3. m1 \in [Addresses -> Cells]  BY <2>2 DEF Written
  <2>4. Written(m1, m2, p, n, no)  BY <1>2, <2>0, <2>1, <2>3, MarkWrites
  <2>5. Written(m, m1, p + n + Overhead, r, TRUE) /\ Written(m1, m2, p, n, FALSE)
    BY <2>0, <2>2, <2>4 DEF yes, no
  <2>6. Laid(m2, e2) /\ NoTwoFree(m2, -1) /\ Divided(m, m2, p, n, r)
    <3>1. /\ Fits(m, e, p, n + Overhead + r, e2)
          /\ ~FreeAt(m, p + (n + Overhead + r) + Overhead)
      BY <2>0
    <3>2. Laid(m, e) /\ NoTwoFree(m, -1) /\ n \in Nat /\ r \in Nat  BY <2>0
    <3> QED  BY <2>5, <3>1, <3>2, SplitLaid
  <2>7. /\ \A x : x \in Starts(m2) <=> (x \in Starts(m) /\ (x < p \/ x >= q))
                                         \/ x = p \/ x = c
        /\ m2[p].size = n /\ ~m2[p].free /\ m2[c].free
        /\ \A x \in Starts(m2) : x # p /\ x # c => m2[x] = m[x]
    BY <2>0, <2>6 DEF Divided
  <2>8. HandsOut(m, m2, p, n)
    <3>1. c \notin Starts(m)  BY <2>0
    <3>2. ASSUME NEW x PROVE x \in Used(m2) <=> x \in Used(m) \/ x = p
      <4>1. CASE x = p  BY <2>7, <4>1 DEF Used
      <4>2. CASE x = c  BY <2>0, <2>7, <3>1, <4>2 DEF Used
      <4>3. CASE x # p /\ x # c
        <5>1. x \in Starts(m) => x \in Nat /\ ~(p < x /\ x < q)  BY <1>1
        <5>2. x \in Starts(m) => x < p \/ x >= q  BY <1>2, <1>3, <4>3, <5>1
        <5>3. x \in Starts(m2) <=> x \in Starts(m)  BY <2>7, <4>3, <5>2
        <5>4. x \in Starts(m2) => m2[x] = m[x]  BY <2>7, <4>3
        <5> QED  BY <4>3, <5>3, <5>4 DEF Used
      <4> QED  BY <4>1, <4>2, <4>3
    <3>3. \A x \in Used(m) : x # p => m2[x].size = m[x].size
      <4> SUFFICES ASSUME NEW x \in Used(m), x # p PROVE m2[x].size = m[x].size
        OBVIOUS
      <4>1. x \in Starts(m2) /\ x # c  BY <3>1, <3>2 DEF Used
      <4> QED  BY <2>7, <4>1
    <3> QED  BY <2>7, <3>2, <3>3 DEF HandsOut
  <2> QED  BY <2>6, <2>8 DEF m2
<1> QED  BY <1>4, <1>5

\* Who has got a chunk of n units for a request can use it.
LEMMA AlignedEnough ==
  ASSUME NEW request \in Nat, ~Wraps(request)
  PROVE  aligned_size(request) >= request
<1>1. aligned_size(request) \in Nat  BY AlignedType
<1> QED  BY <1>1 DEF Wraps

Received(ow, ow2, p, request) ==
  ow2 = [q \in DOMAIN ow \cup {p + start_size} |->
           IF q = p + start_size THEN request ELSE ow[q]]

LEMMA HandedTake ==
  ASSUME NEW m, NEW e, Laid(m, e), NEW m2, NEW ow, NEW ow2, NEW p \in Nat,
         NEW request \in Nat, Handed(m, ow),
         HandsOut(m, m2, p, aligned_size(request)), Received(ow, ow2, p, request)
  PROVE  Handed(m2, ow2)
<1>0. start_size \in Nat /\ Used(m) \subseteq Nat  BY LaidFacts, OverheadFacts DEF Used
<1>1. /\ DOMAIN ow = {x + start_size : x \in Used(m)}
      /\ \A a \in DOMAIN ow : Wraps(ow[a]) \/ m[a - start_size].size >= ow[a]
  BY DEF Handed
<1>2. /\ \A x : x \in Used(m2) <=> x \in Used(m) \/ x = p
      /\ \A x \in Used(m) : x # p => m2[x].size = m[x].size
      /\ m2[p].size \in Nat /\ m2[p].size >= aligned_size(request)
  BY DEF HandsOut
<1>3. DOMAIN ow2 = DOMAIN ow \cup {p + start_size}
      /\ \A a \in DOMAIN ow2 : ow2[a] = IF a = p + start_size THEN request ELSE ow[a]
  BY DEF Received
<1>4. DOMAIN ow2 = {x + start_size : x \in Used(m2)}  BY <1>1, <1>2, <1>3
<1>5. ASSUME NEW a \in DOMAIN ow2
      PROVE  Wraps(ow2[a]) \/ m2[a - start_size].size >= ow2[a]
  <2>1. CASE a = p + start_size
    <3>1. a - start_size = p /\ ow2[a] = request  BY <1>0, <1>3, <2>1
    <3>2. CASE Wraps(request)  BY <3>1, <3>2
    <3>3. CASE ~Wraps(request)
      <4>1. aligned_size(request) >= request /\ aligned_size(request) \in Nat
        BY <3>3, AlignedEnough, AlignedType
      <4>2. m2[p].size >= request  BY <1>2, <4>1
      <4> QED  BY <3>1, <4>2
    <3> QED  BY <3>2, <3>3
  <2>2. CASE a # p + start_size
    <3>1. a \in DOMAIN ow /\ ow2[a] = ow[a]  BY <1>3, <2>2
    <3>2. PICK x \in Used(m) : a = x + start_size  BY <1>1, <3>1
    <3>3. x \in Nat /\ a - start_size = x /\ x # p  BY <1>0, <2>2, <3>2
    <3>4. m2[x].size = m[x].size  BY <1>2, <3>3
    <3> QED  BY <1>1, <3>1, <3>3, <3>4
  <2> QED  BY <2>1, <2>2
<1> QED  BY <1>4, <1>5 DEF Handed

-----------------------------------------------------------------------------
(* The walk of malloc finds every chunk.                                   *)

ChunksIn(m, ptr) == {x \in Starts(m) : ptr \in Starts(m) /\ x >= ptr}

StepOf(f, ptr) ==
  IF ptr < heap_end /\ IsStart(ptr)
    THEN {ptr} \cup (IF ptr + mem[ptr].size + Overhead <= Limit
                       THEN f[ptr + mem[ptr].size + Overhead] ELSE {})
    ELSE {}

LEMMA IsStartFacts ==
  ASSUME Laid(mem, heap_end)
  PROVE  /\ \A a : IsStart(a) <=> a \in Starts(mem)
         /\ \A a : IsEnd(a) <=> a \in Addresses /\ mem[a] \in EndMarkers
<1>1. mem \in [Addresses -> Cells]  BY DEF Laid
<1>2. ASSUME NEW a PROVE /\ IsStart(a) <=> a \in Starts(mem)
                         /\ IsEnd(a) <=> a \in Addresses /\ mem[a] \in EndMarkers
  <2>1. CASE a \in Addresses
    <3>1. mem[a] \in Cells  BY <1>1, <2>1
    <3>2. /\ mem[a] # Junk /\ mem[a].marker = "start" <=> mem[a] \in StartMarkers
          /\ mem[a] # Junk /\ mem[a].marker = "end" <=> mem[a] \in EndMarkers
      BY <3>1, CellFacts
    <3> QED  BY <2>1, <3>2 DEF IsStart, IsEnd, Starts
  <2>2. CASE a \notin Addresses  BY <2>2 DEF IsStart, IsEnd, Starts
  <2> QED  BY <2>1, <2>2
<1> QED  BY <1>2

\* From a chunk the walk goes to the next one.
LEMMA ChunksInStep ==
  ASSUME Laid(mem, heap_end), NEW ptr \in 0..Limit, NEW f,
         \A x \in 0..Limit : x > ptr => f[x] = ChunksIn(mem, x)
  PROVE  StepOf(f, ptr) = ChunksIn(mem, ptr)
<1> DEFINE S == Starts(mem)
<1>0. Limit \in Nat /\ Overhead \in Nat \ {0} /\ ptr \in Nat /\ S \subseteq Nat
  BY LimitFacts, OverheadFacts, LaidFacts
<1>1. CASE ptr \notin S  BY <1>1, IsStartFacts DEF StepOf, ChunksIn
<1>2. CASE ptr \in S
  <2> DEFINE a == ptr + mem[ptr].size + Overhead
  <2>1. /\ ptr < heap_end /\ a \in S \cup {heap_end} /\ a <= heap_end
        /\ heap_end \in Nat /\ heap_end <= Limit /\ mem[ptr].size \in Nat
        /\ After(Sizes(mem), ptr) = a /\ \A x \in S : x < heap_end
    BY <1>2, LaidFacts
  <2>2. a \in 0..Limit /\ a > ptr /\ a <= Limit /\ a \in Nat  BY <1>0, <2>1
  <2>3. IsStart(ptr)  BY <1>2, IsStartFacts
  <2>4. StepOf(f, ptr) = {ptr} \cup f[a]  BY <2>1, <2>2, <2>3 DEF StepOf
  <2> HIDE DEF a
  <2>5. f[a] = ChunksIn(mem, a)  BY <2>2
  <2>6. \A x \in S : x > ptr => x >= a
    <3> SUFFICES ASSUME NEW x \in S, x > ptr PROVE x >= a  OBVIOUS
    <3>1. Tiles(S, Sizes(mem), heap_end)  BY DEF Laid
    <3>2. After(Sizes(mem), ptr) <= x  BY <1>2, <3>1, TilesOrder
    <3> QED  BY <1>0, <2>1, <2>2, <3>2
  <2>7. ASSUME NEW x PROVE x \in {ptr} \cup ChunksIn(mem, a) <=> x \in ChunksIn(mem, ptr)
    <3>1. x \in ChunksIn(mem, ptr) <=> x \in S /\ x >= ptr  BY <1>2 DEF ChunksIn
    <3>2. x \in ChunksIn(mem, a) <=> x \in S /\ a \in S /\ x >= a  BY DEF ChunksIn
    <3>3. CASE x \notin S  BY <1>2, <3>1, <3>2, <3>3
    <3>4. CASE x \in S
      <4>1. x \in Nat /\ x < heap_end  BY <1>0, <2>1, <3>4
      <4>2. x > ptr => a \in S  BY <2>1, <2>2, <2>6, <3>4, <4>1
      <4> QED  BY <1>0, <2>2, <2>6, <3>1, <3>2, <3>4, <4>1, <4>2
    <3> QED  BY <3>3, <3>4
  <2> QED  BY <2>4, <2>5, <2>7
<1> QED  BY <1>1, <1>2

LEMMA ChunksExact ==
  ASSUME Laid(mem, heap_end)
  PROVE  Chunks = Starts(mem)
<1> DEFINE C == ChunksFrom
           G == [ptr \in 0..Limit |-> ChunksIn(mem, ptr)]
<1>0. Limit \in Nat  BY LimitFacts
<1>1. G = [ptr \in 0..Limit |-> StepOf(G, ptr)]
  <2>1. \A x \in 0..Limit : G[x] = ChunksIn(mem, x)  OBVIOUS
  <2> HIDE DEF G
  <2>2. \A x \in 0..Limit : StepOf(G, x) = ChunksIn(mem, x)  BY <2>1, ChunksInStep
  <2> QED  BY <2>2 DEF G
<1>2. C = CHOOSE f : f = [ptr \in 0..Limit |-> StepOf(f, ptr)]
  BY DEF ChunksFrom, StepOf
<1>3. C = [ptr \in 0..Limit |-> StepOf(C, ptr)]
  <2> HIDE DEF C, G
  <2> QED  BY <1>1, <1>2
<1>4. \A ptr \in 0..Limit : C[ptr] = ChunksIn(mem, ptr)
  <2> DEFINE Bad == {d \in 0..Limit : C[Limit - d] # ChunksIn(mem, Limit - d)}
  <2>1. Bad = {}
    <3> SUFFICES ASSUME Bad # {} PROVE FALSE  OBVIOUS
    <3>1. Bad \in SUBSET Nat  BY <1>0
    <3>2. PICK d \in Bad : \A y \in Bad : d <= y  BY <3>1, LeastElement
    <3>3. d \in 0..Limit /\ Limit - d \in 0..Limit  BY <1>0
    <3>4. \A x \in 0..Limit : x > Limit - d => C[x] = ChunksIn(mem, x)
      <4> SUFFICES ASSUME NEW x \in 0..Limit, x > Limit - d
                   PROVE  C[x] = ChunksIn(mem, x)
        OBVIOUS
      <4>1. Limit - x \in 0..Limit /\ Limit - x < d /\ Limit - (Limit - x) = x
        BY <1>0, <3>3
      <4>2. Limit - x \notin Bad
        <5> HIDE DEF Bad
        <5> QED  BY <1>0, <3>1, <3>2, <4>1
      <4> QED  BY <4>1, <4>2
    <3>5. C[Limit - d] = StepOf(C, Limit - d)
      <4> HIDE DEF C
      <4> QED  BY <1>3, <3>3
    <3>6. StepOf(C, Limit - d) = ChunksIn(mem, Limit - d)
      <4> HIDE DEF C
      <4> QED  BY <3>3, <3>4, ChunksInStep
    <3>7. C[Limit - d] # ChunksIn(mem, Limit - d)  OBVIOUS
    <3> QED  BY <3>5, <3>6, <3>7
  <2>2. ASSUME NEW ptr \in 0..Limit PROVE C[ptr] = ChunksIn(mem, ptr)
    <3>1. Limit - ptr \in 0..Limit /\ Limit - (Limit - ptr) = ptr  BY <1>0
    <3>2. Limit - ptr \notin Bad  BY <2>1
    <3> QED  BY <3>1, <3>2
  <2> QED  BY <2>2
<1>5. Chunks = ChunksIn(mem, 0)  BY <1>0, <1>4 DEF Chunks
<1>6. ChunksIn(mem, 0) = Starts(mem)
  <2>1. Starts(mem) \subseteq Nat /\ \A x \in Starts(mem) : x < heap_end
    BY LaidFacts
  <2>2. Starts(mem) # {} => 0 \in Starts(mem)
    <3>1. heap_end \in Nat /\ (heap_end > 0 => 0 \in Starts(mem))
      BY LaidFacts DEF Laid, Tiles
    <3> QED  BY <2>1, <3>1
  <2> QED  BY <2>1, <2>2 DEF ChunksIn
<1> QED  BY <1>5, <1>6

-----------------------------------------------------------------------------
(* malloc.                                                                 *)

\* What an operation has to keep, and which pointers it may change.
Kept == Laid(mem, heap_end)' /\ NoTwoFree(mem, -1)' /\ Handed(mem, owned)'

LEMMA BestFits ==
  ASSUME Laid(mem, heap_end), NEW n \in Nat, Fitting(n) # {}
  PROVE  /\ Best(n) \in Starts(mem) /\ mem[Best(n)].free
         /\ mem[Best(n)].size >= n
<1> DEFINE F == Fitting(n)
           sizes == {mem[p].size : p \in F}
           least == Min(sizes)
           B == {p \in F : mem[p].size = least}
<1>1. F = {p \in Starts(mem) : mem[p].free /\ mem[p].size >= n}
  BY ChunksExact DEF Fitting
<1>2. \A p \in Starts(mem) : p \in Nat /\ mem[p].size \in Nat  BY LaidFacts
<1>3. Best(n) = Min(B)  BY DEF Best
<1>4. F # {} /\ F \subseteq Starts(mem)  BY <1>1
<1> HIDE DEF F
<1>5. sizes \in SUBSET Nat  BY <1>2, <1>4
<1>6. sizes # {}  BY <1>4
<1>7. least \in sizes
  <2> HIDE DEF sizes
  <2> QED  BY <1>5, <1>6, MinIsSmallest
<1> HIDE DEF least
<1>8. B # {}  BY <1>7
<1>9. B \in SUBSET Nat  BY <1>2, <1>4
<1>10. B \subseteq F  OBVIOUS
<1> HIDE DEF B
<1>11. Min(B) \in F  BY <1>8, <1>9, <1>10, MinIsSmallest
<1> QED  BY <1>1, <1>3, <1>11

LEMMA TakeKeeps ==
  ASSUME Laid(mem, heap_end), NoTwoFree(mem, -1), Handed(mem, owned),
         NEW request \in Requests, NEW p, NEW size,
         size >= aligned_size(request), Fits(mem, heap_end, p, size, heap_end'),
         \A x \in Starts(mem) : ~(p < x /\ x < p + size + Overhead),
         ~FreeAt(mem, p + size + Overhead),
         Take(p, aligned_size(request), request, size)
  PROVE  Kept /\ DOMAIN owned \subseteq DOMAIN owned'
<1> DEFINE n == aligned_size(request)
           m2 == Carved(p, n, size)
           e2 == heap_end'
<1>1. request \in Nat /\ n \in Nat  BY RequestsAssumption, SizesAssumption, AlignedType
<1>2. mem' = m2 /\ Received(owned, owned', p, request)  BY DEF Take, Received
<1>3. p \in Nat  BY FitsFacts
<1> HIDE DEF n
<1>4. Laid(m2, e2) /\ NoTwoFree(m2, -1) /\ HandsOut(mem, m2, p, n)
  BY <1>1, CarvedKeeps DEF n
<1> HIDE DEF m2
<1>5. Handed(m2, owned')  BY <1>1, <1>2, <1>3, <1>4, HandedTake DEF n
<1>6. Kept  BY <1>2, <1>4, <1>5 DEF Kept
<1>7. DOMAIN owned \subseteq DOMAIN owned'  BY <1>2 DEF Received
<1> QED  BY <1>6, <1>7

LEMMA MallocBestKeeps ==
  ASSUME Inv, NEW request \in Requests, MallocBest(request)
  PROVE  Kept /\ DOMAIN owned \subseteq DOMAIN owned' /\ panicked' = panicked
<1> DEFINE n == aligned_size(request)
           p == Best(n)
           size == mem[p].size
           q == p + size + Overhead
           S == Starts(mem)
<1>1. n \in Nat  BY RequestsAssumption, SizesAssumption, AlignedType
<1>2. /\ Fitting(n) # {} /\ Take(p, n, request, size)
      /\ heap_end' = heap_end /\ panicked' = panicked
  BY DEF MallocBest
<1>3. Laid(mem, heap_end) /\ NoTwoFree(mem, -1) /\ Handed(mem, owned)  BY DEF Inv
<1> HIDE DEF n
<1>4. p \in S /\ mem[p].free /\ size >= n  BY <1>1, <1>2, <1>3, BestFits
<1> HIDE DEF p
<1>5. /\ p \in Nat /\ size \in Nat /\ q \in S \cup {heap_end} /\ heap_end \in Nat
      /\ heap_end <= Limit /\ After(Sizes(mem), p) = q /\ Frees(mem)[p] = mem[p].free
      /\ S \subseteq Nat /\ \A x \in S : Frees(mem)[x] = mem[x].free
  BY <1>3, <1>4, LaidFacts
<1> HIDE DEF size
<1>6. Fits(mem, heap_end, p, size, heap_end')
  BY <1>2, <1>4, <1>5 DEF Fits
<1>7. \A x \in S : ~(p < x /\ x < q)
  <2> SUFFICES ASSUME NEW x \in S, x > p, x < q PROVE FALSE  BY <1>5
  <2>1. Tiles(S, Sizes(mem), heap_end)  BY <1>3 DEF Laid
  <2>2. q <= x  BY <1>4, <1>5, <2>1, TilesOrder
  <2>3. q \in Nat /\ x \in Nat  BY <1>5
  <2> HIDE DEF q
  <2> QED  BY <2>2, <2>3
<1>8. ~FreeAt(mem, q)
  <2> SUFFICES ASSUME q \in S, mem[q].free PROVE FALSE  BY DEF FreeAt
  <2>1. Apart(S, Sizes(mem), Frees(mem), -1)  BY <1>3 DEF NoTwoFree
  <2>2. q \in Nat  BY <1>5
  <2>3. q \in S \ {-1}  BY <2>2
  <2> HIDE DEF q
  <2> QED  BY <1>4, <1>5, <2>1, <2>3 DEF Apart
<1> QED  BY <1>2, <1>3, <1>4, <1>6, <1>7, <1>8, TakeKeeps DEF n

LEMMA TimesAtLeast ==
  ASSUME NEW a \in Nat, NEW b \in Nat \ {0}
  PROVE  a * b \in Nat /\ a * b >= a
<1>1. a * (b - 1) >= 0  OBVIOUS
<1>2. a * (b - 1) = a * b - a /\ a * b \in Int  OBVIOUS
<1> DEFINE c == a * b
<1>3. c \in Int /\ c - a >= 0  BY <1>1, <1>2
<1> HIDE DEF c
<1>4. c \in Nat /\ c >= a  BY <1>3
<1> QED  BY <1>4 DEF c

\* The new pages are enough.
LEMMA NewPagesEnough ==
  ASSUME NEW n \in Nat, NEW fs \in Nat
  PROVE  /\ NewPages(n, fs) * Page \in Nat
         /\ fs + NewPages(n, fs) * Page >= n + Overhead
<1> DEFINE K == {k \in 0..(n + Overhead) : fs + k * Page >= n + Overhead}
           a == n + Overhead
<1>1. Overhead \in Nat /\ Page \in Nat \ {0}  BY OverheadFacts, LimitFacts
<1>2. a \in Nat /\ a \in 0..(n + Overhead) /\ a = n + Overhead  BY <1>1
<1> HIDE DEF a
<1>3. a * Page \in Nat /\ a * Page >= a  BY <1>1, <1>2, TimesAtLeast
<1>4. fs + a * Page >= n + Overhead  BY <1>2, <1>3
<1>5. a \in K  BY <1>2, <1>4
<1>6. K \in SUBSET Nat  BY <1>1
<1>7. NewPages(n, fs) = Min(K)  BY DEF NewPages
<1>8. Min(K) \in K
  <2> HIDE DEF K
  <2> QED  BY <1>5, <1>6, MinIsSmallest
<1>9. Min(K) \in Nat /\ fs + Min(K) * Page >= n + Overhead  BY <1>1, <1>6, <1>8
<1> DEFINE k == Min(K)
<1> HIDE DEF k, K
<1>10. k * Page \in Nat  BY <1>1, <1>9, TimesAtLeast DEF k
<1> QED  BY <1>7, <1>9, <1>10 DEF k

\* New pages go behind everything but a free chunk at the end.
LEMMA InsertionFacts ==
  ASSUME Laid(mem, heap_end)
  PROVE  /\ InsertionPoint \in Starts(mem) \cup {heap_end}
         /\ \A x \in Starts(mem) : x <= InsertionPoint
<1> DEFINE S == Starts(mem)
           last == Max(S)
<1>1. /\ S \subseteq Nat /\ heap_end \in Nat /\ \A x \in S : x < heap_end
  BY LaidFacts
<1>2. InsertionPoint = IF heap_end > 0 /\ mem[last].free THEN last ELSE heap_end
  BY ChunksExact DEF InsertionPoint
<1>3. CASE InsertionPoint = heap_end  BY <1>1, <1>3
<1>4. CASE heap_end > 0 /\ InsertionPoint = last
  <2>1. 0 \in S  BY <1>4 DEF Laid, Tiles
  <2>2. S \in SUBSET (0..heap_end)  BY <1>1
  <2> HIDE DEF S
  <2>3. last \in S /\ \A x \in S : x <= last  BY <1>1, <2>1, <2>2, MaxIsLargest
  <2> QED  BY <1>4, <2>3 DEF S
<1> QED  BY <1>2, <1>3, <1>4

LEMMA MallocGrowKeeps ==
  ASSUME Inv, NEW request \in Requests, MallocGrow(request)
  PROVE  /\ Kept /\ DOMAIN owned \subseteq DOMAIN owned'
         /\ panicked' \in {"no", "memory"}
<1> DEFINE n == aligned_size(request)
           p == InsertionPoint
           w == NewPages(n, heap_end - p) * Page
           end == heap_end + w
           size == end - p - Overhead
           S == Starts(mem)
<1>1. n \in Nat /\ Overhead \in Nat
  BY RequestsAssumption, SizesAssumption, AlignedType, OverheadFacts
<1>2. Laid(mem, heap_end) /\ NoTwoFree(mem, -1) /\ Handed(mem, owned)
      /\ panicked \in {"no", "memory"}
  BY DEF Inv
<1>3. \/ end <= Limit /\ heap_end' = end /\ Take(p, n, request, size)
         /\ panicked' = panicked
      \/ panicked' = "memory" /\ mem' = mem /\ heap_end' = heap_end /\ owned' = owned
  BY DEF MallocGrow
<1> HIDE DEF n
<1>4. /\ S \subseteq Nat /\ heap_end \in Nat /\ \A x \in S : x < heap_end
  BY <1>2, LaidFacts
<1>5. p \in S \cup {heap_end} /\ \A x \in S : x <= p  BY <1>2, InsertionFacts
<1> HIDE DEF p
<1>6. p \in Nat /\ heap_end - p \in Nat  BY <1>4, <1>5
<1>7. w \in Nat /\ heap_end - p + w >= n + Overhead
  BY <1>1, <1>6, NewPagesEnough
<1> HIDE DEF w
<1>8. /\ end \in Nat /\ size \in Nat /\ size >= n /\ p + size + Overhead = end
      /\ end >= heap_end
  BY <1>1, <1>4, <1>6, <1>7
<1> HIDE DEF end, size
<1>9. CASE end <= Limit /\ heap_end' = end /\ Take(p, n, request, size)
           /\ panicked' = panicked
  <2>1. Fits(mem, heap_end, p, size, heap_end')  BY <1>5, <1>8, <1>9 DEF Fits
  <2>2. \A x \in S : ~(p < x /\ x < p + size + Overhead)  BY <1>4, <1>5, <1>6
  <2>3. ~FreeAt(mem, p + size + Overhead)  BY <1>4, <1>8 DEF FreeAt
  <2> QED  BY <1>2, <1>8, <1>9, <2>1, <2>2, <2>3, TakeKeeps DEF n
<1>10. CASE panicked' = "memory" /\ mem' = mem /\ heap_end' = heap_end /\ owned' = owned
  <2>1. Kept  BY <1>2, <1>10 DEF Kept
  <2> QED  BY <1>10, <2>1
<1> QED  BY <1>3, <1>9, <1>10

LEMMA MallocKeeps ==
  ASSUME Inv, NEW request \in Requests, malloc(request)
  PROVE  /\ Kept /\ DOMAIN owned \subseteq DOMAIN owned'
         /\ panicked' \in {"no", "memory"}
<1>1. CASE MallocBest(request)
  <2>1. Kept /\ DOMAIN owned \subseteq DOMAIN owned' /\ panicked' = panicked
    BY <1>1, MallocBestKeeps
  <2> QED  BY <2>1 DEF Inv
<1>2. CASE MallocGrow(request)  BY <1>2, MallocGrowKeeps
<1> QED  BY <1>1, <1>2 DEF malloc

-----------------------------------------------------------------------------
(* free.                                                                   *)

\* p becomes free, perhaps joined with others, and nothing else changes hands.
TakesBack(m, m2, p) ==
  /\ \A x : x \in Used(m2) <=> x \in Used(m) /\ x # p
  /\ \A x \in Used(m2) : m2[x].size = m[x].size

LEMMA SetFree ==
  ASSUME NEW m, NEW e, Laid(m, e), NoTwoFree(m, -1), NEW p \in Used(m),
         ~FreeAt(m, p + m[p].size + Overhead),
         NEW m2, m2 = [m EXCEPT ![p].free = TRUE]
  PROVE  /\ Laid(m2, e) /\ NoTwoFree(m2, p) /\ p \in Starts(m2) /\ m2[p].free
         /\ TakesBack(m, m2, p)
<1> DEFINE S == Starts(m)
<1>1. /\ m \in [Addresses -> Cells] /\ S \subseteq Nat
      /\ \A x \in S : /\ x \in Addresses /\ m[x] \in StartMarkers
                      /\ m[x].size \in Nat
                      /\ Sizes(m)[x] = m[x].size /\ Frees(m)[x] = m[x].free
                      /\ After(Sizes(m), x) = x + m[x].size + Overhead
                      /\ m[x + start_size + m[x].size] = End(m[x].size)
  BY LaidFacts
<1>2. p \in S /\ ~m[p].free  BY DEF Used
<1>3. p \in Addresses /\ m[p] \in StartMarkers  BY <1>1, <1>2
<1> DEFINE d == [m[p] EXCEPT !.free = TRUE]
<1>4. m2 = [m EXCEPT ![p] = d]  OBVIOUS
<1>5. d \in StartMarkers /\ d.size = m[p].size /\ d.free = TRUE  BY <1>3 DEF StartMarkers
<1>6. d \in Cells  BY <1>5 DEF Cells
<1> HIDE DEF d
<1>7. m2 \in [Addresses -> Cells]  BY <1>1, <1>3, <1>4, <1>6
<1>8. /\ m2[p] = d
      /\ \A a \in Addresses : a # p => m2[a] = m[a]
  BY <1>1, <1>3, <1>4
<1>9. Starts(m2) = S  BY <1>1, <1>3, <1>5, <1>8 DEF Starts
<1>10. \A x \in S : m2[x].size = m[x].size  BY <1>1, <1>5, <1>8
<1>11. Sizes(m2) = Sizes(m)  BY <1>9, <1>10 DEF Sizes
<1>12. Frees(m2)[p] = TRUE /\ \A x \in S : x # p => Frees(m2)[x] = Frees(m)[x]
  <2>1. \A x \in S : Frees(m2)[x] = m2[x].free  BY <1>9 DEF Frees
  <2> QED  BY <1>1, <1>2, <1>5, <1>8, <2>1
<1>13. Ends(m2)
  <2> SUFFICES ASSUME NEW x \in S
               PROVE  m2[x + start_size + m2[x].size] = End(m2[x].size)
    BY <1>9 DEF Ends
  <2> DEFINE b == x + start_size + m[x].size
  <2>1. m[b] = End(m[x].size) /\ m[x].size \in Nat  BY <1>1
  <2>2. b \in Addresses
    <3>1. x \in Nat /\ x + m[x].size + Overhead <= e /\ e <= Limit /\ e \in Nat
      BY LaidFacts
    <3>2. /\ start_size \in Nat \ {0} /\ Overhead = start_size + start_size
          /\ Limit \in Nat /\ \A a : a \in Addresses <=> a \in Nat /\ a < Limit
      BY OverheadFacts, LimitFacts
    <3>3. b \in Nat /\ b < Limit  BY <2>1, <3>1, <3>2
    <3> QED  BY <3>2, <3>3
  <2> HIDE DEF b
  <2>3. b # p  BY <1>3, <2>1, MarkerFacts
  <2>4. m2[b] = m[b]  BY <1>8, <2>2, <2>3
  <2> QED  BY <1>10, <2>1, <2>4 DEF b
<1>14. Laid(m2, e)  BY <1>7, <1>9, <1>11, <1>13 DEF Laid
<1>15. Apart(S, Sizes(m), Frees(m2), p)
  <2>1. Apart(S, Sizes(m), Frees(m), -1)  BY DEF NoTwoFree
  <2> SUFFICES ASSUME NEW x \in S, After(Sizes(m), x) \in S \ {p}
               PROVE  ~(Frees(m2)[x] /\ Frees(m2)[After(Sizes(m), x)])
    BY DEF Apart
  <2> DEFINE a == After(Sizes(m), x)
  <2>2. a \in S /\ a # p /\ a # -1  BY <1>1
  <2>3. Frees(m2)[a] = m[a].free /\ Frees(m)[a] = m[a].free  BY <1>1, <1>12, <2>2
  <2>4. CASE x = p
    <3>1. a = p + m[p].size + Overhead  BY <1>1, <1>2, <2>4
    <3>2. ~m[a].free
      <4> HIDE DEF a
      <4> QED  BY <2>2, <3>1 DEF FreeAt
    <3> QED  BY <2>3, <3>2
  <2>5. CASE x # p
    <3>1. ~(Frees(m)[x] /\ Frees(m)[a])  BY <2>1, <2>2 DEF Apart
    <3> QED  BY <1>12, <2>3, <2>5, <3>1
  <2> QED  BY <2>4, <2>5
<1>16. NoTwoFree(m2, p)  BY <1>9, <1>11, <1>15 DEF NoTwoFree
<1>17. m2[p].free  BY <1>5, <1>8
<1>18. TakesBack(m, m2, p)
  <2>1. ASSUME NEW x PROVE x \in Used(m2) <=> x \in Used(m) /\ x # p
    <3>1. CASE x = p  BY <1>17, <3>1 DEF Used
    <3>2. CASE x # p
      <4>1. x \in S => m2[x] = m[x]  BY <1>1, <1>8, <3>2
      <4> QED  BY <1>9, <3>2, <4>1 DEF Used
    <3> QED  BY <3>1, <3>2
  <2>2. \A x \in Used(m2) : m2[x].size = m[x].size  BY <1>9, <1>10 DEF Used
  <2> QED  BY <2>1, <2>2 DEF TakesBack
<1> QED  BY <1>2, <1>9, <1>14, <1>16, <1>17, <1>18

\* The chunk p is joined with the free one behind it.
LEMMA JoinAfter ==
  ASSUME NEW m, NEW e, Laid(m, e), NoTwoFree(m, -1), NEW p \in Used(m),
         NEW a, a = p + m[p].size + Overhead, FreeAt(m, a),
         NEW m2, m2 = mark_chunck(m, p, m[p].size + m[a].size + Overhead, TRUE)
  PROVE  /\ Laid(m2, e) /\ NoTwoFree(m2, p) /\ p \in Starts(m2) /\ m2[p].free
         /\ TakesBack(m, m2, p)
<1> DEFINE S == Starts(m)
           S2 == Starts(m2)
           n == m[p].size + m[a].size + Overhead
           q == p + n + Overhead
           f == TRUE
<1>1. /\ m \in [Addresses -> Cells] /\ S \subseteq Nat /\ e \in Nat /\ e <= Limit
      /\ \A x \in S : /\ m[x].size \in Nat
                      /\ Frees(m)[x] = m[x].free
                      /\ After(Sizes(m), x) = x + m[x].size + Overhead
                      /\ x + m[x].size + Overhead \in S \cup {e}
      /\ Tiles(S, Sizes(m), e)
  BY LaidFacts DEF Laid
<1>2. p \in S /\ a \in S /\ m[a].free /\ Overhead \in Nat \ {0}
  BY OverheadFacts DEF Used, FreeAt
<1>3. /\ n \in Nat /\ p \in Nat /\ a \in Nat /\ q = a + m[a].size + Overhead /\ q \in Nat
      /\ q \in S \cup {e} /\ p < a /\ a < q /\ q = p + n + Overhead
      /\ After(Sizes(m), p) = a /\ After(Sizes(m), a) = q
  <2>1. /\ m[p].size \in Nat /\ m[a].size \in Nat /\ p \in Nat /\ a \in Nat
        /\ a + m[a].size + Overhead \in S \cup {e}
        /\ After(Sizes(m), p) = p + m[p].size + Overhead
        /\ After(Sizes(m), a) = a + m[a].size + Overhead
    BY <1>1, <1>2
  <2> DEFINE s == m[p].size
             r == m[a].size
  <2>2. /\ s \in Nat /\ r \in Nat /\ p \in Nat /\ Overhead \in Nat \ {0}
        /\ a = p + s + Overhead /\ n = s + r + Overhead /\ q = p + n + Overhead
    BY <1>2, <2>1
  <2> HIDE DEF s, r, n, q
  <2>3. n \in Nat /\ q \in Nat /\ q = a + r + Overhead /\ p < a /\ a < q  BY ONLY <2>2
  <2> QED  BY <2>1, <2>2, <2>3 DEF r, s
<1>4. m2 = mark_chunck(m, p, n, f) /\ f \in BOOLEAN /\ f  OBVIOUS
<1> HIDE DEF n, q, f
<1>5. Fits(m, e, p, n, e)
  <2>1. /\ p \in Starts(m) /\ n \in Nat /\ e \in Nat /\ e <= Limit
        /\ p + n + Overhead \in Starts(m) \cup {e}
    BY <1>1, <1>2, <1>3
  <2> QED  BY ONLY <2>1 DEF Fits
<1>6. p + n + Overhead <= Limit  BY <1>5, FitsFacts
<1>7. Written(m, m2, p, n, f)
  <2>1. m \in [Addresses -> Cells] /\ p \in Nat /\ n \in Nat  BY <1>1, <1>3
  <2>2. m2 = mark_chunck(m, p, n, f) /\ f \in BOOLEAN  BY <1>4
  <2> QED  BY ONLY <1>6, <2>1, <2>2, MarkWrites
<1>8. Rewritten(m, m2, p, n, f)
  <2>1. f \in BOOLEAN  BY <1>4
  <2> QED  BY <1>1, <1>3, <1>6, <1>7, <2>1, WrittenStarts
<1>9. Laid(m2, e) /\ Joins(S, Sizes(m), e, p, n, S2, Sizes(m2), e)
  <2>1. f \in BOOLEAN  BY <1>4
  <2> QED  BY <1>5, <1>7, <2>1, JoinLaid
<1>10. /\ S2 = {x \in S : x < p \/ x >= q} \cup {p}
       /\ m2[p].size = n /\ m2[p].free = f
       /\ \A x \in S2 : x # p => m2[x] = m[x]
  BY <1>3, <1>8 DEF Rewritten
<1>11. Apart(S2, Sizes(m2), Frees(m2), p)
  <2>1. Apart(S, Sizes(m), Frees(m), -1)  BY DEF NoTwoFree
  <2>2. -1 \notin S2
    <3>1. S2 \subseteq S \cup {p}  BY <1>10
    <3>2. S \subseteq Nat /\ p \in Nat  BY <1>1, <1>3
    <3> HIDE DEF S, S2
    <3> QED  BY ONLY <3>1, <3>2
  <2>3. \A x \in S2 : x # p => Frees(m2)[x] = Frees(m)[x]
    <3>1. \A x \in S2 : Frees(m2)[x] = m2[x].free  BY DEF Frees
    <3>2. \A x \in S : Frees(m)[x] = m[x].free  BY DEF Frees
    <3>3. \A x \in S2 : x # p => x \in S /\ m2[x] = m[x]  BY <1>10
    <3> QED  BY ONLY <3>1, <3>2, <3>3
  <2>4. q \in S => ~Frees(m)[q]
    <3>0. q \in Nat  BY <1>3
    <3>1. q # -1  BY ONLY <3>0
    <3> QED  BY <1>1, <1>2, <1>3, <2>1, <3>1 DEF Apart
  <2>5. Joinable(S, Frees(m), p, p + n + Overhead, -1, S2, Frees(m2))
    BY <1>3, <2>2, <2>3, <2>4 DEF Joinable
  <2>6. Tiles(S, Sizes(m), e)  BY <1>1
  <2> HIDE DEF S, S2
  <2> QED  BY ONLY <1>9, <2>1, <2>5, <2>6, JoinApart
<1>12. TakesBack(m, m2, p)
  <2>1. ASSUME NEW x PROVE x \in Used(m2) <=> x \in Used(m) /\ x # p
    <3>1. CASE x = p  BY <1>4, <1>10, <3>1 DEF Used
    <3>2. CASE x # p
      <4>1. x \in S2 => m2[x] = m[x] /\ x \in S  BY <1>10, <3>2
      <4>2. x \in Used(m) => x \in S2
        <5> SUFFICES ASSUME x \in Used(m) PROVE x \in S2  OBVIOUS
        <5>1. x \in S /\ ~m[x].free  BY DEF Used
        <5>2. x \in Nat /\ x # a  BY <1>1, <1>2, <5>1
        <5>3. Tiles(S, Sizes(m), e) /\ p \in S /\ a \in S /\ x \in S
              /\ After(Sizes(m), p) = a /\ After(Sizes(m), a) = q
              /\ x \in Nat /\ a \in Nat /\ q \in Nat
          BY <1>1, <1>2, <1>3, <5>1
        <5>4. (x > p => x >= a) /\ (x > a => x >= q)  BY ONLY <5>3, TilesOrder
        <5>5. p \in Nat /\ a \in Nat /\ q \in Nat /\ p < a /\ a < q  BY <1>3
        <5>6. x < p \/ x >= q  BY ONLY <3>2, <5>2, <5>4, <5>5
        <5> QED  BY <1>10, <5>1, <5>6
      <4> QED  BY <3>2, <4>1, <4>2 DEF Used
    <3> QED  BY <3>1, <3>2
  <2>2. ASSUME NEW x \in Used(m2) PROVE m2[x].size = m[x].size
    <3>1. x \in S2 /\ x # p  BY <2>1 DEF Used
    <3> QED  BY <1>10, <3>1
  <2> QED  BY <2>1, <2>2 DEF TakesBack
<1>13. p \in S2 /\ m2[p].free  BY <1>4, <1>10
<1> QED  BY <1>9, <1>11, <1>12, <1>13 DEF NoTwoFree

LEMMA MergedAfterKeeps ==
  ASSUME Laid(mem, heap_end), NoTwoFree(mem, -1), NEW p \in Used(mem)
  PROVE  LET m2 == MergedAfter(p) IN
         /\ Laid(m2, heap_end) /\ NoTwoFree(m2, p) /\ p \in Starts(m2) /\ m2[p].free
         /\ TakesBack(mem, m2, p)
<1> DEFINE a == p + mem[p].size + Overhead
           m2 == MergedAfter(p)
<1>1. p \in Starts(mem) /\ a \in Starts(mem) \cup {heap_end} /\ heap_end \in Nat
      /\ \A x \in Starts(mem) : x \in Nat /\ x < heap_end
  BY LaidFacts DEF Used
<1>2. a < heap_end <=> a \in Starts(mem)
  <2> HIDE DEF a
  <2> QED  BY <1>1
<1>3. CASE a < heap_end /\ mem[a].free
  <2>1. FreeAt(mem, a)  BY <1>2, <1>3 DEF FreeAt
  <2>2. m2 = mark_chunck(mem, p, mem[p].size + mem[a].size + Overhead, TRUE)
    BY <1>3 DEF MergedAfter
  <2>3. a = p + mem[p].size + Overhead  OBVIOUS
  <2> HIDE DEF m2, a
  <2> QED  BY <2>1, <2>2, <2>3, JoinAfter DEF m2
<1>4. CASE ~(a < heap_end /\ mem[a].free)
  <2>1. ~FreeAt(mem, a)  BY <1>2, <1>4 DEF FreeAt
  <2>2. m2 = [mem EXCEPT ![p].free = TRUE]  BY <1>4 DEF MergedAfter
  <2>3. a = p + mem[p].size + Overhead  OBVIOUS
  <2> HIDE DEF m2
  <2> QED  BY <2>1, <2>2, SetFree DEF m2
<1> QED  BY <1>3, <1>4

\* The free chunk p is joined with the free one before it.
LEMMA JoinBefore ==
  ASSUME NEW m, NEW e, Laid(m, e), NEW p \in Starts(m), m[p].free, NoTwoFree(m, p),
         NEW y \in Starts(m), y + m[y].size + Overhead = p, m[y].free,
         NEW m2, m2 = mark_chunck(m, y, m[p].size + m[y].size + Overhead, TRUE)
  PROVE  Laid(m2, e) /\ NoTwoFree(m2, -1) /\ TakesBack(m, m2, p)
<1> DEFINE S == Starts(m)
           S2 == Starts(m2)
           n == m[p].size + m[y].size + Overhead
           q == y + n + Overhead
           f == TRUE
<1>1. /\ m \in [Addresses -> Cells] /\ S \subseteq Nat /\ e \in Nat /\ e <= Limit
      /\ \A x \in S : /\ m[x].size \in Nat
                      /\ Frees(m)[x] = m[x].free
                      /\ After(Sizes(m), x) = x + m[x].size + Overhead
                      /\ x + m[x].size + Overhead \in S \cup {e}
      /\ Tiles(S, Sizes(m), e)
  BY LaidFacts DEF Laid
<1>2. p \in S /\ y \in S /\ Overhead \in Nat \ {0}  BY OverheadFacts
<1>3. /\ n \in Nat /\ p \in Nat /\ y \in Nat /\ q = p + m[p].size + Overhead /\ q \in Nat
      /\ q \in S \cup {e} /\ y < p /\ p < q /\ q = y + n + Overhead
      /\ After(Sizes(m), p) = q /\ After(Sizes(m), y) = p
  <2>1. /\ m[p].size \in Nat /\ m[y].size \in Nat /\ p \in Nat /\ y \in Nat
        /\ p + m[p].size + Overhead \in S \cup {e}
        /\ After(Sizes(m), p) = p + m[p].size + Overhead
        /\ After(Sizes(m), y) = y + m[y].size + Overhead
    BY <1>1, <1>2
  <2> DEFINE s == m[p].size
             r == m[y].size
  <2>2. /\ s \in Nat /\ r \in Nat /\ y \in Nat /\ Overhead \in Nat \ {0}
        /\ p = y + r + Overhead /\ n = s + r + Overhead /\ q = y + n + Overhead
    BY <1>2, <2>1
  <2> HIDE DEF s, r, n, q
  <2>3. n \in Nat /\ q \in Nat /\ q = p + s + Overhead /\ y < p /\ p < q  BY ONLY <2>2
  <2> QED  BY <2>1, <2>2, <2>3 DEF r, s
<1>4. m2 = mark_chunck(m, y, n, f) /\ f \in BOOLEAN /\ f  OBVIOUS
<1> HIDE DEF n, q, f
<1>5. Fits(m, e, y, n, e)
  <2>1. /\ y \in Starts(m) /\ n \in Nat /\ e \in Nat /\ e <= Limit
        /\ y + n + Overhead \in Starts(m) \cup {e}
    BY <1>1, <1>2, <1>3
  <2> QED  BY ONLY <2>1 DEF Fits
<1>6. y + n + Overhead <= Limit  BY <1>5, FitsFacts
<1>7. Written(m, m2, y, n, f)
  <2>1. m \in [Addresses -> Cells] /\ y \in Nat /\ n \in Nat  BY <1>1, <1>3
  <2>2. m2 = mark_chunck(m, y, n, f) /\ f \in BOOLEAN  BY <1>4
  <2> QED  BY ONLY <1>6, <2>1, <2>2, MarkWrites
<1>8. Rewritten(m, m2, y, n, f)
  <2>1. f \in BOOLEAN  BY <1>4
  <2> QED  BY <1>1, <1>3, <1>6, <1>7, <2>1, WrittenStarts
<1>9. Laid(m2, e) /\ Joins(S, Sizes(m), e, y, n, S2, Sizes(m2), e)
  <2>1. f \in BOOLEAN  BY <1>4
  <2> QED  BY <1>5, <1>7, <2>1, JoinLaid
<1>10. /\ S2 = {x \in S : x < y \/ x >= q} \cup {y}
       /\ m2[y].size = n /\ m2[y].free = f
       /\ \A x \in S2 : x # y => m2[x] = m[x]
  BY <1>3, <1>8 DEF Rewritten
<1>11. /\ p \notin S2 /\ y \in S2
       /\ \A x \in S2 : x # y => x \in S /\ Frees(m2)[x] = Frees(m)[x]
                                 /\ After(Sizes(m2), x) = After(Sizes(m), x)
  <2>1. \A x \in S2 : Frees(m2)[x] = m2[x].free /\ Sizes(m2)[x] = m2[x].size
    BY DEF Frees, Sizes
  <2>2. \A x \in S : Frees(m)[x] = m[x].free /\ Sizes(m)[x] = m[x].size
    BY DEF Frees, Sizes
  <2>3. p \notin S2 /\ y \in S2
    <3>1. S2 = {x \in S : x < y \/ x >= q} \cup {y}  BY <1>10
    <3>2. p \in Nat /\ y \in Nat /\ q \in Nat /\ y < p /\ p < q  BY <1>3
    <3> HIDE DEF S, S2
    <3> QED  BY ONLY <3>1, <3>2
  <2>4. \A x \in S2 : x # y => x \in S /\ m2[x] = m[x]  BY <1>10
  <2>5. ASSUME NEW x \in S2, x # y
        PROVE  x \in S /\ Frees(m2)[x] = Frees(m)[x]
               /\ After(Sizes(m2), x) = After(Sizes(m), x)
    <3>1. x \in S /\ m2[x] = m[x]  BY <2>4, <2>5
    <3>2. Frees(m2)[x] = Frees(m)[x] /\ Sizes(m2)[x] = Sizes(m)[x]
      <4>1. /\ Frees(m2)[x] = m2[x].free /\ Sizes(m2)[x] = m2[x].size
            /\ Frees(m)[x] = m[x].free /\ Sizes(m)[x] = m[x].size
        BY ONLY <2>1, <2>2, <2>5, <3>1
      <4> QED  BY ONLY <3>1, <4>1
    <3> QED  BY <3>1, <3>2 DEF After
  <2> QED  BY <2>3, <2>5
<1>12. Apart(S, Sizes(m), Frees(m), p)  BY DEF NoTwoFree
<1>13. Apart(S2, Sizes(m2), Frees(m2), y)
  <2>1. q \in S => ~Frees(m)[q]
    <3>0. p \in Nat /\ q \in Nat /\ p < q  BY <1>3
    <3>1. q # p  BY ONLY <3>0
    <3> QED  BY <1>1, <1>2, <1>3, <1>12, <3>1 DEF Apart
  <2>2. Joinable(S, Frees(m), y, y + n + Overhead, p, S2, Frees(m2))
    BY <1>3, <1>11, <2>1 DEF Joinable
  <2>3. Tiles(S, Sizes(m), e)  BY <1>1
  <2> HIDE DEF S, S2
  <2> QED  BY ONLY <1>9, <1>12, <2>2, <2>3, JoinApart
<1>14. Apart(S2, Sizes(m2), Frees(m2), -1)
  <2> SUFFICES ASSUME NEW x \in S2, After(Sizes(m2), x) \in S2
               PROVE  ~(Frees(m2)[x] /\ Frees(m2)[After(Sizes(m2), x)])
    BY DEF Apart
  <2>1. CASE After(Sizes(m2), x) # y  BY <1>13, <2>1 DEF Apart
  <2>2. CASE After(Sizes(m2), x) = y
    <3>1. x # y
      <4>1. Sizes(m2)[y] = n  BY <1>10, <1>11 DEF Sizes
      <4>2. After(Sizes(m2), y) = y + n + Overhead  BY <4>1 DEF After
      <4>3. After(Sizes(m2), y) = q
            /\ y \in Nat /\ p \in Nat /\ q \in Nat /\ y < p /\ p < q
        BY <1>3, <4>2
      <4> QED  BY ONLY <2>2, <4>3
    <3>2. x \in S /\ Frees(m2)[x] = Frees(m)[x] /\ After(Sizes(m), x) = y
      BY <1>11, <2>2, <3>1
    <3>3. y \in S \ {p} /\ Frees(m)[y]  BY <1>1, <1>2, <1>3
    <3>4. ~(Frees(m)[x] /\ Frees(m)[y])  BY <1>12, <3>2, <3>3 DEF Apart
    <3> QED  BY <3>2, <3>3, <3>4
  <2> QED  BY <2>1, <2>2
<1>15. TakesBack(m, m2, p)
  <2>1. ASSUME NEW x PROVE x \in Used(m2) <=> x \in Used(m) /\ x # p
    <3>1. CASE x = p \/ x = y  BY <1>4, <1>10, <1>11, <3>1 DEF Used
    <3>2. CASE x # p /\ x # y
      <4>1. x \in S2 => m2[x] = m[x] /\ x \in S  BY <1>10, <3>2
      <4>2. x \in S => x \in S2
        <5> SUFFICES ASSUME x \in S PROVE x \in S2  OBVIOUS
        <5>1. x \in Nat  BY <1>1
        <5>3. Tiles(S, Sizes(m), e) /\ y \in S /\ p \in S /\ x \in S
              /\ After(Sizes(m), y) = p /\ After(Sizes(m), p) = q
              /\ x \in Nat /\ p \in Nat /\ q \in Nat
          BY <1>1, <1>2, <1>3
        <5>4. (x > y => x >= p) /\ (x > p => x >= q)  BY ONLY <5>3, TilesOrder
        <5>5. y \in Nat /\ p \in Nat /\ q \in Nat /\ y < p /\ p < q  BY <1>3
        <5>6. x < y \/ x >= q  BY ONLY <3>2, <5>1, <5>4, <5>5
        <5> QED  BY <1>10, <5>6
      <4> QED  BY <3>2, <4>1, <4>2 DEF Used
    <3> QED  BY <3>1, <3>2
  <2>2. ASSUME NEW x \in Used(m2) PROVE m2[x].size = m[x].size
    <3>1. x \in S2 /\ x # y  BY <1>4, <1>10 DEF Used
    <3> QED  BY <1>10, <3>1
  <2> QED  BY <2>1, <2>2 DEF TakesBack
<1> QED  BY <1>9, <1>14, <1>15 DEF NoTwoFree

\* The chunk before p, if p is not the first.
LEMMA ChunkBefore ==
  ASSUME NEW m, NEW e, Laid(m, e), NEW p \in Starts(m)
  PROVE  /\ p - end_size > 0 <=> p # 0
         /\ p # 0 => \E y \in Starts(m) : /\ y + m[y].size + Overhead = p
                                          /\ m[p - end_size] = End(m[y].size)
                                          /\ y = p - m[p - end_size].size - Overhead
         /\ \A y, z \in Starts(m) :
              (y + m[y].size + Overhead = p /\ z + m[z].size + Overhead = p) => y = z
<1> DEFINE S == Starts(m)
<1>1. /\ S \subseteq Nat
      /\ \A x \in S : /\ m[x].size \in Nat
                      /\ After(Sizes(m), x) = x + m[x].size + Overhead
                      /\ m[x + start_size + m[x].size] = End(m[x].size)
      /\ Tiles(S, Sizes(m), e)
  BY LaidFacts DEF Laid
<1>2. /\ start_size \in Nat \ {0} /\ end_size = start_size
      /\ Overhead = start_size + start_size
  BY OverheadFacts
<1>3. p \in Nat  BY <1>1
<1>4. ASSUME p # 0
      PROVE  \E y \in S : /\ y + m[y].size + Overhead = p
                          /\ m[p - end_size] = End(m[y].size)
                          /\ y = p - m[p - end_size].size - Overhead
  <2>1. p > 0  BY <1>3, <1>4
  <2>2. PICK y \in S : After(Sizes(m), y) = p  BY <1>1, <2>1 DEF Tiles
  <2> DEFINE s == m[y].size
  <2>3. /\ y \in Nat /\ s \in Nat /\ y + s + Overhead = p
        /\ m[y + start_size + s] = End(s)
    BY <1>1, <2>2
  <2> HIDE DEF s
  <2>4. y + start_size + s = p - end_size /\ y = p - s - Overhead  BY <1>2, <1>3, <2>3
  <2>5. m[p - end_size] = End(s)  BY <2>3, <2>4
  <2>6. End(s).size = s  BY <2>3, MarkerFacts
  <2>7. y = p - m[p - end_size].size - Overhead  BY <2>4, <2>5, <2>6
  <2> QED  BY <2>3, <2>5, <2>7 DEF s
<1>5. p - end_size > 0 <=> p # 0
  <2>1. CASE p = 0  BY <1>2, <2>1
  <2>2. CASE p # 0
    <3>1. PICK y \in S : y + m[y].size + Overhead = p  BY <1>4, <2>2
    <3>2. y \in Nat /\ m[y].size \in Nat  BY <1>1
    <3> QED  BY <1>2, <1>3, <2>2, <3>1, <3>2
  <2> QED  BY <2>1, <2>2
<1>6. ASSUME NEW y \in S, NEW z \in S,
             y + m[y].size + Overhead = p, z + m[z].size + Overhead = p
      PROVE  y = z
  <2>1. /\ y \in Nat /\ z \in Nat /\ m[y].size \in Nat /\ m[z].size \in Nat
        /\ Overhead \in Nat \ {0}
    BY <1>1, <1>2
  <2>2. y < p /\ z < p  BY <1>6, <2>1
  <2>3. y < z => p <= z  BY <1>1, <1>6, TilesOrder
  <2>4. z < y => p <= y  BY <1>1, <1>6, TilesOrder
  <2> QED  BY <1>3, <2>1, <2>2, <2>3, <2>4
<1> QED  BY <1>4, <1>5, <1>6

LEMMA MergedBeforeKeeps ==
  ASSUME NEW m, NEW e, Laid(m, e), NEW p \in Starts(m), m[p].free, NoTwoFree(m, p)
  PROVE  LET m2 == MergedBefore(p, m) IN
         Laid(m2, e) /\ NoTwoFree(m2, -1) /\ TakesBack(m, m2, p)
<1> DEFINE b == p - m[p - end_size].size - Overhead
           m2 == MergedBefore(p, m)
           S == Starts(m)
<1>1. CASE p - end_size > 0 /\ m[b].free
  <2>1. PICK y \in S : y + m[y].size + Overhead = p /\ y = b
    BY <1>1, ChunkBefore
  <2>2. m2 = mark_chunck(m, y, m[p].size + m[y].size + Overhead, TRUE)
    BY <1>1, <2>1 DEF MergedBefore
  <2>3. m[y].free  BY <1>1, <2>1
  <2> HIDE DEF m2, b
  <2> QED  BY <2>1, <2>2, <2>3, JoinBefore DEF m2
<1>2. CASE ~(p - end_size > 0 /\ m[b].free)
  <2>1. m2 = m  BY <1>2 DEF MergedBefore
  <2>2. Apart(S, Sizes(m), Frees(m), p)  BY DEF NoTwoFree
  <2>3. /\ S \subseteq Nat
        /\ \A x \in S : /\ m[x].size \in Nat /\ Frees(m)[x] = m[x].free
                        /\ After(Sizes(m), x) = x + m[x].size + Overhead
    BY LaidFacts
  <2>4. Apart(S, Sizes(m), Frees(m), -1)
    <3> SUFFICES ASSUME NEW x \in S, After(Sizes(m), x) \in S
                 PROVE  ~(Frees(m)[x] /\ Frees(m)[After(Sizes(m), x)])
      BY DEF Apart
    <3>1. CASE After(Sizes(m), x) # p  BY <2>2, <3>1 DEF Apart
    <3>2. CASE After(Sizes(m), x) = p
      <4>1. x + m[x].size + Overhead = p /\ x \in Nat /\ m[x].size \in Nat
            /\ Overhead \in Nat \ {0}
        BY <2>3, <3>2, OverheadFacts
      <4>2. p # 0  BY <4>1
      <4>3. PICK y \in S : y + m[y].size + Overhead = p /\ y = b
        BY <4>2, ChunkBefore
      <4>4. x = y  BY <4>1, <4>3, ChunkBefore
      <4>5. p - end_size > 0  BY <4>2, ChunkBefore
      <4>6. ~m[x].free  BY <1>2, <4>3, <4>4, <4>5
      <4> QED  BY <2>3, <4>6
    <3> QED  BY <3>1, <3>2
  <2>5. TakesBack(m, m, p)  BY DEF TakesBack, Used
  <2>6. NoTwoFree(m, -1)  BY <2>4 DEF NoTwoFree
  <2> QED  BY <2>1, <2>5, <2>6
<1> QED  BY <1>1, <1>2

LEMMA HandedFree ==
  ASSUME NEW m, NEW e, Laid(m, e), NEW m2, NEW ow, NEW ow2, NEW p \in Nat,
         Handed(m, ow), TakesBack(m, m2, p),
         ow2 = [a \in DOMAIN ow \ {p + start_size} |-> ow[a]]
  PROVE  Handed(m2, ow2)
<1>0. start_size \in Nat /\ Used(m) \subseteq Nat  BY LaidFacts, OverheadFacts DEF Used
<1>1. /\ DOMAIN ow = {x + start_size : x \in Used(m)}
      /\ \A a \in DOMAIN ow : Wraps(ow[a]) \/ m[a - start_size].size >= ow[a]
  BY DEF Handed
<1>2. /\ \A x : x \in Used(m2) <=> x \in Used(m) /\ x # p
      /\ \A x \in Used(m2) : m2[x].size = m[x].size
  BY DEF TakesBack
<1>3. DOMAIN ow2 = DOMAIN ow \ {p + start_size} /\ \A a \in DOMAIN ow2 : ow2[a] = ow[a]
  OBVIOUS
<1>4. \A x, y \in Nat : x + start_size = y + start_size => x = y  BY <1>0
<1>5. DOMAIN ow2 = {x + start_size : x \in Used(m2)}
  <2>1. ASSUME NEW a \in DOMAIN ow2 PROVE a \in {x + start_size : x \in Used(m2)}
    <3>1. PICK x \in Used(m) : a = x + start_size  BY <1>1, <1>3
    <3>2. x # p  BY <1>3, <3>1
    <3> QED  BY <1>2, <3>1, <3>2
  <2>2. ASSUME NEW x \in Used(m2) PROVE x + start_size \in DOMAIN ow2
    <3>1. x \in Used(m) /\ x # p  BY <1>2
    <3>2. x + start_size # p + start_size  BY <1>0, <1>4, <3>1
    <3>3. x + start_size \in DOMAIN ow  BY <1>1, <3>1
    <3> QED  BY <1>3, <3>2, <3>3
  <2> QED  BY <2>1, <2>2
<1>6. ASSUME NEW a \in DOMAIN ow2
      PROVE  Wraps(ow2[a]) \/ m2[a - start_size].size >= ow2[a]
  <2>1. PICK x \in Used(m2) : a = x + start_size  BY <1>5
  <2>2. x \in Nat /\ a - start_size = x  BY <1>0, <1>2, <2>1
  <2>3. a \in DOMAIN ow /\ ow2[a] = ow[a]  BY <1>3
  <2>4. m2[x].size = m[x].size  BY <1>2
  <2> QED  BY <1>1, <2>2, <2>3, <2>4
<1> QED  BY <1>5, <1>6 DEF Handed

\* The canaries of a chunk that is handed out are alive.
LEMMA Alive ==
  ASSUME Laid(mem, heap_end), NEW p \in Starts(mem)
  PROVE  CanariesAlive(p)
<1>1. \A a : IsEnd(a) <=> a \in Addresses /\ mem[a] \in EndMarkers  BY IsStartFacts
<1>2. ASSUME NEW x \in Starts(mem) PROVE IsEnd(x + start_size + mem[x].size)
  <2> DEFINE b == x + start_size + mem[x].size
  <2>1. mem[b] = End(mem[x].size) /\ mem[x].size \in Nat /\ x \in Nat
        /\ x + mem[x].size + Overhead <= heap_end /\ heap_end <= Limit /\ heap_end \in Nat
    BY LaidFacts
  <2>2. mem[b] \in EndMarkers
    <3> HIDE DEF b
    <3> QED  BY <2>1, MarkerFacts
  <2>3. /\ start_size \in Nat \ {0} /\ Overhead = start_size + start_size
        /\ Limit \in Nat /\ \A a : a \in Addresses <=> a \in Nat /\ a < Limit
    BY OverheadFacts, LimitFacts
  <2>4. b \in Nat /\ b < Limit  BY <2>1, <2>3
  <2>5. b \in Addresses  BY <2>3, <2>4
  <2> QED  BY <1>1, <2>2, <2>5
<1>3. ASSUME p - end_size > 0 PROVE IsEnd(p - end_size)
  <2>1. p # 0  BY <1>3, ChunkBefore
  <2>2. PICK y \in Starts(mem) : y + mem[y].size + Overhead = p  BY <2>1, ChunkBefore
  <2>3. IsEnd(y + start_size + mem[y].size)  BY <1>2
  <2>4. y \in Nat /\ mem[y].size \in Nat  BY LaidFacts
  <2>5. start_size \in Nat /\ end_size = start_size /\ Overhead = start_size + start_size
    BY OverheadFacts
  <2>6. y + start_size + mem[y].size = p - end_size  BY <2>2, <2>4, <2>5
  <2> QED  BY <2>3, <2>6
<1> QED  BY <1>2, <1>3 DEF CanariesAlive

LEMMA FreeKeeps ==
  ASSUME Inv, NEW ptr \in DOMAIN owned, FreeChunk(ptr)
  PROVE  Kept /\ DOMAIN owned' = DOMAIN owned \ {ptr} /\ panicked' = panicked
<1> DEFINE p == ptr - start_size
           m1 == MergedAfter(p)
           m2 == MergedBefore(p, m1)
<1>1. Laid(mem, heap_end) /\ NoTwoFree(mem, -1) /\ Handed(mem, owned)  BY DEF Inv
<1>2. p \in Used(mem) /\ p \in Nat /\ p + start_size = ptr
  <2>1. PICK x \in Used(mem) : ptr = x + start_size  BY <1>1 DEF Handed
  <2>2. x \in Nat /\ start_size \in Nat  BY <1>1, LaidFacts, OverheadFacts DEF Used
  <2>3. p = x  BY <2>1, <2>2
  <2> QED  BY <2>1, <2>2, <2>3
<1>3. p \in Starts(mem)  BY <1>2 DEF Used
<1>4. CanariesAlive(p)  BY <1>1, <1>3, Alive
<1>5. /\ mem' = m2 /\ heap_end' = heap_end /\ panicked' = panicked
      /\ owned' = [q \in DOMAIN owned \ {ptr} |-> owned[q]]
  BY <1>4 DEF FreeChunk
<1> HIDE DEF p
<1>6. /\ Laid(m1, heap_end) /\ NoTwoFree(m1, p) /\ p \in Starts(m1) /\ m1[p].free
      /\ TakesBack(mem, m1, p)
  BY <1>1, <1>2, MergedAfterKeeps
<1> HIDE DEF m1
<1>7. Laid(m2, heap_end) /\ NoTwoFree(m2, -1) /\ TakesBack(m1, m2, p)
  BY <1>6, MergedBeforeKeeps
<1> HIDE DEF m2
<1>8. TakesBack(mem, m2, p)  BY <1>6, <1>7 DEF TakesBack
<1>9. Handed(m2, owned')  BY <1>1, <1>2, <1>5, <1>8, HandedFree
<1>10. Kept  BY <1>5, <1>7, <1>9 DEF Kept
<1> QED  BY <1>5, <1>10

-----------------------------------------------------------------------------
(* The theorems.                                                           *)

LEMMA InitInv == Init => Inv
<1> SUFFICES ASSUME Init PROVE Inv  OBVIOUS
<1>1. Limit \in Nat /\ Junk \notin StartMarkers  BY LimitFacts, MarkerFacts
<1>2. mem = [a \in Addresses |-> Junk] /\ heap_end = 0 /\ DOMAIN owned = {}
      /\ moving = {} /\ panicked = "no"
  BY DEF Init
<1>3. Starts(mem) = {}  BY <1>1, <1>2 DEF Starts
<1>4. mem \in [Addresses -> Cells]  BY <1>2 DEF Cells
<1>5. Tiles({}, Sizes(mem), 0)  BY DEF Tiles
<1>6. Laid(mem, heap_end)
  <2>1. heap_end \in 0..Limit  BY <1>1, <1>2
  <2>2. Ends(mem)  BY <1>3 DEF Ends
  <2>3. Tiles(Starts(mem), Sizes(mem), heap_end)  BY <1>2, <1>3, <1>5
  <2> QED  BY ONLY <1>4, <2>1, <2>2, <2>3 DEF Laid
<1>7. NoTwoFree(mem, -1)  BY <1>3 DEF NoTwoFree, Apart
<1>8. Handed(mem, owned)  BY <1>2, <1>3 DEF Handed, Used
<1> QED  BY <1>2, <1>6, <1>7, <1>8 DEF Inv

LEMMA NextInv == Inv /\ [Next]_vars => Inv'
<1> SUFFICES ASSUME Inv, [Next]_vars PROVE Inv'  OBVIOUS
<1>0. moving \subseteq DOMAIN owned  BY DEF Inv
<1>1. CASE Malloc
  <2>1. PICK request \in Requests : malloc(request)  BY <1>1 DEF Malloc
  <2>2. moving' = moving  BY <1>1 DEF Malloc
  <2>3. Kept /\ DOMAIN owned \subseteq DOMAIN owned' /\ panicked' \in {"no", "memory"}
    BY <2>1, MallocKeeps
  <2> QED  BY <1>0, <2>2, <2>3 DEF Inv, Kept
<1>2. CASE Realloc
  <2>1. PICK request \in Requests, ptr \in DOMAIN owned \ moving :
          malloc(request) /\ moving' = moving \cup {ptr}
    BY <1>2 DEF Realloc
  <2>2. Kept /\ DOMAIN owned \subseteq DOMAIN owned' /\ panicked' \in {"no", "memory"}
    BY <2>1, MallocKeeps
  <2> QED  BY <1>0, <2>1, <2>2 DEF Inv, Kept
<1>3. CASE Free
  <2>1. PICK ptr \in DOMAIN owned \ moving : FreeChunk(ptr)  BY <1>3 DEF Free
  <2>2. moving' = moving  BY <1>3 DEF Free
  <2>3. Kept /\ DOMAIN owned' = DOMAIN owned \ {ptr} /\ panicked' = panicked
    BY <2>1, FreeKeeps
  <2> QED  BY <1>0, <2>1, <2>2, <2>3 DEF Inv, Kept
<1>4. CASE ReallocFree
  <2>1. PICK ptr \in moving : FreeChunk(ptr) /\ moving' = moving \ {ptr}
    BY <1>4 DEF ReallocFree
  <2>2. Kept /\ DOMAIN owned' = DOMAIN owned \ {ptr} /\ panicked' = panicked
    BY <1>0, <2>1, FreeKeeps
  <2> QED  BY <1>0, <2>1, <2>2 DEF Inv, Kept
<1>5. CASE UNCHANGED vars
  <2>1. mem' = mem /\ heap_end' = heap_end /\ owned' = owned /\ moving' = moving
        /\ panicked' = panicked
    BY <1>5 DEF vars
  <2> QED  BY <2>1 DEF Inv
<1> QED  BY <1>1, <1>2, <1>3, <1>4, <1>5 DEF Next

(* The invariant holds in every state: whatever malloc, free and realloc   *)
(* are called with, in any order.                                          *)
THEOREM Invariant == Spec => []Inv
  BY InitInv, NextInv, PTL DEF Spec

(* The chunks tile the heap: no sequence of splits, merges and growth      *)
(* leaves a gap, an overlap or a marker that does not agree with the other *)
(* end of its chunk.                                                       *)
THEOREM HeapTiled == Spec => []Tiled
<1>1. Inv => Tiled
  <2> SUFFICES ASSUME Inv PROVE Tiled  OBVIOUS
  <2>1. Laid(mem, heap_end)  BY DEF Inv
  <2>2. Chunks = Starts(mem)  BY <2>1, ChunksExact
  <2>3. heap_end > 0 => 0 \in Chunks  BY <2>1, <2>2 DEF Laid, Tiles
  <2>4. ASSUME NEW p \in Chunks
        PROVE  /\ mem[p].size \in 0..heap_end
               /\ NextChunk(p) \in Chunks \cup {heap_end}
               /\ IsEnd(p + start_size + mem[p].size)
               /\ mem[p + start_size + mem[p].size].size = mem[p].size
    <3>1. p \in Starts(mem)  BY <2>2
    <3>2. /\ mem[p].size \in Nat /\ p \in Nat /\ heap_end \in Nat
          /\ p + mem[p].size + Overhead \in Starts(mem) \cup {heap_end}
          /\ p + mem[p].size + Overhead <= heap_end
          /\ mem[p + start_size + mem[p].size] = End(mem[p].size)
      BY <2>1, <3>1, LaidFacts
    <3>3. IsEnd(p + start_size + mem[p].size)
      BY <2>1, <3>1, Alive DEF CanariesAlive
    <3>4. mem[p].size \in 0..heap_end  BY <3>2, OverheadFacts
    <3>5. End(mem[p].size).size = mem[p].size  BY <3>2, MarkerFacts
    <3>6. mem[p + start_size + mem[p].size].size = mem[p].size  BY <3>2, <3>5
    <3>7. NextChunk(p) \in Chunks \cup {heap_end}  BY <2>2, <3>2 DEF NextChunk
    <3> QED  BY <3>3, <3>4, <3>6, <3>7
  <2> QED  BY <2>3, <2>4 DEF Tiled
<1> QED  BY Invariant, <1>1, PTL

(* No two free chunks are side by side, after any sequence of calls.       *)
THEOREM HeapCoalesced == Spec => []Coalesced
<1>1. Inv => Coalesced
  <2> SUFFICES ASSUME Inv, NEW p \in Chunks, NEW q \in Chunks, q = NextChunk(p)
               PROVE  ~(mem[p].free /\ mem[q].free)
    BY DEF Coalesced
  <2>1. Laid(mem, heap_end) /\ Apart(Starts(mem), Sizes(mem), Frees(mem), -1)
    BY DEF Inv, NoTwoFree
  <2>2. p \in Starts(mem) /\ q \in Starts(mem)  BY <2>1, ChunksExact
  <2>3. /\ q \in Nat /\ After(Sizes(mem), p) = p + mem[p].size + Overhead
        /\ Frees(mem)[p] = mem[p].free /\ Frees(mem)[q] = mem[q].free
    BY <2>1, <2>2, LaidFacts
  <2>4. After(Sizes(mem), p) = q  BY <2>3 DEF NextChunk
  <2>5. q # -1  BY <2>3
  <2>6. ~(Frees(mem)[p] /\ Frees(mem)[q])  BY <2>1, <2>2, <2>4, <2>5 DEF Apart
  <2> QED  BY <2>3, <2>6
<1> QED  BY Invariant, <1>1, PTL

(* The chunks in use are exactly the ones malloc has returned and free has *)
(* not got back, each is large enough, and no canary of one is dead.       *)
THEOREM HeapOwned == Spec => []OwnedExact
<1>1. Inv => OwnedExact
  <2> SUFFICES ASSUME Inv PROVE OwnedExact  OBVIOUS
  <2>1. Laid(mem, heap_end) /\ Handed(mem, owned) /\ panicked \in {"no", "memory"}
    BY DEF Inv
  <2>2. {q \in Chunks : ~mem[q].free} = Used(mem)  BY <2>1, ChunksExact DEF Used
  <2>3. {p + start_size : p \in {q \in Chunks : ~mem[q].free}} = DOMAIN owned
    BY <2>1, <2>2 DEF Handed
  <2>4. \A ptr \in DOMAIN owned :
          Wraps(owned[ptr]) \/ mem[ptr - start_size].size >= owned[ptr]
    BY <2>1 DEF Handed
  <2>5. panicked # "canary"  BY <2>1
  <2> QED  BY <2>3, <2>4, <2>5 DEF OwnedExact
<1> QED  BY Invariant, <1>1, PTL

=============================================================================
