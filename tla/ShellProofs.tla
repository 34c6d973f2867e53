----------------------------- MODULE ShellProofs -----------------------------
(***************************************************************************)
(* Proofs about Tarfs, Vfs and Shell, for every archive, every table of    *)
(* open files, every size of the buffers and whatever is typed.            *)
(***************************************************************************)
EXTENDS Shell, Lemmas, SequenceTheorems

-----------------------------------------------------------------------------
(* Where a path leads.  WalkIn is Walk with the archive and the directories *)
(* as parameters.                                                           *)

LookupIn(ar, dirs, vp, nm) ==
  LET list == dirs[vp]
      found == {i \in DOMAIN list : list[i].name = nm}
      type == IF vp = root THEN DIRTYPE ELSE ar[vp].type
  IN IF vp = NULL THEN NULL
     ELSE IF type # DIRTYPE \/ found = {} THEN NULL
     ELSE list[Min(found)].vnode

WalkIn(ar, dirs, names) ==
  LET to[i \in 0..Len(names)] ==
        IF i = 0 THEN root ELSE LookupIn(ar, dirs, to[i - 1], names[i])
  IN to[Len(names)]

LEMMA WalkIsWalkIn ==
  \A names : Walk(names) = WalkIn(archive, entries, names)
  BY DEF Walk, WalkIn, node_lookup, LookupIn, Type

LEMMA WalkIsWalkInNext ==
  \A names : Walk(names)' = WalkIn(archive', entries', names)
  BY DEF Walk, WalkIn, node_lookup, LookupIn, Type

\* A directory of an archive with n headers.
IsDirectory(list, n) == list \in Seq([name : STRING, vnode : 1..n])

LEMMA LookupInTree ==
  ASSUME NEW n \in Nat, NEW ar, NEW dirs, NEW nm,
         \A vp \in 0..n : IsDirectory(dirs[vp], n),
         NEW vp \in (0..n) \cup {NULL}
  PROVE  LookupIn(ar, dirs, vp, nm) \in (0..n) \cup {NULL}
<1> DEFINE list == dirs[vp]
           found == {i \in DOMAIN list : list[i].name = nm}
<1>1. CASE vp = NULL  BY <1>1 DEF LookupIn
<1>2. CASE vp # NULL /\ found = {}  BY <1>2 DEF LookupIn
<1>3. CASE vp # NULL /\ found # {}
  <2>1. vp \in 0..n /\ IsDirectory(list, n)  BY <1>3
  <2>2. found \in SUBSET Nat  BY <2>1 DEF IsDirectory
  <2>3. Min(found) \in found  BY <1>3, <2>2, MinIsSmallest
  <2>4. found \subseteq 1..Len(list)  BY <2>1 DEF IsDirectory
  <2>5. Min(found) \in 1..Len(list)  BY <2>3, <2>4
  <2>6. list[Min(found)].vnode \in 1..n
    <3> DEFINE T == [name : STRING, vnode : 1..n]
               k == Min(found)
    <3>1. list \in Seq(T)  BY <2>1 DEF IsDirectory
    <3> HIDE DEF list, found
    <3>2. list[k] \in T
      <4> HIDE DEF T, k
      <4> QED  BY <2>5, <3>1 DEF k
    <3> QED  BY <3>2
  <2>7. list[Min(found)].vnode \in 0..n
    <3> HIDE DEF list, found
    <3> QED  BY <2>6
  <2> QED  BY <1>3, <2>7 DEF LookupIn
<1> QED  BY <1>1, <1>2, <1>3

\* The equation of WalkIn.
IsWalk(f, ar, dirs, names) ==
  f = [i \in 0..Len(names) |->
         IF i = 0 THEN root ELSE LookupIn(ar, dirs, f[i - 1], names[i])]

\* The function that WalkIn defines exists.
LEMMA WalkExists ==
  ASSUME NEW n \in Nat, NEW ar, NEW dirs, NEW names, Len(names) \in Nat,
         \A vp \in 0..n : IsDirectory(dirs[vp], n)
  PROVE  \E f : IsWalk(f, ar, dirs, names)
<1> DEFINE N == Len(names)
           V == (0..n) \cup {NULL}
           L(v, i) == LookupIn(ar, dirs, v, names[i])
           g == [i \in 1..N |-> [v \in V |-> L(v, i)]]
<1>1. \A v \in V : \A i : L(v, i) \in V  BY LookupInTree
<1> HIDE DEF L
<1>2. \A v \in V : \A i \in 1..N : g[i][v] = L(v, i)  OBVIOUS
<1>3. root \in V  BY DEF root
<1>4. PICK f : Recursion(f, root, g, N, V)
  <2>1. StepsIn(g, N, V)  BY <1>1, <1>2 DEF StepsIn
  <2> HIDE DEF g, V, N
  <2>2. N \in Nat  BY DEF N
  <2> QED  BY <1>3, <2>1, <2>2, RecursionExists
<1>5. f[0] = root /\ \A i \in 1..N : f[i] = L(f[i - 1], i)
  <2> HIDE DEF g, V
  <2>1. \A i \in 1..N : f[i - 1] \in V  BY <1>4 DEF Recursion
  <2> QED  BY <1>2, <1>4, <2>1 DEF Recursion
<1>6. f = [i \in 0..N |-> IF i = 0 THEN root ELSE L(f[i - 1], i)]
  <2> DEFINE h == [i \in 0..N |-> IF i = 0 THEN root ELSE L(f[i - 1], i)]
  <2>1. \A i \in 0..N : f[i] = h[i]  BY <1>5
  <2>2. DOMAIN f = 0..N /\ f = [i \in DOMAIN f |-> f[i]]
    BY <1>4 DEF Recursion
  <2> QED  BY <2>1, <2>2
<1> QED  BY <1>6 DEF L, IsWalk

\* A path leads to a vnode, or nowhere.
LEMMA WalkInTree ==
  ASSUME NEW n \in Nat, NEW ar, NEW dirs, NEW names, Len(names) \in Nat,
         \A vp \in 0..n : IsDirectory(dirs[vp], n)
  PROVE  WalkIn(ar, dirs, names) \in (0..n) \cup {NULL}
<1> DEFINE V == (0..n) \cup {NULL}
           N == Len(names)
           to == CHOOSE f : IsWalk(f, ar, dirs, names)
<1>1. \E f : IsWalk(f, ar, dirs, names)  BY WalkExists
<1>2. IsWalk(to, ar, dirs, names)  BY <1>1
<1>3. WalkIn(ar, dirs, names) = to[N]  BY DEF WalkIn, IsWalk
<1>4. /\ to[0] = root
      /\ \A i \in 1..N : to[i] = LookupIn(ar, dirs, to[i - 1], names[i])
  <2> HIDE DEF to
  <2> QED  BY <1>2 DEF IsWalk
<1> HIDE DEF to
<1> DEFINE Bad == {i \in 0..N : to[i] \notin V}
<1>5. Bad = {}
  <2> SUFFICES ASSUME Bad # {} PROVE FALSE  OBVIOUS
  <2>1. PICK i \in Bad : \A k \in Bad : i <= k
    <3>1. Bad \in SUBSET Nat  OBVIOUS
    <3> HIDE DEF Bad
    <3> QED  BY <3>1, LeastElement
  <2>2. i # 0  BY <1>4 DEF root
  <2>3. i - 1 \in 0..N /\ i \in 1..N /\ ~(i <= i - 1)  BY <2>2
  <2>4. to[i - 1] \in V  BY <2>1, <2>3
  <2>5. LookupIn(ar, dirs, to[i - 1], names[i]) \in V  BY <2>4, LookupInTree
  <2>6. to[i] \in V  BY <1>4, <2>3, <2>5
  <2> QED  BY <2>6
<1> QED  BY <1>3, <1>5

\* The path of the directory above.
Above(path) == SubSeq(path, 1, Len(path) - 1)

LEMMA AboveFacts ==
  ASSUME NEW r \in Seq(STRING), r # <<>>
  PROVE  /\ Len(r) \in Nat \ {0}
         /\ Above(r) \in Seq(STRING) /\ Len(Above(r)) = Len(r) - 1
         /\ \A i \in 1..(Len(r) - 1) : Above(r)[i] = r[i]
<1>1. Len(r) \in Nat /\ Len(r) # 0  BY EmptySeq
<1> DEFINE m == Len(r) - 1
<1>2. m \in 0..Len(r)  BY <1>1
<1>3. /\ SubSeq(r, 1, m) \in Seq(STRING) /\ Len(SubSeq(r, 1, m)) = m
      /\ \A i \in 1..m : SubSeq(r, 1, m)[i] = r[i]
  <2> HIDE DEF m
  <2> QED  BY <1>1, <1>2
<1> QED  BY <1>1, <1>3 DEF Above

LEMMA PrefixElements ==
  ASSUME NEW q \in Seq(STRING), NEW r \in Seq(STRING)
  PROVE  ProperPrefix(q, r) <=> Len(q) < Len(r) /\ \A i \in 1..Len(q) : r[i] = q[i]
<1> SUFFICES ASSUME Len(q) < Len(r)
             PROVE  SubSeq(r, 1, Len(q)) = q <=> \A i \in 1..Len(q) : r[i] = q[i]
  BY DEF ProperPrefix
<1> DEFINE s == SubSeq(r, 1, Len(q))
<1>1. Len(q) \in Nat /\ Len(r) \in Nat  OBVIOUS
<1>2. s \in Seq(STRING) /\ Len(s) = Len(q) /\ \A i \in 1..Len(q) : s[i] = r[i]
  BY <1>1
<1> HIDE DEF s
<1>3. ASSUME \A i \in 1..Len(q) : r[i] = q[i] PROVE s = q
  BY <1>2, <1>3, SeqEqual
<1> QED  BY <1>2, <1>3 DEF s

\* Paths by the directory above and the last name.
LEMMA PathFacts ==
  ASSUME NEW q \in Seq(STRING), NEW r \in Seq(STRING), r # <<>>
  PROVE  /\ q # <<>> /\ Above(q) = Above(r) /\ q[Len(q)] = r[Len(r)] => q = r
         /\ ProperPrefix(q, r) <=> q = Above(r) \/ ProperPrefix(q, Above(r))
         /\ ~ProperPrefix(r, Above(r)) /\ r # Above(r)
<1> DEFINE a == Above(r)
<1>1. /\ Len(r) \in Nat \ {0} /\ Len(q) \in Nat
      /\ a \in Seq(STRING) /\ Len(a) = Len(r) - 1
      /\ \A i \in 1..(Len(r) - 1) : a[i] = r[i]
  BY AboveFacts
<1>2. ASSUME q # <<>>, Above(q) = Above(r), q[Len(q)] = r[Len(r)] PROVE q = r
  <2>1. /\ Len(q) \in Nat \ {0} /\ Len(Above(q)) = Len(q) - 1
        /\ \A i \in 1..(Len(q) - 1) : Above(q)[i] = q[i]
    BY <1>2, AboveFacts
  <2> HIDE DEF a
  <2>2. Len(q) = Len(r)  BY <1>1, <1>2, <2>1 DEF a
  <2>3. ASSUME NEW i \in 1..Len(q) PROVE q[i] = r[i]
    <3>1. CASE i = Len(q)  BY <1>2, <2>2, <3>1
    <3>2. CASE i # Len(q)
      <4>1. i \in 1..(Len(q) - 1) /\ i \in 1..(Len(r) - 1)  BY <2>1, <2>2, <3>2
      <4> QED  BY <1>1, <1>2, <2>1, <4>1 DEF a
    <3> QED  BY <3>1, <3>2
  <2> QED  BY <2>2, <2>3, SeqEqual
<1> HIDE DEF a
<1>3. ProperPrefix(q, r) <=> q = a \/ ProperPrefix(q, a)
  <2>1. ProperPrefix(q, r) <=> Len(q) < Len(r) /\ \A i \in 1..Len(q) : r[i] = q[i]
    BY PrefixElements
  <2>2. ProperPrefix(q, a) <=> Len(q) < Len(a) /\ \A i \in 1..Len(q) : a[i] = q[i]
    BY <1>1, PrefixElements
  <2>3. ASSUME Len(q) = Len(a), \A i \in 1..Len(q) : a[i] = q[i] PROVE q = a
    BY <1>1, <2>3, SeqEqual
  <2>4. CASE Len(q) < Len(a)
    <3>1. \A i \in 1..Len(q) : a[i] = r[i]  BY <1>1, <2>4
    <3>2. Len(q) < Len(r) /\ q # a  BY <1>1, <2>4
    <3> QED  BY <2>1, <2>2, <2>4, <3>1, <3>2
  <2>5. CASE Len(q) = Len(a)
    <3>1. \A i \in 1..Len(q) : a[i] = r[i]  BY <1>1, <2>5
    <3>2. Len(q) < Len(r) /\ ~(Len(q) < Len(a))  BY <1>1, <2>5
    <3> QED  BY <2>1, <2>2, <2>3, <2>5, <3>1, <3>2
  <2>6. CASE Len(q) > Len(a)
    <3>1. ~(Len(q) < Len(r)) /\ ~(Len(q) < Len(a)) /\ q # a  BY <1>1, <2>6
    <3> QED  BY <2>1, <2>2, <3>1
  <2>7. Len(a) \in Nat  BY <1>1
  <2> QED  BY <1>1, <2>4, <2>5, <2>6, <2>7
<1>4. ~ProperPrefix(r, a) /\ r # a
  <2>1. ~(Len(r) < Len(a)) /\ Len(r) # Len(a)  BY <1>1
  <2> QED  BY <2>1 DEF ProperPrefix
<1> QED  BY <1>2, <1>3, <1>4 DEF a

IsTree(dirs, n) == \A vp \in 0..n : IsDirectory(dirs[vp], n)

\* A walk takes one step more than the one to the directory above.
Stepwise(ar, dirs) ==
  /\ WalkIn(ar, dirs, <<>>) = root
  /\ \A r \in Seq(STRING) \ {<<>>} :
       WalkIn(ar, dirs, r) = LookupIn(ar, dirs, WalkIn(ar, dirs, Above(r)), r[Len(r)])

LEMMA WalkSteps ==
  ASSUME NEW n \in Nat, NEW ar, NEW dirs, IsTree(dirs, n)
  PROVE  Stepwise(ar, dirs)
<1> DEFINE To(r) == CHOOSE f : IsWalk(f, ar, dirs, r)
<1>1. ASSUME NEW r, Len(r) \in Nat
      PROVE  /\ WalkIn(ar, dirs, r) = To(r)[Len(r)] /\ To(r)[0] = root
             /\ \A i \in 1..Len(r) :
                  To(r)[i] = LookupIn(ar, dirs, To(r)[i - 1], r[i])
  <2>1. \E f : IsWalk(f, ar, dirs, r)  BY <1>1, WalkExists DEF IsTree
  <2>2. IsWalk(To(r), ar, dirs, r)  BY <2>1
  <2>3. WalkIn(ar, dirs, r) = To(r)[Len(r)]  BY DEF WalkIn, IsWalk
  <2> HIDE DEF To
  <2> QED  BY <1>1, <2>2, <2>3 DEF IsWalk
<1> HIDE DEF To
<1>2. WalkIn(ar, dirs, <<>>) = root
  <2>1. Len(<<>>) = 0 /\ Len(<<>>) \in Nat  OBVIOUS
  <2> QED  BY <1>1, <2>1
<1>3. ASSUME NEW r \in Seq(STRING), r # <<>>
      PROVE  WalkIn(ar, dirs, r) =
               LookupIn(ar, dirs, WalkIn(ar, dirs, Above(r)), r[Len(r)])
  <2> DEFINE a == Above(r)
             f == To(r)
             g == To(a)
             N == Len(r)
             Bad == {i \in 0..(N - 1) : f[i] # g[i]}
  <2>1. /\ N \in Nat \ {0} /\ a \in Seq(STRING) /\ Len(a) = N - 1
        /\ \A i \in 1..(N - 1) : a[i] = r[i]
    BY <1>3, AboveFacts
  <2>2. /\ WalkIn(ar, dirs, r) = f[N] /\ f[0] = root
        /\ \A i \in 1..N : f[i] = LookupIn(ar, dirs, f[i - 1], r[i])
    BY <1>1, <2>1
  <2>3. /\ WalkIn(ar, dirs, a) = g[N - 1] /\ g[0] = root
        /\ \A i \in 1..(N - 1) : g[i] = LookupIn(ar, dirs, g[i - 1], a[i])
    <3> HIDE DEF a, N
    <3>1. Len(a) \in Nat  BY <2>1
    <3> QED  BY <1>1, <2>1, <3>1
  <2> HIDE DEF a, f, g, N
  <2>4. Bad = {}
    <3> SUFFICES ASSUME Bad # {} PROVE FALSE  OBVIOUS
    <3>1. PICK i \in Bad : \A k \in Bad : i <= k
      <4>1. Bad \in SUBSET Nat  OBVIOUS
      <4> HIDE DEF Bad
      <4> QED  BY <4>1, LeastElement
    <3>2. i # 0 /\ i \in 0..(N - 1)  BY <2>2, <2>3
    <3>3. i \in 1..(N - 1) /\ i \in 1..N /\ i - 1 \in 0..(N - 1) /\ ~(i <= i - 1)
      BY <2>1, <3>2
    <3>4. f[i - 1] = g[i - 1]  BY <3>1, <3>3
    <3>5. a[i] = r[i]  BY <2>1, <3>3
    <3>6. f[i] = g[i]  BY <2>2, <2>3, <3>3, <3>4, <3>5
    <3> QED  BY <3>6
  <2>5. N - 1 \in 0..(N - 1) /\ N \in 1..N  BY <2>1
  <2>6. f[N - 1] = g[N - 1]  BY <2>4, <2>5
  <2> QED  BY <2>2, <2>3, <2>5, <2>6 DEF a, N
<1> QED  BY <1>2, <1>3 DEF Stepwise

-----------------------------------------------------------------------------
(* What one header adds to the tree.                                       *)

\* The directory v gets the entry e in front.
EntryAdded(dirs, dirs2, n, v, e) ==
  \A u \in 0..n : dirs2[u] = IF u = v THEN <<e>> \o dirs[u] ELSE dirs[u]

\* The new name is found, and every other one as before.
Added(ar, dirs, dirs2, v, nm, h) ==
  /\ LookupIn(ar, dirs2, v, nm) = h
  /\ \A x : x # nm => LookupIn(ar, dirs2, v, x) = LookupIn(ar, dirs, v, x)

LEMMA LookupAdded ==
  ASSUME NEW n \in Nat, NEW ar, NEW dirs, NEW dirs2, NEW nm, NEW h \in 1..n,
         IsTree(dirs, n),
         NEW e, e = [name |-> nm, vnode |-> h], NEW v \in 0..n, v # NULL,
         v = root \/ ar[v].type = DIRTYPE,
         EntryAdded(dirs, dirs2, n, v, e)
  PROVE  Added(ar, dirs, dirs2, v, nm, h)
<1> DEFINE list == dirs[v]
           list2 == dirs2[v]
           T == [name : STRING, vnode : 1..n]
           N == Len(list)
<1>1. list2 = <<e>> \o list  BY DEF EntryAdded
<1>2. list \in Seq(T)  BY DEF IsTree, IsDirectory
<1>3. e.name = nm /\ e.vnode = h  OBVIOUS
<1>4. /\ N \in Nat /\ DOMAIN list = 1..N /\ DOMAIN list2 = 1..(N + 1)
      /\ list2[1] = e /\ \A i \in 1..N : list2[i + 1] = list[i]
  <2> HIDE DEF T, list, list2
  <2> QED  BY <1>1, <1>2
<1> HIDE DEF list, list2, T, N
<1> DEFINE Found(x) == {i \in DOMAIN list : list[i].name = x}
           Found2(x) == {i \in DOMAIN list2 : list2[i].name = x}
<1>5. \A x : /\ LookupIn(ar, dirs, v, x) =
                  IF Found(x) = {} THEN NULL ELSE list[Min(Found(x))].vnode
             /\ LookupIn(ar, dirs2, v, x) =
                  IF Found2(x) = {} THEN NULL ELSE list2[Min(Found2(x))].vnode
  BY DEF LookupIn, list, list2
<1>6. \A x : Found(x) \in SUBSET Nat /\ Found2(x) \in SUBSET Nat  BY <1>4
<1>7. LookupIn(ar, dirs2, v, nm) = h
  <2>1. 1 \in Found2(nm)  BY <1>3, <1>4
  <2>2. \A i \in Found2(nm) : i >= 1  BY <1>4
  <2> DEFINE F == Found2(nm)
             k == Min(F)
  <2>3. F \in SUBSET Nat /\ F # {}  BY <1>6, <2>1
  <2>4. k \in F /\ \A i \in F : k <= i
    <3> HIDE DEF F
    <3> QED  BY <2>3, MinIsSmallest
  <2>5. k = 1  
    <3> HIDE DEF k, F
    <3>1. k \in Nat /\ k >= 1 /\ k <= 1  BY <2>1, <2>2, <2>3, <2>4 DEF F
    <3> QED  BY <3>1
  <2>6. LookupIn(ar, dirs2, v, nm) = list2[k].vnode
    <3>1. LookupIn(ar, dirs2, v, nm) = IF F = {} THEN NULL ELSE list2[Min(F)].vnode
      BY <1>5
    <3> QED  BY <2>3, <3>1
  <2> HIDE DEF k, F
  <2> QED  BY <1>3, <1>4, <2>5, <2>6
<1>8. ASSUME NEW x, x # nm
      PROVE  LookupIn(ar, dirs2, v, x) = LookupIn(ar, dirs, v, x)
  <2> DEFINE F == Found(x)
             F2 == Found2(x)
             k == Min(F)
             k2 == Min(F2)
  <2>1. F \in SUBSET Nat /\ F2 \in SUBSET Nat  BY <1>6
  <2>2. 1 \notin F2  BY <1>3, <1>4, <1>8
  <2>3. \A i \in F : i + 1 \in F2 /\ i \in 1..N  BY <1>4
  <2>4. ASSUME NEW j \in F2 PROVE j - 1 \in F /\ j - 1 \in 1..N
    <3>1. j \in 1..(N + 1) /\ j # 1  BY <1>4, <2>2, <2>4
    <3>2. j - 1 \in 1..N /\ (j - 1) + 1 = j  BY <1>4, <3>1
    <3>3. list2[j] = list[j - 1]  BY <1>4, <3>2
    <3> QED  BY <1>4, <3>2, <3>3
  <2>5. LookupIn(ar, dirs, v, x) = (IF F = {} THEN NULL ELSE list[k].vnode)
        /\ LookupIn(ar, dirs2, v, x) = (IF F2 = {} THEN NULL ELSE list2[k2].vnode)
    BY <1>5
  <2>6. F # {} => k \in F /\ \A i \in F : k <= i
    <3> HIDE DEF F
    <3> QED  BY <2>1, MinIsSmallest
  <2>7. F2 # {} => k2 \in F2 /\ \A i \in F2 : k2 <= i
    <3> HIDE DEF F2
    <3> QED  BY <2>1, MinIsSmallest
  <2> HIDE DEF F, F2, k, k2
  <2>8. CASE F = {}
    <3>1. F2 = {}  BY <2>4, <2>8
    <3> QED  BY <2>5, <2>8, <3>1
  <2>9. CASE F # {}
    <3>1. k \in F /\ k + 1 \in F2 /\ k \in 1..N  BY <2>3, <2>6, <2>9
    <3>2. k2 \in F2 /\ k2 <= k + 1  BY <2>7, <3>1
    <3>3. k2 - 1 \in F /\ k2 - 1 \in 1..N  BY <2>4, <3>2
    <3>4. k <= k2 - 1  BY <2>6, <2>9, <3>3
    <3>5. k2 = k + 1
      <4>1. k \in Nat /\ k2 \in Nat  BY <2>1, <3>1, <3>2
      <4> QED  BY <3>2, <3>4, <4>1
    <3>6. list2[k2] = list[k]  BY <1>4, <3>1, <3>5
    <3>7. F2 # {}  BY <3>1
    <3> QED  BY <2>5, <2>9, <3>6, <3>7
  <2> QED  BY <2>8, <2>9
<1> QED  BY <1>7, <1>8 DEF Added

(* The path q of the new vnode h now leads to h, nothing is found below it, *)
(* and every other path leads where it led.                                 *)
PathAdded(ar, dirs, dirs2, q, h) ==
  \A r \in Seq(STRING) :
    WalkIn(ar, dirs2, r) = IF r = q THEN h
                           ELSE IF ProperPrefix(q, r) THEN NULL
                           ELSE WalkIn(ar, dirs, r)

\* Only the path a leads to v.
LeadsAlone(ar, dirs, a, v) ==
  \A r \in Seq(STRING) : WalkIn(ar, dirs, r) = v => r = a

LEMMA HeaderAdds ==
  ASSUME NEW n \in Nat, NEW ar, NEW dirs, NEW dirs2, NEW h \in 1..n,
         IsTree(dirs, n),
         IsTree(dirs2, n),
         NEW q \in Seq(STRING), q # <<>>,
         NEW v \in 0..n, v = WalkIn(ar, dirs, Above(q)), NULL \notin 0..n,
         v = root \/ ar[v].type = DIRTYPE,
         v # h, dirs[h] = <<>>,
         EntryAdded(dirs, dirs2, n, v, [name |-> q[Len(q)], vnode |-> h]),
         LeadsAlone(ar, dirs, Above(q), v)
  PROVE  PathAdded(ar, dirs, dirs2, q, h)
<1> DEFINE W(r) == WalkIn(ar, dirs, r)
           W2(r) == WalkIn(ar, dirs2, r)
           Good(r) == W2(r) = IF r = q THEN h ELSE IF ProperPrefix(q, r) THEN NULL ELSE W(r)
           Bad == {Len(r) : r \in {s \in Seq(STRING) : ~Good(s)}}
<1>1. /\ W(<<>>) = root /\ W2(<<>>) = root
      /\ \A r \in Seq(STRING) \ {<<>>} :
           /\ W(r) = LookupIn(ar, dirs, W(Above(r)), r[Len(r)])
           /\ W2(r) = LookupIn(ar, dirs2, W2(Above(r)), r[Len(r)])
  <2>1. Stepwise(ar, dirs) /\ Stepwise(ar, dirs2)  BY WalkSteps
  <2> QED  BY <2>1 DEF Stepwise
<1>2. \A r \in Seq(STRING) : W(r) \in (0..n) \cup {NULL}
  <2>1. \A r \in Seq(STRING) : Len(r) \in Nat  OBVIOUS
  <2> QED  BY <2>1, WalkInTree DEF IsTree
<1>3. /\ LookupIn(ar, dirs2, v, q[Len(q)]) = h
      /\ \A x : x # q[Len(q)] => LookupIn(ar, dirs2, v, x) = LookupIn(ar, dirs, v, x)
  <2> DEFINE nm == q[Len(q)]
             e == [name |-> nm, vnode |-> h]
  <2>1. e = [name |-> nm, vnode |-> h] /\ EntryAdded(dirs, dirs2, n, v, e)  OBVIOUS
  <2> HIDE DEF nm, e
  <2>2. v # NULL /\ n \in Nat /\ h \in 1..n /\ v \in 0..n
        /\ IsTree(dirs, n)
        /\ (v = root \/ ar[v].type = DIRTYPE)
    OBVIOUS
  <2>3. Added(ar, dirs, dirs2, v, nm, h)
    BY ONLY <2>1, <2>2, LookupAdded
  <2> QED  BY <2>3 DEF nm, Added
<1>4. \A u \in 0..n : \A x : u # v => LookupIn(ar, dirs2, u, x) = LookupIn(ar, dirs, u, x)
  BY DEF EntryAdded, LookupIn
<1>5. \A x : LookupIn(ar, dirs2, h, x) = NULL
  <2>1. h \in 0..n  OBVIOUS
  <2>2. dirs2[h] = <<>>  BY <2>1 DEF EntryAdded
  <2>3. {i \in DOMAIN dirs2[h] : TRUE} = {}  BY <2>2
  <2> QED  BY <2>3 DEF LookupIn
<1>6. \A x : LookupIn(ar, dirs2, NULL, x) = NULL /\ LookupIn(ar, dirs, NULL, x) = NULL
  BY DEF LookupIn
<1>7. h # NULL  OBVIOUS
<1>8. ASSUME NEW r \in Seq(STRING), r # <<>>, Good(Above(r)) PROVE Good(r)
  <2> DEFINE a == Above(r)
             x == r[Len(r)]
  <2>1. /\ a \in Seq(STRING)
        /\ W(r) = LookupIn(ar, dirs, W(a), x)
        /\ W2(r) = LookupIn(ar, dirs2, W2(a), x)
    BY <1>1, <1>8, AboveFacts
  <2>2. /\ Above(q) = a /\ q[Len(q)] = x => q = r
        /\ ProperPrefix(q, r) <=> q = a \/ ProperPrefix(q, a)
        /\ ~ProperPrefix(r, a) /\ r # a
    BY <1>8, PathFacts
  <2>3. W2(a) = IF a = q THEN h ELSE IF ProperPrefix(q, a) THEN NULL ELSE W(a)
    BY <1>8
  <2>4. CASE r = q
    <3>1. W2(a) = v  BY <2>2, <2>3, <2>4
    <3> QED  BY <1>3, <2>1, <2>4, <3>1
  <2>5. CASE r # q /\ a = q  BY <1>5, <2>1, <2>2, <2>3, <2>5
  <2>6. CASE r # q /\ a # q /\ ProperPrefix(q, a)
    BY <1>6, <2>1, <2>2, <2>3, <2>6
  <2>7. CASE r # q /\ a # q /\ ~ProperPrefix(q, a)
    <3>1. W2(a) = W(a) /\ ~ProperPrefix(q, r)  BY <2>2, <2>3, <2>7
    <3>2. W2(r) = W(r)
      <4> HIDE DEF W, W2, a, x
      <4>1. CASE W(a) = NULL  BY <1>6, <2>1, <3>1, <4>1
      <4>2. CASE W(a) = v
        <5>1. a = Above(q)  BY <2>1, <4>2 DEF W, LeadsAlone
        <5>2. x # q[Len(q)]  BY <2>2, <2>7, <5>1
        <5> QED  BY <1>3, <2>1, <3>1, <4>2, <5>2
      <4>3. CASE W(a) \in 0..n /\ W(a) # v  BY <1>4, <2>1, <3>1, <4>3
      <4> QED  BY <1>2, <2>1, <4>1, <4>2, <4>3
    <3> QED  BY <2>7, <3>1, <3>2
  <2> QED  BY <2>4, <2>5, <2>6, <2>7
<1>9. Good(<<>>)
  <2>1. ~ProperPrefix(q, <<>>)
    <3>1. Len(q) \in Nat /\ Len(<<>>) = 0  OBVIOUS
    <3> QED  BY <3>1 DEF ProperPrefix
  <2> QED  BY <1>1, <2>1
<1> HIDE DEF Good, W, W2
<1>10. \A r \in Seq(STRING) : Good(r)
  <2> SUFFICES ASSUME NEW s \in Seq(STRING), ~Good(s) PROVE FALSE  OBVIOUS
  <2>1. Bad \in SUBSET Nat /\ Bad # {}
    <3>1. \A r \in Seq(STRING) : Len(r) \in Nat  OBVIOUS
    <3>2. Len(s) \in Bad  OBVIOUS
    <3> QED  BY <3>1, <3>2
  <2>2. PICK k \in Bad : \A j \in Bad : k <= j
    <3> HIDE DEF Bad
    <3> QED  BY <2>1, LeastElement
  <2>3. PICK r \in Seq(STRING) : ~Good(r) /\ Len(r) = k  BY <2>2
  <2>4. r # <<>>  BY <1>9, <2>3
  <2>5. Above(r) \in Seq(STRING) /\ Len(Above(r)) = k - 1 /\ k \in Nat
    BY <2>3, <2>4, AboveFacts
  <2>6. ~(k <= k - 1)  BY <2>5
  <2>7. Good(Above(r))  BY <2>2, <2>5, <2>6
  <2> QED  BY <1>8, <2>3, <2>4, <2>7
<1> QED  BY <1>10 DEF Good, W, W2, PathAdded

(* What a path should lead to when m headers are mounted: Visible and the  *)
(* reference of LookupFindsLast.                                           *)
VisibleIn(ar, m, path) ==
  {i \in 1..m : /\ ar[i].path = path
                /\ \A j \in 1..m : j > i => ~ProperPrefix(ar[j].path, path)}

MeantIn(ar, m, path) ==
  IF VisibleIn(ar, m, path) = {} THEN NULL ELSE Max(VisibleIn(ar, m, path))

\* It is a header of that path, the last one that is visible.
LEMMA MeantLast ==
  ASSUME NEW ar, NEW m \in Nat, NEW path, VisibleIn(ar, m, path) # {}
  PROVE  /\ MeantIn(ar, m, path) \in VisibleIn(ar, m, path)
         /\ MeantIn(ar, m, path) \in 1..m
         /\ ar[MeantIn(ar, m, path)].path = path
         /\ \A i \in VisibleIn(ar, m, path) : i <= MeantIn(ar, m, path)
<1> DEFINE S == VisibleIn(ar, m, path)
<1>1. S \in SUBSET (0..m) /\ \A i \in S : i \in 1..m /\ ar[i].path = path
  BY DEF VisibleIn
<1>2. S # {} /\ MeantIn(ar, m, path) = Max(S)  BY DEF MeantIn
<1> HIDE DEF S
<1>3. Max(S) \in S /\ \A i \in S : i <= Max(S)  BY <1>1, <1>2, MaxIsLargest
<1> QED  BY <1>1, <1>2, <1>3 DEF S

\* What one header more changes.
MeantAdded(ar, m, h, q, r) ==
  MeantIn(ar, h, r) = IF r = q THEN h
                      ELSE IF ProperPrefix(q, r) THEN NULL
                      ELSE MeantIn(ar, m, r)

LEMMA MeantNext ==
  ASSUME NEW ar, NEW m \in Nat, NEW h, h = m + 1, NEW q \in Seq(STRING),
         ar[h].path = q, NEW r
  PROVE  MeantAdded(ar, m, h, q, r)
<1> USE DEF MeantAdded
<1> DEFINE V == VisibleIn(ar, m, r)
           V2 == VisibleIn(ar, m + 1, r)
<1>1. ~ProperPrefix(q, q)
  <2>1. Len(q) \in Nat  OBVIOUS
  <2> QED  BY <2>1 DEF ProperPrefix
<1>2. CASE r = q
  <2>1. m + 1 \in V2  BY <1>2 DEF VisibleIn
  <2>2. V2 # {} /\ m + 1 \in Nat  BY <2>1
  <2>3. /\ MeantIn(ar, m + 1, r) \in 1..(m + 1)
        /\ m + 1 <= MeantIn(ar, m + 1, r)
    BY <2>1, <2>2, MeantLast
  <2> QED  BY <1>2, <2>3
<1>3. CASE r # q /\ ProperPrefix(q, r)
  <2>1. ASSUME NEW i \in V2 PROVE FALSE
    <3>1. /\ i \in 1..(m + 1) /\ ar[i].path = r
          /\ \A j \in 1..(m + 1) : j > i => ~ProperPrefix(ar[j].path, r)
      BY <2>1 DEF VisibleIn
    <3>2. i # m + 1  BY <1>3, <3>1
    <3>3. m + 1 \in 1..(m + 1) /\ m + 1 > i  BY <3>1, <3>2
    <3> QED  BY <1>3, <3>1, <3>3
  <2>2. V2 = {}  BY <2>1
  <2> QED  BY <1>3, <2>2 DEF MeantIn
<1>4. CASE r # q /\ ~ProperPrefix(q, r)
  <2>1. \A j \in 1..(m + 1) : j \in 1..m \/ j = m + 1  OBVIOUS
  <2>2. \A j \in 1..m : j \in 1..(m + 1)  OBVIOUS
  <2>3. V2 = V
    <3>1. \A i : i \in V2 => i \in V  BY <1>4, <2>1, <2>2 DEF VisibleIn
    <3>2. \A i : i \in V => i \in V2  BY <1>4, <2>1, <2>2 DEF VisibleIn
    <3> QED  BY <3>1, <3>2
  <2> QED  BY <1>4, <2>3 DEF MeantIn
<1> QED  BY <1>2, <1>3, <1>4

\* Every path leads where it should.
NamedIn(ar, dirs, m) ==
  \A r \in Seq(STRING) \ {<<>>} : WalkIn(ar, dirs, r) = MeantIn(ar, m, r)

\* An iteration of fs_mount keeps it so.
LEMMA HeaderNamed ==
  ASSUME NEW ar \in Archives, NEW n, n = Len(ar), NEW dirs, NEW dirs2,
         IsTree(dirs, n), IsTree(dirs2, n), NEW m \in 0..(n - 1),
         NEW h, h = m + 1, NEW q, q = ar[h].path,
         NEW v, v = WalkIn(ar, dirs, Above(q)), v # NULL,
         \A i \in 1..m : Creatable(ar[i]), dirs[h] = <<>>,
         EntryAdded(dirs, dirs2, n, v, [name |-> q[Len(q)], vnode |-> h]),
         NamedIn(ar, dirs, m)
  PROVE  NamedIn(ar, dirs2, h)
<1>1. n \in Nat /\ DOMAIN ar = 1..n  BY ArchivesAssumption
<1>2. h \in 1..n /\ m \in Nat  BY <1>1
<1>3. q \in Seq(STRING) /\ q # <<>>  BY <1>1, <1>2, ArchivesAssumption
<1>4. NULL \notin 0..n  BY NullAssumption
<1>5. Above(q) \in Seq(STRING) /\ Len(Above(q)) \in Nat  BY <1>3, AboveFacts
<1>6. v \in 0..n  BY <1>1, <1>5, WalkInTree DEF IsTree
<1>7. Stepwise(ar, dirs)  BY <1>1, WalkSteps
<1>8. ASSUME NEW r \in Seq(STRING), WalkIn(ar, dirs, r) = v
      PROVE  IF r = <<>> THEN v = root ELSE v \in 1..m /\ ar[v].path = r
  <2>1. CASE r = <<>>  BY <1>7, <1>8, <2>1 DEF Stepwise
  <2>2. CASE r # <<>>
    <3>1. MeantIn(ar, m, r) = v  BY <1>8, <2>2 DEF NamedIn
    <3>2. VisibleIn(ar, m, r) # {}  BY <3>1 DEF MeantIn
    <3>3. MeantIn(ar, m, r) \in 1..m /\ ar[MeantIn(ar, m, r)].path = r
      BY ONLY <1>2, <3>2, MeantLast
    <3> QED  BY <2>2, <3>1, <3>3
  <2> QED  BY <2>1, <2>2
<1>9. ASSUME NEW r \in Seq(STRING), WalkIn(ar, dirs, r) = v PROVE r = Above(q)
  <2>1. root \notin 1..m  BY DEF root
  <2>2. IF r = <<>> THEN v = root ELSE v \in 1..m /\ ar[v].path = r  BY <1>8, <1>9
  <2>3. IF Above(q) = <<>> THEN v = root ELSE v \in 1..m /\ ar[v].path = Above(q)
    BY <1>5, <1>8
  <2> QED  BY <2>1, <2>2, <2>3
<1>10. v # h
  <2>1. v = root \/ v \in 1..m  BY <1>5, <1>8
  <2> QED  BY <1>2, <2>1 DEF root
<1>11. v = root \/ ar[v].type = DIRTYPE
  <2> SUFFICES ASSUME v # root PROVE ar[v].type = DIRTYPE  OBVIOUS
  <2>1. v \in 1..m /\ ar[v].path = Above(q)  BY <1>5, <1>8
  <2>2. v \in DOMAIN ar /\ h \in DOMAIN ar  BY <1>1, <1>2, <2>1
  <2>3. ProperPrefix(Above(q), q)  BY <1>3, <1>5, PathFacts
  <2>4. ar[v].type # REGTYPE  BY <2>1, <2>2, <2>3, ArchivesAssumption
  <2>5. Creatable(ar[v])  BY <2>1
  <2> QED  BY <2>4, <2>5 DEF Creatable
<1>12. LeadsAlone(ar, dirs, Above(q), v)  BY <1>9 DEF LeadsAlone
<1>13. PathAdded(ar, dirs, dirs2, q, h)
  BY <1>1, <1>2, <1>3, <1>4, <1>6, <1>10, <1>11, <1>12, HeaderAdds
<1>14. ASSUME NEW r \in Seq(STRING) \ {<<>>}
       PROVE  WalkIn(ar, dirs2, r) = MeantIn(ar, h, r)
  <2>1. MeantAdded(ar, m, h, q, r)
    <3>1. m \in Nat /\ h = m + 1 /\ q \in Seq(STRING) /\ ar[h].path = q
      BY <1>2, <1>3
    <3> QED  BY ONLY <3>1, MeantNext
  <2>2. WalkIn(ar, dirs, r) = MeantIn(ar, m, r)  BY DEF NamedIn
  <2>3. WalkIn(ar, dirs2, r) = IF r = q THEN h
                               ELSE IF ProperPrefix(q, r) THEN NULL
                               ELSE WalkIn(ar, dirs, r)
    BY <1>13 DEF PathAdded
  <2> QED  BY <2>1, <2>2, <2>3 DEF MeantAdded
<1> QED  BY <1>14 DEF NamedIn

-----------------------------------------------------------------------------
(* The inductive invariant.                                                *)

\* The tree of the archive, however much of it is there.
Tree ==
  /\ archive \in Archives
  /\ header \in Nat \ {0}
  /\ DOMAIN entries = 0..Len(archive)
  /\ \A vp \in 0..Len(archive) : IsDirectory(entries[vp], Len(archive))

\* What a handle points to.
FilesOf(ar) ==
  [node : 0..Len(ar), pos : Nat, error : {0, -1}, eof : {0, 1}]

(* HandlesExact, and before the first file is opened as well.              *)
OpenFiles ==
  /\ handles \in [Table -> Handles \cup {NULL}]
  /\ Open \subseteq Handles
  /\ DOMAIN got = Open
  /\ \A h \in Open : file[h] \in FilesOf(archive)
  /\ phase # "panic_close"
  /\ phase = "mount" => Open = {}
  /\ phase \in {"mount", "run"} =>
       /\ \A i \in Table : handles[i] # NULL => handles[i] \in Open
       /\ \A h \in Open : \E i \in Table : handles[i] = h
       /\ \A i, j \in Table : handles[i] = handles[j] /\ handles[i] # NULL => i = j

\* ReadsInOrder, and that nothing comes from what is not a regular file.
Reading ==
  /\ ReadsInOrder
  /\ \A h \in Open : Type(file[h].node) # REGTYPE => got[h] = <<>>

ReadsFile == {"banner_read", "banner_print", "cat", "cat_print"}

(* Which file the first task has open at each place, and how many chunks   *)
(* of the heap besides those that vn_open has lost.                        *)
Holding ==
  /\ program \in {"shell", "files"}
  /\ at \in ReadsFile \cup {"banner", "prompt", "line", "parse", "free"}
  /\ phase = "mount" \/ program = "files" => at = "banner" /\ ~overrun
  /\ at \in ReadsFile => Open = {fp}
  /\ program = "shell" /\ at \notin ReadsFile => Open = {}
  /\ opened \in Nat
  /\ at \in {"banner", "prompt"} => chunks = opened
  /\ at \in {"banner_read", "banner_print", "line"} => chunks = opened + 1
  /\ at \in {"parse", "free"} => chunks = opened + 2
  /\ at \in {"cat", "cat_print"} => chunks = opened + 4

Buffers == [size : Nat, used : Nat]

(* The buffers have room where they are written next, and hold what was    *)
(* read.                                                                   *)
Filling ==
  /\ \A buf \in {message, line, argv, buffer} : buf \in Buffers
  /\ message.size = MESSAGE_SIZE
  /\ at = "banner" => message.used = 0
  /\ at \in {"banner_read", "banner_print"} =>
       /\ Walk(Banner) # NULL
       /\ file[fp].node = Walk(Banner)
       /\ message.used <= Len(got[fp])
  /\ at = "banner_read" => message.used = Len(got[fp])
  /\ at = "line" => Room(line)
  /\ at = "parse" => Room(argv)
  /\ at \in {"cat", "cat_print"} => Room(buffer)
  /\ at = "cat" => buffer.used = Len(got[fp])
  /\ CatShowsFile
  /\ BuffersInBounds

Inv == Tree /\ OpenFiles /\ Reading /\ Holding /\ Filling

-----------------------------------------------------------------------------
(* The files.                                                              *)

\* A path leads to a vnode of the archive, or nowhere.
LEMMA WalkType ==
  ASSUME Tree, NEW names, Len(names) \in Nat
  PROVE  Walk(names) \in (0..Len(archive)) \cup {NULL}
<1>1. Len(archive) \in Nat  BY ArchivesAssumption DEF Tree
<1>2. WalkIn(archive, entries, names) \in (0..Len(archive)) \cup {NULL}
  BY <1>1, WalkInTree DEF Tree
<1> QED  BY <1>2, WalkIsWalkIn

\* No path leads elsewhere once the archive is mounted.
LEMMA WalkUnchanged ==
  ASSUME UNCHANGED <<archive, entries>>, NEW names
  PROVE  Walk(names)' = Walk(names)
BY WalkIsWalkIn, WalkIsWalkInNext

\* The type and the size of a vnode that was opened.
LEMMA NodeTypes ==
  ASSUME Tree, NEW vp \in 0..Len(archive)
  PROVE  Type(vp) = REGTYPE => Size(vp) \in Nat /\ Size(vp) < Word
<1>1. archive \in Archives  BY DEF Tree
<1>2. Len(archive) \in Nat /\ DOMAIN archive = 1..Len(archive)
  BY <1>1, ArchivesAssumption
<1>3. CASE vp = root
  <2>1. Type(vp) = "5"  BY <1>3 DEF Type, DIRTYPE
  <2> QED  BY <2>1 DEF REGTYPE
<1>4. CASE vp # root
  <2>1. vp \in DOMAIN archive  BY <1>2, <1>4 DEF root
  <2>2. archive[vp].size \in Nat
    BY <1>1, <2>1, ArchivesAssumption
  <2>3. archive[vp].size < Word  BY <1>1, <2>1, HandlesAssumption
  <2> QED  BY <1>4, <2>2, <2>3 DEF Type, Size
<1> QED  BY <1>3, <1>4

\* What is returned next comes at the end.
LEMMA AppendNext ==
  ASSUME NEW n \in Nat
  PROVE  /\ Append([i \in 1..n |-> i - 1], n) = [i \in 1..(n + 1) |-> i - 1]
         /\ Len([i \in 1..n |-> i - 1]) = n
<1> DEFINE s == [i \in 1..n |-> i - 1]
           t == [i \in 1..(n + 1) |-> i - 1]
<1>1. s \in Seq(Nat) /\ Len(s) = n
  <2>1. s \in [1..n -> Nat]  OBVIOUS
  <2> QED  BY <2>1
<1>2. t \in Seq(Nat) /\ Len(t) = n + 1
  <2>1. t \in [1..(n + 1) -> Nat]  OBVIOUS
  <2> QED  BY <2>1
<1>3. /\ Append(s, n) \in Seq(Nat)
      /\ Len(Append(s, n)) = n + 1
      /\ \A i \in 1..n : Append(s, n)[i] = s[i]
      /\ Append(s, n)[n + 1] = n
  <2> HIDE DEF s
  <2> QED  BY <1>1
<1>4. \A i \in 1..(n + 1) : Append(s, n)[i] = t[i]
  <2> SUFFICES ASSUME NEW i \in 1..(n + 1) PROVE Append(s, n)[i] = i - 1
    OBVIOUS
  <2>1. CASE i = n + 1  BY <1>3, <2>1
  <2>2. CASE i # n + 1
    <3>1. i \in 1..n  BY <2>2
    <3>2. s[i] = i - 1  BY <3>1
    <3> QED  BY <1>3, <3>1, <3>2
  <2> QED  BY <2>1, <2>2
<1>5. Append(s, n) = t
  <2> HIDE DEF s, t
  <2> QED  BY <1>2, <1>3, <1>4, SeqEqual
<1> QED  BY <1>1, <1>5

FileInv == Tree /\ OpenFiles /\ Reading

\* Nothing that FileInv speaks of changes, except perhaps the phase.
LEMMA FileInvUnchanged ==
  ASSUME FileInv, UNCHANGED <<archive, header, entries, handles, file, got>>,
         phase' = phase \/ phase' \notin {"mount", "run", "panic_close"}
  PROVE  FileInv'
<1>1. Tree'  BY DEF FileInv, Tree
<1>2. OpenFiles'  BY DEF FileInv, OpenFiles, Open, Table, FilesOf
<1>3. Reading'  BY DEF FileInv, Reading, ReadsInOrder, Open, Type, Size
<1> QED  BY <1>1, <1>2, <1>3 DEF FileInv

LEMMA FileInvInit == Init => FileInv
<1> SUFFICES ASSUME Init PROVE FileInv  OBVIOUS
<1>1. Open = {}  BY DEF Init, Open
<1>2. Tree
  <2>1. archive \in Archives /\ Len(archive) \in Nat
    BY ArchivesAssumption DEF Init, MountInit
  <2>2. \A n : IsDirectory(<<>>, n)  BY DEF IsDirectory
  <2> QED  BY <2>1, <2>2 DEF Init, MountInit, Tree
<1>3. OpenFiles  BY <1>1 DEF Init, MountInit, OpenFiles
<1>4. Reading  BY <1>1 DEF Reading, ReadsInOrder
<1> QED  BY <1>2, <1>3, <1>4 DEF FileInv

\* fs_mount adds a header to the tree, or does not.
LEMMA MountKeepsFiles ==
  ASSUME FileInv, Mount
  PROVE  FileInv' /\ UNCHANGED <<archive, handles, file, got>>
<1> USE DEF FileInv
<1>1. UNCHANGED <<archive, handles, file, got>> /\ phase = "mount" /\ Open = {}
  BY DEF Mount, fs_mount, MountHeader, MountFails, MountDone, OpenFiles
<1>2. Tree'
  <2>1. CASE MountHeader
    <3> DEFINE h == archive[header]
               parent == lookup_parent(h.path)
               n == Len(archive)
               T == [name : STRING, vnode : 1..n]
               e == [name |-> h.path[Len(h.path)], vnode |-> header]
    <3>1. archive \in Archives /\ n \in Nat /\ header \in DOMAIN archive
          /\ header \in 1..n
      BY <2>1, ArchivesAssumption DEF Tree, MountHeader
    <3>2. h.path \in Seq(STRING) /\ h.path # <<>>
      BY <3>1, ArchivesAssumption
    <3>3. e \in T
      <4>1. h.path[Len(h.path)] \in STRING
        <5> DEFINE p == h.path
        <5> HIDE DEF p
        <5>1. p \in Seq(STRING) /\ p # <<>>  BY <3>2 DEF p
        <5>2. Len(p) \in 1..Len(p)  BY <5>1
        <5>3. p[Len(p)] \in STRING  BY <5>1, <5>2
        <5> QED  BY <5>3 DEF p
      <4> QED  BY <3>1, <4>1
    <3>4. parent \in 0..n
      <4>1. Len(SubSeq(h.path, 1, Len(h.path) - 1)) \in Nat
        <5> DEFINE p == h.path
        <5> HIDE DEF p
        <5>1. p \in Seq(STRING) /\ p # <<>>  BY <3>2 DEF p
        <5>2. SubSeq(p, 1, Len(p) - 1) \in Seq(STRING)  BY <5>1
        <5>3. Len(SubSeq(p, 1, Len(p) - 1)) \in Nat  BY <5>2
        <5> QED  BY <5>3 DEF p
      <4>2. parent \in (0..n) \cup {NULL}
        BY <4>1, WalkType DEF lookup_parent
      <4>3. parent # NULL  BY <2>1 DEF MountHeader
      <4> QED  BY <4>2, <4>3
    <3>5. entries' = [entries EXCEPT ![parent] = <<e>> \o @] /\ header' = header + 1
      BY <2>1 DEF MountHeader, add_to_dir, list_add
    <3> HIDE DEF parent, e, h
    <3>6. ASSUME NEW vp \in 0..n PROVE entries'[vp] \in Seq(T)
      <4>1. entries[vp] \in Seq(T)  BY DEF Tree, IsDirectory
      <4> HIDE DEF T
      <4>2. <<e>> \in Seq(T)  BY <3>3
      <4>3. <<e>> \o entries[vp] \in Seq(T)  BY <4>1, <4>2
      <4>4. entries'[vp] = entries[vp] \/ entries'[vp] = <<e>> \o entries[vp]
        BY <3>5 DEF Tree
      <4> QED  BY <4>1, <4>3, <4>4
    <3>7. DOMAIN entries' = DOMAIN entries  BY <3>5
    <3>8. \A vp \in 0..n : IsDirectory(entries'[vp], n)  BY <3>6 DEF IsDirectory
    <3>9. header' \in Nat \ {0}  BY <3>1, <3>5
    <3> QED  BY <1>1, <3>1, <3>7, <3>8, <3>9 DEF Tree
  <2>2. CASE MountFails \/ MountDone
    BY <1>1, <2>2 DEF MountFails, MountDone, Tree
  <2> QED  BY <2>1, <2>2 DEF Mount, fs_mount
<1>3. OpenFiles'
  <2>1. phase' \in {"mount", "run", "panic_mount"}
    BY DEF Mount, fs_mount, MountHeader, MountFails, MountDone
  <2> QED  BY <1>1, <2>1 DEF OpenFiles, Open, Table, FilesOf
<1>4. Reading'  BY <1>1 DEF Reading, ReadsInOrder, Open
<1> QED  BY <1>1, <1>2, <1>3, <1>4

\* The new handle of fopen, in the first free slot if there is one.
LEMMA OpenKeepsFiles ==
  ASSUME FileInv, NEW path, Len(path) \in Nat, fopen(path)
  PROVE  /\ FileInv'
         /\ UNCHANGED <<archive, entries>> /\ phase' # "mount"
         /\ \E h \in Handles \ Open :
              /\ Open' = Open \cup {h}
              /\ file'[h].node = Walk(path) /\ got'[h] = <<>>
<1>1. Walk(path) \in 0..Len(archive)  BY WalkType DEF FileInv, fopen
<1>2. PICK h \in Handles \ Open :
        /\ file' = [g \in Open \cup {h} |->
                      IF g = h THEN [node |-> Walk(path), pos |-> 0, error |-> 0, eof |-> 0]
                               ELSE file[g]]
        /\ got' = [g \in Open \cup {h} |-> IF g = h THEN <<>> ELSE got[g]]
        /\ \/ /\ FreeSlots # {}
              /\ handles' = [handles EXCEPT ![Min(FreeSlots)] = h]
              /\ UNCHANGED tarfs
           \/ /\ FreeSlots = {}
              /\ phase' = "panic_handles"
              /\ UNCHANGED <<archive, header, entries, handles>>
  BY DEF fopen, OpenNode
<1>3. /\ UNCHANGED <<archive, header, entries>> /\ phase = "run"
      /\ phase' \in {"run", "panic_handles"}
  BY <1>2 DEF fopen, tarfs
<1> DEFINE new == [node |-> Walk(path), pos |-> 0, error |-> 0, eof |-> 0]
<1>4. /\ Open' = Open \cup {h} /\ DOMAIN got' = Open \cup {h}
      /\ file'[h] = new /\ got'[h] = <<>>
      /\ \A g \in Open : g # h /\ file'[g] = file[g] /\ got'[g] = got[g]
  BY <1>2 DEF Open
<1>5. new \in FilesOf(archive) /\ new.node = Walk(path) /\ new.pos = 0 /\ new.eof = 0
  BY <1>1 DEF FilesOf
<1> HIDE DEF new
<1>6. Tree'  BY <1>3 DEF FileInv, Tree
<1>7. OpenFiles'
  <2> USE DEF FileInv, OpenFiles
  <2>1. h \in Handles /\ h \notin Open /\ h # NULL  BY HandlesAssumption
  <2>2. \A g \in Open' : file'[g] \in FilesOf(archive')
    <3>1. FilesOf(archive') = FilesOf(archive)  BY <1>3
    <3> QED  BY <1>4, <1>5, <3>1
  <2>3. CASE FreeSlots = {}
    BY <1>2, <1>3, <1>4, <2>1, <2>2, <2>3 DEF FreeSlots, Table
  <2>4. CASE FreeSlots # {}
    <3>1. FreeSlots \in SUBSET Nat  BY DEF FreeSlots, Table
    <3>2. Min(FreeSlots) \in FreeSlots  BY <2>4, <3>1, MinIsSmallest
    <3> DEFINE s == Min(FreeSlots)
    <3>3. s \in Table /\ handles[s] = NULL  BY <3>2 DEF FreeSlots
    <3>4. handles' = [handles EXCEPT ![s] = h] /\ phase' = "run"
      BY <1>2, <1>3, <2>4 DEF tarfs
    <3> HIDE DEF s
    <3>5. handles' \in [Table -> Handles \cup {NULL}]  BY <2>1, <3>3, <3>4
    <3>6. handles'[s] = h /\ \A i \in Table : i # s => handles'[i] = handles[i]
      BY <3>3, <3>4
    <3>7. \A i \in Table : handles[i] # NULL => handles[i] \in Open
      BY <1>3
    <3>8. \A i \in Table : handles'[i] # NULL => handles'[i] \in Open'
      BY <1>4, <3>6, <3>7
    <3>9. \A g \in Open' : \E i \in Table : handles'[i] = g
      BY <1>3, <1>4, <2>1, <3>3, <3>6, HandlesAssumption
    <3>10. \A i, j \in Table : handles'[i] = handles'[j] /\ handles'[i] # NULL => i = j
      BY <1>3, <2>1, <3>3, <3>6, <3>7
    <3>11. Open' \subseteq Handles  BY <1>4, <2>1
    <3> QED  BY <1>4, <2>2, <3>4, <3>5, <3>8, <3>9, <3>10, <3>11 DEF Table
  <2> QED  BY <2>3, <2>4
<1>8. Reading'
  <2>1. ASSUME NEW g \in Open', Type(file'[g].node) = REGTYPE
        PROVE  /\ file'[g].pos <= Size(file'[g].node)
               /\ got'[g] = [i \in 1..file'[g].pos |-> i - 1]
               /\ file'[g].eof = 1 => file'[g].pos = Size(file'[g].node)
    <3>1. CASE g = h
      <4>1. Type(Walk(path)) = REGTYPE  BY <1>4, <1>5, <2>1, <3>1
      <4>2. Size(Walk(path)) \in Nat  BY <1>1, <4>1, NodeTypes DEF FileInv
      <4>3. got'[g] = [i \in 1..0 |-> i - 1]
        <5>1. [i \in 1..0 |-> i - 1] = <<>>  OBVIOUS
        <5> QED  BY <1>4, <3>1, <5>1
      <4>4. file'[g].pos = 0 /\ file'[g].eof = 0 /\ file'[g].node = Walk(path)
        BY <1>4, <1>5, <3>1
      <4> QED  BY <4>2, <4>3, <4>4
    <3>2. CASE g # h
      <4>1. g \in Open /\ file'[g] = file[g] /\ got'[g] = got[g]
        BY <1>4, <3>2
      <4> QED  BY <2>1, <4>1 DEF FileInv, Reading, ReadsInOrder
    <3> QED  BY <3>1, <3>2
  <2>2. ASSUME NEW g \in Open', Type(file'[g].node) # REGTYPE PROVE got'[g] = <<>>
    BY <1>4, <2>2 DEF FileInv, Reading
  <2> QED  BY <1>3, <2>1, <2>2 DEF Reading, ReadsInOrder, Type, Size
<1> QED  BY <1>3, <1>4, <1>5, <1>6, <1>7, <1>8 DEF FileInv

\* fclose finds its handle, and takes it out of the table.
LEMMA CloseKeepsFiles ==
  ASSUME FileInv, NEW h \in Open, fclose(h)
  PROVE  /\ FileInv'
         /\ UNCHANGED <<archive, entries>> /\ phase' # "mount"
         /\ Open' = Open \ {h}
<1> USE DEF FileInv
<1>1. /\ UNCHANGED <<archive, header, entries>> /\ phase = "run"
      /\ handles' = Removed(h)
  BY DEF fclose
<1>2. /\ \A i \in Table : handles[i] # NULL => handles[i] \in Open
      /\ \A g \in Open : \E i \in Table : handles[i] = g
      /\ \A i, j \in Table : handles[i] = handles[j] /\ handles[i] # NULL => i = j
  BY <1>1 DEF OpenFiles
<1>3. phase' = "run"  BY <1>1, <1>2 DEF fclose
<1>4. /\ Open' = Open \ {h} /\ DOMAIN got' = Open \ {h}
      /\ \A g \in Open' : g \in Open /\ file'[g] = file[g] /\ got'[g] = got[g]
  BY DEF fclose, Open
<1>5. Tree'  BY <1>1 DEF Tree
<1>6. OpenFiles'
  <2>1. h # NULL /\ \A g \in Open : g # NULL  BY HandlesAssumption DEF OpenFiles
  <2>2. handles' \in [Table -> Handles \cup {NULL}]
    BY <1>1 DEF OpenFiles, Removed
  <2>3. \A i \in Table : handles'[i] = IF handles[i] = h THEN NULL ELSE handles[i]
    BY <1>1 DEF Removed
  <2>4. \A i \in Table : handles'[i] # NULL => handles'[i] \in Open'
    BY <1>2, <1>4, <2>3
  <2>5. \A g \in Open' : \E i \in Table : handles'[i] = g
    BY <1>2, <1>4, <2>3
  <2>6. \A i, j \in Table : handles'[i] = handles'[j] /\ handles'[i] # NULL => i = j
    BY <1>2, <2>3
  <2>7. \A g \in Open' : file'[g] \in FilesOf(archive')
    <3>1. FilesOf(archive') = FilesOf(archive)  BY <1>1
    <3> QED  BY <1>4, <3>1 DEF OpenFiles
  <2>8. Open' \subseteq Handles  BY <1>4 DEF OpenFiles
  <2> QED  BY <1>3, <1>4, <2>2, <2>4, <2>5, <2>6, <2>7, <2>8 DEF OpenFiles, Table
<1>7. Reading'
  <2>1. \A vp : Type(vp)' = Type(vp) /\ Size(vp)' = Size(vp)  BY <1>1 DEF Type, Size
  <2> QED  BY <1>4, <2>1 DEF Reading, ReadsInOrder
<1> QED  BY <1>1, <1>3, <1>4, <1>5, <1>6, <1>7

\* What is left of a file whose position is inside it.
LEMMA ReadableLeft ==
  ASSUME NEW f, f.pos \in Nat, Size(f.node) \in Nat, Size(f.node) < Word,
         f.pos <= Size(f.node)
  PROVE  /\ f.pos = Size(f.node) =>
              Readable(f, 1) = 0 /\ Advanced(f.pos, Readable(f, 1)) = f.pos
         /\ f.pos # Size(f.node) =>
              Readable(f, 1) = 1 /\ Advanced(f.pos, Readable(f, 1)) = f.pos + 1
<1> DEFINE p == f.pos
           n == Size(f.node)
<1>1. Word \in Nat \ {0}  BY HandlesAssumption
<1>2. (n - p) % Word = n - p /\ p % Word = p
      /\ (p < n => (p + 1) % Word = p + 1)
  <2> HIDE DEF p, n
  <2>1. p \in Nat /\ n \in Nat /\ n < Word /\ p <= n  BY DEF p, n
  <2>2. \A x \in 0..(Word - 1) : x % Word = x
    <3>1. \A x \in 0..(Word - 1) : x \in 0..(2 * Word - 1) /\ x < Word  BY <1>1
    <3> QED  BY <1>1, <3>1, WrapsOnce
  <2> QED  BY <1>1, <2>1, <2>2
<1>3. Readable(f, 1) = IF 1 > n - p THEN n - p ELSE 1  BY <1>2 DEF Readable
<1>4. \A length : Advanced(p, length) = (p + length) % Word  BY DEF Advanced
<1>5. p + 0 = p  OBVIOUS
<1> HIDE DEF p, n
<1>6. p \in Nat /\ n \in Nat /\ p <= n  BY DEF p, n
<1>7. CASE p = n  BY <1>2, <1>3, <1>4, <1>5, <1>6, <1>7 DEF p, n
<1>8. CASE p # n
  <2>1. p < n /\ ~(1 > n - p)  BY <1>6, <1>8
  <2>2. Readable(f, 1) = 1  BY <1>3, <2>1
  <2> QED  BY <1>2, <1>4, <1>8, <2>1, <2>2 DEF p, n
<1> QED  BY <1>7, <1>8 DEF p, n

(* fgetc returns the next character of a regular file, or says that there  *)
(* is none; on a directory it says that it failed.                         *)
LEMMA GetcKeepsFiles ==
  ASSUME FileInv, NEW h \in Open, fgetc(h)
  PROVE  /\ FileInv'
         /\ UNCHANGED <<archive, entries, phase>>
         /\ Open' = Open
         /\ file'[h].node = file[h].node
         /\ Len(got[h]) \in Nat
         /\ \/ Len(got'[h]) = Len(got[h]) + 1
            \/ /\ got' = got
               /\ IF Type(file[h].node) = REGTYPE
                    THEN Len(got[h]) = Size(file[h].node) /\ file'[h].eof = 1
                    ELSE Len(got[h]) = 0 /\ file'[h].error # 0
<1> USE DEF FileInv
<1> DEFINE f == file[h]
           length == IF Type(f.node) = REGTYPE THEN Readable(f, 1) ELSE 1
           new == file'[h]
<1>1. /\ UNCHANGED <<archive, header, entries, phase, handles>> /\ phase = "run"
      /\ Open' = Open
      /\ \A g \in Open : g # h => file'[g] = file[g] /\ got'[g] = got[g]
  BY DEF fgetc, Open, OpenFiles, tarfs
<1>2. f \in FilesOf(archive)  BY DEF OpenFiles
<1>3. /\ new = [f EXCEPT !.pos = Advanced(f.pos, length),
                         !.error = IF Type(f.node) = REGTYPE THEN f.error ELSE -1,
                         !.eof = IF length = 0 THEN 1 ELSE f.eof]
  BY DEF fgetc, Open
<1>4. /\ f.node \in 0..Len(archive) /\ f.pos \in Nat /\ f.error \in {0, -1}
      /\ f.eof \in {0, 1}
  BY <1>2 DEF FilesOf
<1> DEFINE len == length
<1>5. /\ new.node = f.node /\ new.pos = Advanced(f.pos, len)
      /\ new.error = (IF Type(f.node) = REGTYPE THEN f.error ELSE -1)
      /\ new.eof = IF len = 0 THEN 1 ELSE f.eof
  <2> HIDE DEF new, f, len
  <2> QED  BY <1>2, <1>3 DEF FilesOf, len
<1>6. DOMAIN got' = Open /\ DOMAIN file' = Open
  BY DEF fgetc, Open, OpenFiles
<1>7. /\ Type(f.node) = REGTYPE /\ len = 1 => got'[h] = Append(got[h], f.pos)
      /\ ~(Type(f.node) = REGTYPE /\ len = 1) => got' = got
  BY DEF fgetc, OpenFiles, Open
<1> HIDE DEF new, len, f
<1>8. /\ new.pos \in Nat
      /\ Type(f.node) = REGTYPE =>
           /\ new.pos <= Size(f.node)
           /\ got'[h] = [i \in 1..new.pos |-> i - 1]
           /\ new.eof = 1 => new.pos = Size(f.node)
      /\ Type(f.node) # REGTYPE => got'[h] = <<>>
      /\ Len(got[h]) \in Nat
      /\ \/ Len(got'[h]) = Len(got[h]) + 1
         \/ /\ got' = got
            /\ IF Type(f.node) = REGTYPE
                 THEN Len(got[h]) = Size(f.node) /\ new.eof = 1
                 ELSE Len(got[h]) = 0 /\ new.error # 0
  <2>1. CASE Type(f.node) = REGTYPE
    <3>1. /\ Size(f.node) \in Nat /\ Size(f.node) < Word
          /\ f.pos <= Size(f.node)
          /\ got[h] = [i \in 1..f.pos |-> i - 1]
          /\ f.eof = 1 => f.pos = Size(f.node)
      BY <1>4, <2>1, NodeTypes DEF Reading, ReadsInOrder, f
    <3>2. len = Readable(f, 1)  BY <2>1 DEF len
    <3>3. Len(got[h]) = f.pos  BY <1>4, <3>1, AppendNext
    <3>4. CASE f.pos = Size(f.node)
      <4>1. len = 0 /\ new.pos = f.pos
        BY <1>4, <1>5, <3>1, <3>2, <3>4, ReadableLeft
      <4>2. got' = got /\ new.eof = 1  BY <1>5, <1>7, <4>1
      <4> QED  BY <1>4, <2>1, <3>1, <3>3, <3>4, <4>1, <4>2
    <3>5. CASE f.pos # Size(f.node)
      <4>1. len = 1 /\ new.pos = f.pos + 1
        BY <1>4, <1>5, <3>1, <3>2, <3>5, ReadableLeft
      <4>2. got'[h] = [i \in 1..new.pos |-> i - 1]
        BY <1>4, <1>7, <2>1, <3>1, <4>1, AppendNext
      <4>3. Len(got'[h]) = new.pos
        <5>1. new.pos \in Nat  BY <1>4, <4>1
        <5> QED  BY <4>2, <5>1, AppendNext
      <4>4. new.eof # 1  BY <1>4, <1>5, <3>1, <3>5, <4>1
      <4>5. new.pos \in Nat /\ new.pos <= Size(f.node)  BY <1>4, <3>1, <3>5, <4>1
      <4> QED  BY <1>4, <2>1, <3>3, <4>1, <4>2, <4>3, <4>4, <4>5
    <3> QED  BY <3>4, <3>5
  <2>2. CASE Type(f.node) # REGTYPE
    <3>1. got' = got /\ got[h] = <<>>  BY <1>7, <2>2 DEF Reading, f
    <3>2. len = 1 /\ new.error = -1  BY <1>5, <2>2 DEF len
    <3>3. new.pos \in Nat
      <4>1. Word \in Nat \ {0}  BY HandlesAssumption
      <4>2. new.pos = (f.pos + 1) % Word  BY <1>5, <3>2 DEF Advanced
      <4> QED  BY <1>4, <4>1, <4>2
    <3> QED  BY <2>2, <3>1, <3>2, <3>3
  <2> QED  BY <2>1, <2>2
<1>9. new \in FilesOf(archive)
  BY <1>2, <1>3, <1>4, <1>5, <1>8 DEF FilesOf
<1>10. Tree'  BY <1>1 DEF Tree
<1>11. OpenFiles'
  <2>1. FilesOf(archive') = FilesOf(archive)  BY <1>1
  <2>2. \A g \in Open' : file'[g] \in FilesOf(archive')
    BY <1>1, <1>9, <2>1 DEF OpenFiles, new
  <2> QED  BY <1>1, <1>6, <2>2 DEF OpenFiles, Table
<1>12. Reading'
  <2>1. ASSUME NEW g \in Open', Type(file'[g].node) = REGTYPE
        PROVE  /\ file'[g].pos <= Size(file'[g].node)
               /\ got'[g] = [i \in 1..file'[g].pos |-> i - 1]
               /\ file'[g].eof = 1 => file'[g].pos = Size(file'[g].node)
    <3>1. CASE g = h  BY <1>5, <1>8, <2>1, <3>1 DEF new
    <3>2. CASE g # h  BY <1>1, <2>1, <3>2 DEF Reading, ReadsInOrder
    <3> QED  BY <3>1, <3>2
  <2>2. ASSUME NEW g \in Open', Type(file'[g].node) # REGTYPE PROVE got'[g] = <<>>
    <3>1. CASE g = h  BY <1>5, <1>8, <2>2, <3>1 DEF new
    <3>2. CASE g # h  BY <1>1, <2>2, <3>2 DEF Reading
    <3> QED  BY <3>1, <3>2
  <2> QED  BY <1>1, <2>1, <2>2 DEF Reading, ReadsInOrder, Type, Size
<1> QED  BY <1>1, <1>5, <1>8, <1>10, <1>11, <1>12 DEF new, f

\* clearerr forgets the error and the end of the file.
LEMMA ClearKeepsFiles ==
  ASSUME FileInv, NEW h \in Open, clearerr(h)
  PROVE  FileInv' /\ UNCHANGED <<archive, entries, phase>> /\ Open' = Open
<1> USE DEF FileInv
<1>1. /\ UNCHANGED <<archive, header, entries, phase, handles, got>>
      /\ phase = "run" /\ Open' = Open
      /\ \A g \in Open : g # h => file'[g] = file[g]
  BY DEF clearerr, Open, tarfs
<1>2. file[h] \in FilesOf(archive)  BY DEF OpenFiles
<1>3. file'[h] = [file[h] EXCEPT !.error = 0, !.eof = 0]  BY DEF clearerr, Open
<1>4. /\ file'[h] \in FilesOf(archive)
      /\ file'[h].node = file[h].node /\ file'[h].pos = file[h].pos
      /\ file'[h].eof = 0
  BY <1>2, <1>3 DEF FilesOf
<1>5. Tree'  BY <1>1 DEF Tree
<1>6. OpenFiles'
  <2>1. FilesOf(archive') = FilesOf(archive)  BY <1>1
  <2>2. \A g \in Open' : file'[g] \in FilesOf(archive')
    BY <1>1, <1>4, <2>1 DEF OpenFiles
  <2> QED  BY <1>1, <2>2 DEF OpenFiles, Table
<1>7. Reading'
  <2>1. \A g \in Open : file'[g].node = file[g].node /\ file'[g].pos = file[g].pos
                        /\ (file'[g].eof = 1 => file[g].eof = 1)
    BY <1>1, <1>4
  <2> QED  BY <1>1, <2>1 DEF Reading, ReadsInOrder, Type, Size
<1> QED  BY <1>1, <1>5, <1>6, <1>7

-----------------------------------------------------------------------------
(* The banner and the shell.                                               *)

ShellInv == Holding /\ Filling

\* A store leaves room for the next one.
LEMMA StoredRoom ==
  ASSUME NEW buf \in Buffers, Room(buf), NEW grown \in Nat, grown > buf.size
  PROVE  /\ Stored(buf, grown) \in Buffers /\ Room(Stored(buf, grown))
         /\ Stored(buf, grown).used = buf.used + 1
<1>1. buf.used \in Nat /\ buf.size \in Nat  BY DEF Buffers
<1>2. Stored(buf, grown).used = buf.used + 1
  BY DEF Stored
<1>3. Stored(buf, grown).size = IF buf.used + 1 = buf.size THEN grown ELSE buf.size
  BY DEF Stored
<1>4. Stored(buf, grown) \in Buffers  BY <1>1 DEF Stored, Buffers
<1> QED  BY <1>1, <1>2, <1>3, <1>4 DEF Room

LEMMA EmptyBuffer ==
  ASSUME NEW n \in Nat
  PROVE  Buffer(n) \in Buffers /\ Buffer(n).used = 0 /\ Buffer(n).size = n
BY DEF Buffer, Buffers

\* A step that writes no buffer behind its end.
LEMMA BoundsKept ==
  ASSUME BuffersInBounds, UNCHANGED <<archive, entries>>, overrun' => overrun
  PROVE  BuffersInBounds'
<1>1. Walk(Banner)' = Walk(Banner)  BY WalkUnchanged
<1>2. Size(Walk(Banner))' = Size(Walk(Banner))  BY <1>1 DEF Size
<1> QED  BY <1>1, <1>2 DEF BuffersInBounds

\* Files stay as they are.
LEMMA FilesKept ==
  ASSUME FileInv, UNCHANGED files
  PROVE  /\ FileInv' /\ UNCHANGED <<archive, entries, phase, file, got>>
         /\ Open' = Open /\ Walk(Banner)' = Walk(Banner)
<1>1. UNCHANGED <<archive, header, entries, phase, handles, file, got>>
  BY DEF files, tarfs
<1> QED  BY <1>1, FileInvUnchanged, WalkUnchanged DEF Open

LEMMA InvInit == ShellInit => FileInv /\ ShellInv
<1> SUFFICES ASSUME ShellInit PROVE FileInv /\ ShellInv  OBVIOUS
<1>1. FileInv  BY FileInvInit DEF ShellInit
<1>2. Open = {}  BY DEF ShellInit, Init, Open
<1>3. Holding  BY <1>2 DEF ShellInit, Holding, ReadsFile
<1>4. Filling
  <2>1. MESSAGE_SIZE \in Nat  BY ShellAssumption
  <2> QED  BY <2>1, EmptyBuffer
      DEF ShellInit, Filling, CatShowsFile, BuffersInBounds
<1> QED  BY <1>1, <1>3, <1>4 DEF ShellInv

LEMMA MountKeeps ==
  ASSUME FileInv, ShellInv, Mount, UNCHANGED shell
  PROVE  FileInv' /\ ShellInv'
<1>1. FileInv' /\ UNCHANGED <<archive, handles, file, got>>  BY MountKeepsFiles
<1>2. phase = "mount" /\ at = "banner" /\ ~overrun
  BY DEF Mount, fs_mount, MountHeader, MountFails, MountDone, ShellInv, Holding
<1>3. Holding'  BY <1>1, <1>2 DEF ShellInv, Holding, shell, Open, ReadsFile
<1>4. Filling'
  BY <1>1, <1>2 DEF ShellInv, Filling, shell, CatShowsFile, BuffersInBounds
<1> QED  BY <1>1, <1>3, <1>4 DEF ShellInv

\* The first task is another program.
LEMMA OtherProgramKeeps ==
  ASSUME FileInv, ShellInv, program = "files", Next, UNCHANGED shell
  PROVE  FileInv' /\ ShellInv'
<1>1. at = "banner" /\ ~overrun  BY DEF ShellInv, Holding
<1>2. FileInv'
  <2>1. CASE Mount  BY <2>1, MountKeepsFiles
  <2>2. CASE \E path \in Paths : fopen(path)
    <3>1. PICK path \in Paths : fopen(path)  BY <2>2
    <3>2. Len(path) \in Nat
      <4>1. path \in Seq(STRING)
        BY ArchivesAssumption DEF Paths, FileInv, Tree
      <4> QED  BY <4>1
    <3> QED  BY <3>1, <3>2, OpenKeepsFiles
  <2>3. CASE \E h \in Open : fclose(h) \/ fgetc(h) \/ clearerr(h)
    BY <2>3, CloseKeepsFiles, GetcKeepsFiles, ClearKeepsFiles
  <2> QED  BY <2>1, <2>2, <2>3 DEF Next
<1>3. Holding'  BY <1>1 DEF ShellInv, Holding, shell, ReadsFile
<1>4. Filling'
  BY <1>1 DEF ShellInv, Filling, shell, CatShowsFile, BuffersInBounds
<1> QED  BY <1>2, <1>3, <1>4 DEF ShellInv

\* The handle that fopen has made is the one the caller gets.
LEMMA OpensFile ==
  ASSUME FileInv, Open = {}, NEW path, Len(path) \in Nat, Opens(path)
  PROVE  /\ FileInv' /\ UNCHANGED <<archive, entries>> /\ phase' # "mount"
         /\ Open' = {fp'} /\ file'[fp'].node = Walk(path) /\ got'[fp'] = <<>>
         /\ Walk(path) # NULL /\ opened' = opened + 1
<1>1. /\ FileInv' /\ UNCHANGED <<archive, entries>> /\ phase' # "mount"
      /\ \E h \in Handles \ Open :
           /\ Open' = Open \cup {h}
           /\ file'[h].node = Walk(path) /\ got'[h] = <<>>
  BY OpenKeepsFiles DEF Opens
<1>2. PICK h \in Handles : /\ Open' = {h}
                           /\ file'[h].node = Walk(path) /\ got'[h] = <<>>
  BY <1>1
<1>3. fp' = CHOOSE g \in Handles : g \in DOMAIN file' \ Open  BY DEF Opens
<1>4. \A g : g \in DOMAIN file' \ Open <=> g = h  BY <1>2 DEF Open
<1>5. fp' = h  BY <1>3, <1>4
<1> QED  BY <1>1, <1>2, <1>5 DEF Opens, fopen

LEMMA BannerOpenKeeps ==
  ASSUME FileInv, ShellInv, BannerOpen
  PROVE  FileInv' /\ ShellInv'
<1>1. CASE /\ Goto("banner", "banner_read") /\ Opens(Banner)
           /\ chunks' = chunks + 2
           /\ UNCHANGED <<program, message, line, argv, buffer, overrun>>
  <2>1. Open = {}  BY <1>1 DEF Goto, ShellInv, Holding, ReadsFile
  <2>2. Len(Banner) \in Nat
    <3>1. Banner \in Seq(STRING)  BY ShellAssumption
    <3> QED  BY <3>1
  <2>3. /\ FileInv' /\ UNCHANGED <<archive, entries>> /\ phase' # "mount"
        /\ Open' = {fp'} /\ file'[fp'].node = Walk(Banner) /\ got'[fp'] = <<>>
        /\ Walk(Banner) # NULL /\ opened' = opened + 1
    BY <1>1, <2>1, <2>2, OpensFile
  <2>4. Holding'  BY <1>1, <2>3 DEF Goto, ShellInv, Holding, ReadsFile
  <2>5. Filling'
    <3>1. Walk(Banner)' = Walk(Banner)  BY <2>3, WalkUnchanged
    <3>2. BuffersInBounds'  BY <1>1, <2>3, BoundsKept DEF ShellInv, Filling
    <3>3. Len(got'[fp']) = 0  BY <2>3
    <3> QED  BY <1>1, <2>3, <3>1, <3>2, <3>3
        DEF Goto, ShellInv, Filling, CatShowsFile, Buffers
  <2> QED  BY <2>3, <2>4, <2>5 DEF ShellInv
<1>2. CASE /\ phase' = "panic_banner"
           /\ UNCHANGED <<archive, header, entries, handles, file, got, shell>>
  <2>1. FileInv'  BY <1>2, FileInvUnchanged
  <2>2. Holding'  BY <1>2 DEF ShellInv, Holding, shell, Open
  <2>3. Filling'
    BY <1>2, BoundsKept, WalkUnchanged
    DEF ShellInv, Filling, shell, CatShowsFile, Room, Type, Size
  <2> QED  BY <2>1, <2>2, <2>3 DEF ShellInv
<1> QED  BY <1>1, <1>2 DEF BannerOpen

\* One more character of the banner, or no more.
LEMMA BannerReadKeeps ==
  ASSUME FileInv, ShellInv, BannerRead
  PROVE  FileInv' /\ ShellInv'
<1>1. /\ at = "banner_read" /\ fgetc(fp) /\ program = "shell"
      /\ at' \in {"banner_read", "banner_print"}
      /\ UNCHANGED <<program, fp, line, argv, buffer, chunks, opened>>
  BY DEF BannerRead, Goto
<1>2. Open = {fp} /\ fp \in Open  BY <1>1 DEF ShellInv, Holding, ReadsFile
<1>3. /\ FileInv' /\ UNCHANGED <<archive, entries, phase>> /\ Open' = Open
      /\ file'[fp].node = file[fp].node
      /\ Len(got[fp]) \in Nat
      /\ Len(got'[fp]) = Len(got[fp]) + 1 \/ got' = got
  BY <1>1, <1>2, GetcKeepsFiles
<1>4. /\ Walk(Banner) # NULL /\ file[fp].node = Walk(Banner)
      /\ message.used = Len(got[fp]) /\ message.size = MESSAGE_SIZE
      /\ message \in Buffers
  BY <1>1 DEF ShellInv, Filling
<1>5. Walk(Banner)' = Walk(Banner)  BY <1>3, WalkUnchanged
<1>6. /\ overrun' => overrun
      /\ message' \in Buffers /\ message'.size = MESSAGE_SIZE
      /\ message'.used <= Len(got'[fp])
      /\ at' = "banner_read" => message'.used = Len(got'[fp])
  <2>1. CASE /\ Reads /\ MoreBanner
             /\ Goto("banner_read", "banner_read")
             /\ overrun' = (overrun \/ ~Room(message))
             /\ message' = [message EXCEPT !.used = @ + 1]
    <3>1. Room(message)  BY <1>4, <2>1 DEF MoreBanner, Room
    <3>2. Len(got'[fp]) = Len(got[fp]) + 1  BY <1>3, <2>1 DEF Reads
    <3>3. overrun' => overrun  BY <2>1, <3>1
    <3>4. /\ message' \in Buffers /\ message'.size = MESSAGE_SIZE
          /\ message'.used = message.used + 1
      BY <1>4, <2>1 DEF Buffers
    <3> QED  BY <1>3, <1>4, <3>2, <3>3, <3>4
  <2>2. CASE /\ Goto("banner_read", "banner_print")
             /\ UNCHANGED <<message, overrun>>
    <3>1. Len(got[fp]) <= Len(got'[fp])  BY <1>3
    <3> QED  BY <1>4, <2>2, <3>1 DEF Goto
  <2> QED  BY <2>1, <2>2 DEF BannerRead
<1>7. Holding'
  BY <1>1, <1>2, <1>3, <1>6 DEF ShellInv, Holding, ReadsFile
<1>8. Filling'
  <2>1. BuffersInBounds'  BY <1>3, <1>6, BoundsKept DEF ShellInv, Filling
  <2> QED  BY <1>1, <1>3, <1>4, <1>5, <1>6, <2>1
      DEF ShellInv, Filling, CatShowsFile
<1> QED  BY <1>3, <1>7, <1>8 DEF ShellInv

\* Only a banner that fills the buffer is followed by a 0 behind its end.
LEMMA BannerPrintKeeps ==
  ASSUME FileInv, ShellInv, BannerPrint
  PROVE  FileInv' /\ ShellInv'
<1>1. /\ at = "banner_print" /\ overrun' = (overrun \/ ~Room(message))
      /\ UNCHANGED <<program, message, line, argv, buffer, opened>>
  BY DEF BannerPrint
<1>2. Open = {fp} /\ fp \in Open /\ program = "shell" /\ phase # "mount"
  BY <1>1 DEF ShellInv, Holding, ReadsFile
<1>3. /\ Walk(Banner) # NULL /\ file[fp].node = Walk(Banner)
      /\ message.used <= Len(got[fp]) /\ message.size = MESSAGE_SIZE
      /\ message \in Buffers
  BY <1>1 DEF ShellInv, Filling
<1>4. ~Room(message) => Size(Walk(Banner)) >= MESSAGE_SIZE
  <2> SUFFICES ASSUME ~Room(message) PROVE Size(Walk(Banner)) >= MESSAGE_SIZE
    OBVIOUS
  <2> DEFINE f == file[fp]
  <2>1. MESSAGE_SIZE \in Nat \ {0}  BY ShellAssumption
  <2>2. f.node \in 0..Len(archive) /\ f.pos \in Nat
    BY <1>2 DEF FileInv, OpenFiles, FilesOf
  <2>3. message.used \in Nat /\ message.used >= MESSAGE_SIZE
    BY <1>3, <2>1 DEF Room, Buffers
  <2>4. Type(f.node) = REGTYPE
    <3> SUFFICES ASSUME Type(f.node) # REGTYPE PROVE FALSE  OBVIOUS
    <3>1. Len(got[fp]) = 0  BY <1>2 DEF FileInv, Reading
    <3> QED  BY <1>3, <2>1, <2>3, <3>1
  <2>5. got[fp] = [i \in 1..f.pos |-> i - 1] /\ f.pos <= Size(f.node)
    BY <1>2, <2>4 DEF FileInv, Reading, ReadsInOrder
  <2>6. Len(got[fp]) = f.pos  BY <2>2, <2>5, AppendNext
  <2>7. Size(f.node) \in Nat  BY <2>2, <2>4, NodeTypes DEF FileInv
  <2>8. Size(f.node) >= MESSAGE_SIZE
    <3> HIDE DEF f
    <3> QED  BY <1>3, <2>1, <2>2, <2>3, <2>5, <2>6, <2>7
  <2> QED  BY <1>3, <2>8
<1>5. ASSUME UNCHANGED <<archive, entries>> PROVE BuffersInBounds'
  <2>1. Walk(Banner)' = Walk(Banner)  BY <1>5, WalkUnchanged
  <2>2. Size(Walk(Banner))' = Size(Walk(Banner))  BY <1>5, <2>1 DEF Size
  <2> QED  BY <1>1, <1>3, <1>4, <2>1, <2>2 DEF ShellInv, Filling, BuffersInBounds
<1>6. CASE /\ fclose(fp) /\ Goto("banner_print", "prompt")
           /\ fp' = NULL /\ chunks' = chunks - 1
  <2>1. /\ FileInv' /\ UNCHANGED <<archive, entries>> /\ phase' # "mount"
        /\ Open' = {}
    BY <1>2, <1>6, CloseKeepsFiles
  <2>2. Holding'
    BY <1>1, <1>2, <1>6, <2>1 DEF ShellInv, Holding, ReadsFile, Goto
  <2>3. Filling'
    BY <1>1, <1>5, <1>6, <2>1 DEF ShellInv, Filling, Goto, CatShowsFile
  <2> QED  BY <2>1, <2>2, <2>3 DEF ShellInv
<1>7. CASE /\ phase' = "panic_banner"
           /\ UNCHANGED <<archive, header, entries, handles, file, got, at, fp, chunks>>
  <2>1. FileInv'  BY <1>7, FileInvUnchanged
  <2>2. Holding'  BY <1>1, <1>2, <1>7 DEF ShellInv, Holding, ReadsFile, Open
  <2>3. Walk(Banner)' = Walk(Banner)  BY <1>7, WalkUnchanged
  <2>4. Filling'
    BY <1>1, <1>3, <1>5, <1>7, <2>3 DEF ShellInv, Filling, CatShowsFile
  <2> QED  BY <2>1, <2>2, <2>4 DEF ShellInv
<1> QED  BY <1>6, <1>7 DEF BannerPrint

\* Where no file is open, only the buffers and the heap matter.
LEMMA LineKeeps ==
  ASSUME FileInv, ShellInv,
         ReadLine \/ Typed \/ Enter \/ Argument \/ Simple \/ FreeLine
  PROVE  FileInv' /\ ShellInv'
<1>1. UNCHANGED files /\ UNCHANGED <<program, fp, message, opened>>
  BY DEF ReadLine, Typed, Enter, Argument, Simple, FreeLine
<1>2. /\ FileInv' /\ UNCHANGED <<archive, entries, phase, file, got>>
      /\ Open' = Open
  BY <1>1, FilesKept
<1>3. LINE_BUFFER_SIZE \in Nat \ {0} /\ ARGS_BUFFER_SIZE \in Nat \ {0}
  BY ShellAssumption
<1>4. /\ at' \in {"prompt", "line", "parse", "free"}
      /\ at \in {"prompt", "line", "parse", "free"}
      /\ program = "shell" /\ phase = "run"
  BY DEF ReadLine, Typed, Enter, Argument, Simple, FreeLine, Goto
<1>5. /\ overrun' => overrun
      /\ line' \in Buffers /\ argv' \in Buffers /\ buffer' \in Buffers
      /\ at' = "line" => Room(line')
      /\ at' = "parse" => Room(argv')
  <2>1. /\ line \in Buffers /\ argv \in Buffers /\ buffer \in Buffers
        /\ at = "line" => Room(line)
        /\ at = "parse" => Room(argv)
    BY DEF ShellInv, Filling
  <2>2. \A n \in Nat : Buffer(n) \in Buffers /\ (n # 0 => Room(Buffer(n)))
    BY EmptyBuffer DEF Room
  <2>3. CASE ReadLine
    BY <1>3, <2>1, <2>2, <2>3 DEF ReadLine, Goto
  <2>4. CASE Typed
    <3>1. Room(line) /\ line.size + LINE_BUFFER_SIZE \in Nat
          /\ line.size + LINE_BUFFER_SIZE > line.size
      BY <1>3, <2>1, <2>4 DEF Typed, Goto, Buffers
    <3> QED  BY <2>1, <2>4, <3>1, StoredRoom DEF Typed, Goto
  <2>5. CASE Enter
    BY <1>3, <2>1, <2>2, <2>5 DEF Enter, Goto
  <2>6. CASE Argument
    <3>1. Room(argv) /\ argv.size + ARGS_BUFFER_SIZE \in Nat
          /\ argv.size + ARGS_BUFFER_SIZE > argv.size
      BY <1>3, <2>1, <2>6 DEF Argument, Goto, Buffers
    <3> QED  BY <2>1, <2>6, <3>1, StoredRoom DEF Argument, Goto
  <2>7. CASE Simple  BY <2>1, <2>7 DEF Simple, Goto
  <2>8. CASE FreeLine  BY <2>1, <2>2, <2>8 DEF FreeLine, Goto
  <2> QED  BY <2>3, <2>4, <2>5, <2>6, <2>7, <2>8
<1>6. /\ at' = "prompt" => chunks' = opened
      /\ at' = "line" => chunks' = opened + 1
      /\ at' \in {"parse", "free"} => chunks' = opened + 2
  BY DEF ReadLine, Typed, Enter, Argument, Simple, FreeLine, Goto, ShellInv, Holding
<1>7. Holding'
  BY <1>1, <1>2, <1>4, <1>5, <1>6 DEF ShellInv, Holding, ReadsFile
<1>8. Filling'
  <2>1. BuffersInBounds'  BY <1>2, <1>5, BoundsKept DEF ShellInv, Filling
  <2> QED  BY <1>1, <1>2, <1>4, <1>5, <2>1
      DEF ShellInv, Filling, CatShowsFile, Room
<1> QED  BY <1>2, <1>7, <1>8 DEF ShellInv

LEMMA CatKeeps ==
  ASSUME FileInv, ShellInv, Cat
  PROVE  FileInv' /\ ShellInv'
<1>1. /\ at = "parse" /\ at' = "cat" /\ program = "shell"
      /\ buffer' = Buffer(CAT_BUFFER_SIZE) /\ chunks' = chunks + 3
      /\ UNCHANGED <<program, message, line, argv, overrun>>
  BY DEF Cat, Goto
<1>2. Open = {}  BY <1>1 DEF ShellInv, Holding, ReadsFile
<1>3. PICK path \in Paths : Opens(path)  BY DEF Cat
<1>4. Len(path) \in Nat
  <2>1. path \in Seq(STRING)  BY ArchivesAssumption DEF Paths, FileInv, Tree
  <2> QED  BY <2>1
<1>5. /\ FileInv' /\ UNCHANGED <<archive, entries>> /\ phase' # "mount"
      /\ Open' = {fp'} /\ got'[fp'] = <<>> /\ opened' = opened + 1
  BY <1>2, <1>3, <1>4, OpensFile
<1>6. Holding'  BY <1>1, <1>5 DEF ShellInv, Holding, ReadsFile
<1>7. Filling'
  <2>1. BuffersInBounds'  BY <1>1, <1>5, BoundsKept DEF ShellInv, Filling
  <2>2. CAT_BUFFER_SIZE \in Nat \ {0}  BY ShellAssumption
  <2>3. buffer' \in Buffers /\ Room(buffer') /\ buffer'.used = 0
    BY <1>1, <2>2, EmptyBuffer DEF Room
  <2>4. Len(got'[fp']) = 0  BY <1>5
  <2> QED  BY <1>1, <1>5, <2>1, <2>3, <2>4
      DEF ShellInv, Filling, CatShowsFile, Room
<1> QED  BY <1>5, <1>6, <1>7 DEF ShellInv

(* The buffer always has room, so builtin_cat goes on until fgetc finds    *)
(* the end of the file or fails.                                           *)
LEMMA CatReadKeeps ==
  ASSUME FileInv, ShellInv, CatRead
  PROVE  FileInv' /\ ShellInv'
<1>1. /\ at = "cat" /\ fgetc(fp) /\ program = "shell"
      /\ at' \in {"cat", "cat_print"}
      /\ UNCHANGED <<program, fp, message, line, argv, chunks, opened, overrun>>
  BY DEF CatRead, Goto
<1>2. Open = {fp} /\ fp \in Open  BY <1>1 DEF ShellInv, Holding, ReadsFile
<1>3. /\ FileInv' /\ UNCHANGED <<archive, entries, phase>> /\ Open' = Open
      /\ file'[fp].node = file[fp].node
      /\ Len(got[fp]) \in Nat
      /\ \/ Len(got'[fp]) = Len(got[fp]) + 1
         \/ /\ got' = got
            /\ IF Type(file[fp].node) = REGTYPE
                 THEN Len(got[fp]) = Size(file[fp].node) /\ file'[fp].eof = 1
                 ELSE Len(got[fp]) = 0 /\ file'[fp].error # 0
  BY <1>1, <1>2, GetcKeepsFiles
<1>4. buffer \in Buffers /\ Room(buffer) /\ buffer.used = Len(got[fp])
  BY <1>1 DEF ShellInv, Filling
<1>5. /\ buffer' \in Buffers /\ Room(buffer')
      /\ at' = "cat" => buffer'.used = Len(got'[fp])
      /\ CatShowsFile'
  <2>1. CASE /\ Reads /\ Goto("cat", "cat")
             /\ buffer' = Stored(buffer, 2 * buffer.size)
    <3>1. Len(got'[fp]) = Len(got[fp]) + 1  BY <1>3, <2>1 DEF Reads
    <3>2. 2 * buffer.size \in Nat /\ 2 * buffer.size > buffer.size
      BY <1>4 DEF Buffers, Room
    <3>3. /\ buffer' \in Buffers /\ Room(buffer')
          /\ buffer'.used = buffer.used + 1
      BY <1>4, <2>1, <3>2, StoredRoom
    <3> QED  BY <1>4, <2>1, <3>1, <3>3 DEF Goto, CatShowsFile
  <2>2. CASE /\ ~(Reads /\ Room(buffer)) /\ Goto("cat", "cat_print")
             /\ UNCHANGED buffer
    <3>1. ~Reads  BY <1>4, <2>2
    <3>2. IF Type(file[fp].node) = REGTYPE
            THEN Len(got[fp]) = Size(file[fp].node) /\ file'[fp].eof = 1
            ELSE Len(got[fp]) = 0 /\ file'[fp].error # 0
      BY <1>3, <3>1 DEF Reads
    <3>3. CatShowsFile'
      BY <1>1, <1>3, <1>4, <2>2, <3>2 DEF CatShowsFile, Type, Size
    <3> QED  BY <1>4, <2>2, <3>3 DEF Goto, Room
  <2> QED  BY <2>1, <2>2 DEF CatRead
<1>6. Holding'  BY <1>1, <1>2, <1>3 DEF ShellInv, Holding, ReadsFile
<1>7. Filling'
  <2>1. BuffersInBounds'  BY <1>1, <1>3, BoundsKept DEF ShellInv, Filling
  <2> QED  BY <1>1, <1>3, <1>5, <2>1 DEF ShellInv, Filling, Room
<1> QED  BY <1>3, <1>6, <1>7 DEF ShellInv

LEMMA CatPrintKeeps ==
  ASSUME FileInv, ShellInv, CatPrint
  PROVE  FileInv' /\ ShellInv'
<1>1. /\ at = "cat_print" /\ at' = "free" /\ program = "shell" /\ fclose(fp)
      /\ overrun' = (overrun \/ ~Room(buffer)) /\ chunks' = chunks - 2
      /\ UNCHANGED <<program, message, line, argv, buffer, opened>>
  BY DEF CatPrint, Goto, CatFreed
<1>2. Open = {fp} /\ fp \in Open  BY <1>1 DEF ShellInv, Holding, ReadsFile
<1>3. /\ FileInv' /\ UNCHANGED <<archive, entries>> /\ phase' # "mount"
      /\ Open' = {}
  BY <1>1, <1>2, CloseKeepsFiles
<1>4. overrun' => overrun  BY <1>1 DEF ShellInv, Filling
<1>5. Holding'  BY <1>1, <1>3 DEF ShellInv, Holding, ReadsFile
<1>6. Filling'
  <2>1. BuffersInBounds'  BY <1>3, <1>4, BoundsKept DEF ShellInv, Filling
  <2> QED  BY <1>1, <1>3, <2>1 DEF ShellInv, Filling, CatShowsFile, Room
<1> QED  BY <1>3, <1>5, <1>6 DEF ShellInv

\* Nothing happens.
LEMMA StutterKeeps ==
  ASSUME FileInv, ShellInv, UNCHANGED allvars
  PROVE  FileInv' /\ ShellInv'
<1>1. UNCHANGED files /\ UNCHANGED shell  BY DEF allvars
<1>2. /\ FileInv' /\ UNCHANGED <<archive, entries, phase, file, got>>
      /\ Open' = Open /\ Walk(Banner)' = Walk(Banner)
  BY <1>1, FilesKept
<1>3. Holding'  BY <1>1, <1>2 DEF shell, ShellInv, Holding, ReadsFile
<1>4. Filling'
  <2>1. BuffersInBounds'  BY <1>1, <1>2, BoundsKept DEF shell, ShellInv, Filling
  <2> QED  BY <1>1, <1>2, <2>1
      DEF shell, ShellInv, Filling, CatShowsFile, Room, Type, Size
<1> QED  BY <1>2, <1>3, <1>4 DEF ShellInv

-----------------------------------------------------------------------------
(* Inv is inductive: the tree, the open files, what was read from them,    *)
(* what the first task holds and what its buffers hold stay as it says at  *)
(* every step of fs_mount, print_banner, the shell or any other program    *)
(* that uses stdio.                                                        *)
THEOREM Invariant == ShellSpec => []Inv
<1>1. ShellInit => Inv  BY InvInit DEF Inv, FileInv, ShellInv
<1>2. Inv /\ [ShellNext]_allvars => Inv'
  <2> SUFFICES ASSUME FileInv, ShellInv, [ShellNext]_allvars
               PROVE  FileInv' /\ ShellInv'
    BY DEF Inv, FileInv, ShellInv
  <2>1. CASE Mount /\ UNCHANGED shell  BY <2>1, MountKeeps
  <2>2. CASE BannerOpen  BY <2>2, BannerOpenKeeps
  <2>3. CASE BannerRead  BY <2>3, BannerReadKeeps
  <2>4. CASE BannerPrint  BY <2>4, BannerPrintKeeps
  <2>5. CASE ReadLine \/ Typed \/ Enter \/ Argument \/ Simple \/ FreeLine
    BY <2>5, LineKeeps
  <2>6. CASE Cat  BY <2>6, CatKeeps
  <2>7. CASE CatRead  BY <2>7, CatReadKeeps
  <2>8. CASE CatPrint  BY <2>8, CatPrintKeeps
  <2>9. CASE program = "files" /\ Next /\ UNCHANGED shell
    BY <2>9, OtherProgramKeeps
  <2>10. CASE UNCHANGED allvars  BY <2>10, StutterKeeps
  <2> QED
    BY <2>1, <2>2, <2>3, <2>4, <2>5, <2>6, <2>7, <2>8, <2>9, <2>10
    DEF ShellNext, test_shell
<1> QED  BY <1>1, <1>2, PTL DEF ShellSpec

(* vn_close always finds its handle: the table of the process holds the    *)
(* open files, each once, and no freed handle.                             *)
THEOREM HandlesCorrect == ShellSpec => []HandlesExact
<1>1. Inv => HandlesExact
  <2> SUFFICES ASSUME Inv PROVE HandlesExact  OBVIOUS
  <2>1. ASSUME phase = "run" PROVE {handles[i] : i \in Table} \ {NULL} = Open
    <3>1. \A i \in Table : handles[i] # NULL => handles[i] \in Open
      BY <2>1 DEF Inv, OpenFiles
    <3>2. \A h \in Open : h # NULL /\ \E i \in Table : handles[i] = h
      BY <2>1, HandlesAssumption DEF Inv, OpenFiles
    <3> QED  BY <3>1, <3>2
  <2> QED  BY <2>1 DEF Inv, OpenFiles, HandlesExact
<1> QED  BY <1>1, Invariant, PTL

(* fgetc returns the characters of a file in order, each once, and end of  *)
(* file after the last one: node_rdwr computes what is left of the file    *)
(* modulo 2^32 and still never reads behind its end.                       *)
THEOREM ReadsCorrect == ShellSpec => []ReadsInOrder
<1>1. Inv => ReadsInOrder  BY DEF Inv, Reading
<1> QED  BY <1>1, Invariant, PTL

(* print_banner, readline, parseline and builtin_cat write inside their    *)
(* buffers, whatever their sizes, unless banner.conf fills the buffer of   *)
(* print_banner.                                                           *)
THEOREM BuffersCorrect == ShellSpec => []BuffersInBounds
<1>1. Inv => BuffersInBounds  BY DEF Inv, Filling
<1> QED  BY <1>1, Invariant, PTL

(* After a command no file is open, and the heap has lost one chunk for    *)
(* each file that was opened and nothing else.                             *)
THEOREM CommandsCorrect == ShellSpec => []CommandsGiveBack
<1>1. Inv => CommandsGiveBack  BY DEF Inv, Holding, ReadsFile, CommandsGiveBack
<1> QED  BY <1>1, Invariant, PTL

(* builtin_cat shows the whole of a regular file, of any size, and nothing *)
(* of a directory.                                                         *)
THEOREM CatCorrect == ShellSpec => []CatShowsFile
<1>1. Inv => CatShowsFile  BY DEF Inv, Filling
<1> QED  BY <1>1, Invariant, PTL

-----------------------------------------------------------------------------
(* The tree and the archive.                                               *)

(* Every path, of the archive or not, leads where the headers mounted so   *)
(* far say, and the vnodes of the others have no entries yet.              *)
Named ==
  /\ header \in 1..(Len(archive) + 1)
  /\ \A i \in 1..(header - 1) : Creatable(archive[i])
  /\ \A i \in header..Len(archive) : entries[i] = <<>>
  /\ NamedIn(archive, entries, header - 1)

LEMMA NamedInit == ShellInit => Named
<1> SUFFICES ASSUME ShellInit PROVE Named  OBVIOUS
<1> DEFINE n == Len(archive)
<1>1. /\ archive \in Archives /\ header = 1
      /\ entries = [vp \in 0..n |-> <<>>]
  BY DEF ShellInit, Init, MountInit
<1>2. n \in Nat  BY <1>1, ArchivesAssumption
<1> HIDE DEF n
<1>3. IsTree(entries, n)  BY <1>1 DEF IsTree, IsDirectory
<1>4. Stepwise(archive, entries)  BY <1>2, <1>3, WalkSteps
<1>5. \A vp \in (0..n) \cup {NULL} : \A x : LookupIn(archive, entries, vp, x) = NULL
  <2>1. \A vp \in 0..n : entries[vp] = <<>>  BY <1>1
  <2>2. DOMAIN <<>> = {}  OBVIOUS
  <2> QED  BY <2>1, <2>2 DEF LookupIn
<1>6. ASSUME NEW r \in Seq(STRING), r # <<>>
      PROVE  WalkIn(archive, entries, r) = MeantIn(archive, 0, r)
  <2>1. Above(r) \in Seq(STRING) /\ Len(Above(r)) \in Nat  BY <1>6, AboveFacts
  <2>2. WalkIn(archive, entries, Above(r)) \in (0..n) \cup {NULL}
    BY <1>2, <1>3, <2>1, WalkInTree DEF IsTree
  <2>3. WalkIn(archive, entries, r) = NULL
    BY <1>4, <1>5, <1>6, <2>2 DEF Stepwise
  <2>4. VisibleIn(archive, 0, r) = {}  BY DEF VisibleIn
  <2> QED  BY <2>3, <2>4 DEF MeantIn
<1>7. NamedIn(archive, entries, header - 1)
  <2>1. header - 1 = 0  BY <1>1
  <2> QED  BY <1>6, <2>1 DEF NamedIn
<1>8. \A i \in header..n : entries[i] = <<>>
  <2>1. \A i \in header..n : i \in 0..n  BY <1>1
  <2> QED  BY <1>1, <2>1
<1>9. header \in 1..(n + 1) /\ \A i \in 1..(header - 1) : FALSE  BY <1>1, <1>2
<1> QED  BY <1>7, <1>8, <1>9 DEF Named, n

LEMMA NamedMounted ==
  ASSUME Tree, Tree', Named, MountHeader
  PROVE  Named'
<1> DEFINE n == Len(archive)
           m == header - 1
           q == archive[header].path
           v == WalkIn(archive, entries, Above(q))
           e == [name |-> q[Len(q)], vnode |-> header]
<1>1. /\ archive \in Archives /\ n \in Nat /\ DOMAIN archive = 1..n
      /\ DOMAIN entries = 0..n /\ IsTree(entries, n)
  BY ArchivesAssumption DEF Tree, IsTree
<1>2. /\ archive' = archive /\ header' = header + 1 /\ header <= n
      /\ Creatable(archive[header])
      /\ lookup_parent(q) # NULL
      /\ entries' = [entries EXCEPT ![lookup_parent(q)] = <<e>> \o @]
  BY DEF MountHeader, add_to_dir, list_add
<1>3. header \in 1..n /\ m \in 0..(n - 1) /\ header = m + 1 /\ header \in DOMAIN archive
  BY <1>1, <1>2 DEF Tree
<1>4. q \in Seq(STRING) /\ q # <<>>  BY <1>1, <1>3, ArchivesAssumption
<1>5. Above(q) \in Seq(STRING) /\ Len(Above(q)) \in Nat
  <2> HIDE DEF q
  <2> QED  BY <1>4, AboveFacts
<1>6. lookup_parent(q) = v  BY WalkIsWalkIn DEF lookup_parent, Above
<1>7. v # NULL /\ v \in 0..n
  <2>1. v \in (0..n) \cup {NULL}  BY <1>1, <1>5, WalkInTree DEF IsTree
  <2> QED  BY <1>2, <1>6, <2>1
<1>8. IsTree(entries', n)  BY <1>2 DEF Tree, IsTree
<1>9. entries' = [entries EXCEPT ![v] = <<e>> \o @]  BY <1>2, <1>6
<1>10. EntryAdded(entries, entries', n, v, e)
  <2> HIDE DEF v, e, n
  <2> QED  BY <1>1, <1>9 DEF EntryAdded
<1>11. /\ \A i \in 1..m : Creatable(archive[i])
       /\ entries[header] = <<>>
       /\ NamedIn(archive, entries, m)
  <2>1. header \in header..n  BY <1>3
  <2> QED  BY <2>1 DEF Named
<1>12. NamedIn(archive, entries', header)
  <2>1. q = archive[header].path /\ v = WalkIn(archive, entries, Above(q))
        /\ EntryAdded(entries, entries', n, v, [name |-> q[Len(q)], vnode |-> header])
    BY <1>10
  <2>2. n = Len(archive)  OBVIOUS
  <2> HIDE DEF q, v, n, m, e
  <2> QED
    BY ONLY <1>1, <1>3, <1>7, <1>8, <1>11, <2>1, <2>2, HeaderNamed
<1>13. \A i \in 1..header : Creatable(archive[i])
  <2>1. \A i \in 1..header : i \in 1..m \/ i = header  BY <1>3
  <2> QED  BY <1>2, <1>11, <2>1
<1>14. ASSUME NEW i \in (header + 1)..n PROVE entries'[i] = <<>>
  <2>1. i \in header..n /\ i \in 0..n /\ i # header  BY <1>3
  <2>2. entries[i] = <<>>  BY <2>1 DEF Named
  <2>3. i # v
    <3>1. WalkIn(archive, entries, Above(q)) = root \/ v \in 1..m
      <4>1. CASE Above(q) = <<>>
        <5>1. Stepwise(archive, entries)  BY <1>1, WalkSteps
        <5> QED  BY <4>1, <5>1 DEF Stepwise
      <4>2. CASE Above(q) # <<>>
        <5>1. v = MeantIn(archive, m, Above(q))  BY <1>5, <1>11, <4>2 DEF NamedIn
        <5>2. VisibleIn(archive, m, Above(q)) # {}  BY <1>7, <5>1 DEF MeantIn
        <5>3. m \in Nat  BY <1>3
        <5>4. MeantIn(archive, m, Above(q)) \in 1..m  BY ONLY <5>2, <5>3, MeantLast
        <5> QED  BY <5>1, <5>4
      <4> QED  BY <4>1, <4>2
    <3> HIDE DEF v
    <3>2. v = 0 \/ v \in 1..m  BY <3>1 DEF v, root
    <3> QED  BY <1>3, <3>2
  <2> QED  BY <1>10, <2>1, <2>2, <2>3 DEF EntryAdded
<1>15. header' - 1 = header /\ header' \in 1..(n + 1)  BY <1>2, <1>3
<1>16. NamedIn(archive', entries', header' - 1)
  BY <1>2, <1>12, <1>15
<1> QED  BY <1>2, <1>13, <1>14, <1>15, <1>16 DEF Named

\* Nothing but MountHeader changes the tree.
LEMMA TreeUnchanged ==
  ASSUME [ShellNext]_allvars
  PROVE  MountHeader \/ UNCHANGED <<archive, header, entries>>
<1> DEFINE Same == UNCHANGED <<archive, header, entries>>
<1>1. Mount => MountHeader \/ Same
  BY DEF Mount, fs_mount, MountFails, MountDone
<1>2. ASSUME NEW path, fopen(path) PROVE Same  BY <1>2 DEF fopen, OpenNode, tarfs
<1>3. ASSUME NEW h, fclose(h) \/ fgetc(h) \/ clearerr(h) PROVE Same
  BY <1>3 DEF fclose, fgetc, clearerr, tarfs
<1>4. UNCHANGED files => Same  BY DEF files, tarfs
<1> HIDE DEF Same
<1>5. Next => MountHeader \/ Same  BY <1>1, <1>2, <1>3 DEF Next
<1>6. BannerOpen => Same
  <2>1. UNCHANGED <<archive, header, entries>> => Same  BY DEF Same
  <2> QED  BY <1>2, <2>1 DEF BannerOpen, Opens
<1>7. BannerRead \/ CatRead => Same  BY <1>3 DEF BannerRead, CatRead
<1>8. BannerPrint => Same
  <2>1. UNCHANGED <<archive, header, entries>> => Same  BY DEF Same
  <2> QED  BY <1>3, <2>1 DEF BannerPrint
<1>9. ReadLine \/ Typed \/ Enter \/ Argument \/ Simple \/ FreeLine => UNCHANGED files
  BY DEF ReadLine, Typed, Enter, Argument, Simple, FreeLine
<1>10. Cat \/ CatPrint => Same  BY <1>2, <1>3 DEF Cat, CatPrint, Opens
<1>11. UNCHANGED allvars => UNCHANGED files  BY DEF allvars
<1>12. MountHeader \/ Same
  BY <1>1, <1>4, <1>5, <1>6, <1>7, <1>8, <1>9, <1>10, <1>11 DEF ShellNext, test_shell
<1> QED  BY <1>12 DEF Same

(* node_lookup finds the last header of each path, unless a later one      *)
(* replaced a directory on the way, and nothing for any other path: for    *)
(* every archive, in every order of its headers.                           *)
THEOREM LookupCorrect == ShellSpec => []LookupFindsLast
<1>1. Named /\ Inv /\ Inv' /\ [ShellNext]_allvars => Named'
  <2> SUFFICES ASSUME Named, Inv, Inv', [ShellNext]_allvars PROVE Named'  OBVIOUS
  <2>1. CASE MountHeader  BY <2>1, NamedMounted DEF Inv
  <2>2. CASE UNCHANGED <<archive, header, entries>>  BY <2>2 DEF Named
  <2> QED  BY <2>1, <2>2, TreeUnchanged
<1>2. Named /\ Inv => LookupFindsLast
  <2> SUFFICES ASSUME Named, Inv, NEW i \in DOMAIN archive
               PROVE  LET path == archive[i].path IN
                      Walk(path) = IF Visible(path) = {} THEN NULL ELSE Max(Visible(path))
    BY DEF LookupFindsLast
  <2> DEFINE r == archive[i].path
  <2>1. archive \in Archives  BY DEF Inv, Tree
  <2>2. r \in Seq(STRING) /\ r # <<>>  BY <2>1, ArchivesAssumption
  <2>3. Walk(r) = MeantIn(archive, header - 1, r)
    BY <2>2, WalkIsWalkIn DEF Named, NamedIn
  <2>4. Visible(r) = VisibleIn(archive, header - 1, r)
    BY DEF Visible, VisibleIn, Loaded
  <2> QED  BY <2>3, <2>4 DEF MeantIn
<1> QED  BY <1>1, <1>2, NamedInit, Invariant, PTL DEF ShellSpec

=============================================================================
