---------------------------- MODULE ListsProofs ----------------------------
(***************************************************************************)
(* What KeepPlaces, Only and Sorted return, for every list.                *)
(***************************************************************************)
EXTENDS Lists, TLAPS, WellFoundedInduction, SequenceTheorems, FunctionTheorems,
        FiniteSetTheorems

-----------------------------------------------------------------------------
(* KeepPlaces *)

LEMMA LeastOfNat ==
    ASSUME NEW T, T \subseteq Nat, T # {}
    PROVE  \E n \in T : \A m \in T : n <= m
<1>1. IsWellFoundedOn(OpToRel(<, Nat), Nat)
  BY NatLessThanWellFounded
<1>2. PICK n \in T : \A m \in T : ~(<<m, n>> \in OpToRel(<, Nat))
  BY <1>1, WFMin
<1>3. \A m \in T : ~(m < n)
  BY <1>2 DEF OpToRel
<1> QED
  BY <1>3

\* FlattenSeq joins the first lists of q one after the other.
Joins(F, q, m) ==
    F = [i \in 1..m |-> IF i = 1 THEN q[i] ELSE F[i - 1] \o q[i]]

LEMMA JoinsExist ==
    ASSUME NEW q, NEW m \in Nat
    PROVE  \E F : Joins(F, q, m)
<1> DEFINE Bad == {n \in Nat : ~\E F : Joins(F, q, n)}
<1> SUFFICES ASSUME Bad # {} PROVE FALSE
  OBVIOUS
<1>1. PICK n \in Bad : \A k \in Bad : n <= k
  BY LeastOfNat
<1>2. n # 0
  <2> SUFFICES Joins([i \in {} |-> i], q, 0)
    BY <1>1
  <2>1. 1..0 = {}
    OBVIOUS
  <2> QED
    BY <2>1 DEF Joins
<1>3. PICK F : Joins(F, q, n - 1)
  <2>1. n - 1 \in Nat /\ ~(n <= n - 1)
    BY <1>2
  <2> QED
    BY <2>1, <1>1
<1> DEFINE J(f, i) == IF i = 1 THEN q[i] ELSE f[i - 1] \o q[i]
           G == [i \in 1..n |-> J(F, i)]
<1>4. F = [i \in 1..(n - 1) |-> J(F, i)]
  BY <1>3 DEF Joins
<1>5. ASSUME NEW i \in 1..(n - 1) PROVE G[i] = F[i]
  <2> HIDE DEF J
  <2>1. i \in 1..n
    OBVIOUS
  <2> QED
    BY <1>4, <2>1
<1>6. \A i \in 1..n : J(G, i) = J(F, i)
  <2> TAKE i \in 1..n
  <2>1. CASE i = 1
    BY <2>1
  <2>2. CASE i # 1
    <3>1. i - 1 \in 1..(n - 1)
      BY <2>2
    <3>2. G[i - 1] = F[i - 1]
      BY <3>1, <1>5
    <3> HIDE DEF G
    <3> QED
      BY <3>2
  <2> QED
    BY <2>1, <2>2
<1>7. Joins(G, q, n)
  BY <1>6 DEF Joins
<1> QED
  BY <1>1, <1>7

LEMMA FlattenJoins ==
    ASSUME NEW q, Len(q) \in Nat, Len(q) # 0
    PROVE  \E F : Joins(F, q, Len(q)) /\ FlattenSeq(q) = F[Len(q)]
<1> DEFINE F == CHOOSE F : F = [i \in 1..Len(q) |-> IF i = 1 THEN q[i] ELSE F[i - 1] \o q[i]]
<1>1. Joins(F, q, Len(q))
  BY JoinsExist DEF Joins
<1>2. FlattenSeq(q) = F[Len(q)]
  BY DEF FlattenSeq
<1> QED
  BY <1>1, <1>2

\* r lists the elements of view at the places in P, each once and in their order; g
\* says where its elements come from.
Lists(g, r, view, P) ==
    /\ g \in [DOMAIN r -> P]
    /\ \A k \in DOMAIN r : r[k] = view[g[k]]
    /\ \A k, m \in DOMAIN r : k < m => g[k] < g[m]
    /\ \A k, m \in DOMAIN r : g[k] = g[m] => k = m
    /\ \A j \in P : \E k \in DOMAIN r : g[k] = j

LEMMA ListsOneMore ==
    ASSUME NEW S, NEW view \in Seq(S), NEW P \in SUBSET DOMAIN view, NEW n \in DOMAIN view,
           \A j \in P : j < n, NEW r \in Seq(S), NEW g, Lists(g, r, view, P)
    PROVE  \E h : Lists(h, r \o <<view[n]>>, view, P \cup {n})
<1> DEFINE s == r \o <<view[n]>>
           h == [k \in DOMAIN s |-> IF k \in DOMAIN r THEN g[k] ELSE n]
<1>1. /\ DOMAIN s = 1..(Len(r) + 1) /\ DOMAIN r = 1..Len(r)
      /\ \A k \in DOMAIN r : s[k] = r[k] /\ h[k] = g[k]
      /\ s[Len(r) + 1] = view[n] /\ h[Len(r) + 1] = n
      /\ Len(r) + 1 \notin DOMAIN r
  OBVIOUS
<1>2. h \in [DOMAIN s -> P \cup {n}]
  BY DEF Lists
<1> HIDE DEF h, s
<1>3. \A k \in DOMAIN s : k \in DOMAIN r \/ k = Len(r) + 1
  BY <1>1
<1>4. \A k \in DOMAIN s : s[k] = view[h[k]]
  BY <1>1, <1>3 DEF Lists
<1>8. \A k \in DOMAIN r : g[k] \in P /\ g[k] < n /\ n # g[k]
  BY DEF Lists
<1>5. \A k, m \in DOMAIN s : h[k] = h[m] => k = m
  BY <1>1, <1>3, <1>8 DEF Lists
<1>9. \A k, m \in DOMAIN s : k < m => h[k] < h[m]
  <2> SUFFICES ASSUME NEW k \in DOMAIN s, NEW m \in DOMAIN s, k < m PROVE h[k] < h[m]
    OBVIOUS
  <2>1. k \in DOMAIN r /\ h[k] = g[k]
    BY <1>1, <1>3
  <2>2. CASE m \in DOMAIN r
    BY <2>1, <2>2, <1>1 DEF Lists
  <2>3. CASE m = Len(r) + 1
    BY <2>1, <2>3, <1>1, <1>8
  <2> QED
    BY <2>2, <2>3, <1>3
<1>6. \A j \in P \cup {n} : \E k \in DOMAIN s : h[k] = j
  <2>1. n = h[Len(r) + 1] /\ Len(r) + 1 \in DOMAIN s
    BY <1>1
  <2>2. \A j \in P : \E k \in DOMAIN r : g[k] = j
    BY DEF Lists
  <2>3. \A k \in DOMAIN r : k \in DOMAIN s /\ h[k] = g[k]
    BY <1>1
  <2> QED
    BY <2>1, <2>2, <2>3
<1>7. Lists(h, s, view, P \cup {n})
  BY <1>2, <1>4, <1>5, <1>6, <1>9 DEF Lists
<1> QED
  BY <1>7 DEF s

\* KeepPlaces keeps the cards at the given places, each once, and no others.
LEMMA KeptPlaces ==
    ASSUME NEW S, NEW view \in Seq(S), NEW P \in SUBSET DOMAIN view
    PROVE  /\ KeepPlaces(view, P) \in Seq(S)
           /\ \E g : Lists(g, KeepPlaces(view, P), view, P)
<1> DEFINE q == [j \in DOMAIN view |-> IF j \in P THEN <<view[j]>> ELSE <<>>]
           Upto(n) == P \cap 1..n
<1>0. KeepPlaces(view, P) = FlattenSeq(q)
  BY DEF KeepPlaces
<1>1. q \in Seq(Seq(S)) /\ Len(q) = Len(view) /\ DOMAIN view = 1..Len(view) /\ Len(view) \in Nat
  <2>1. DOMAIN view = 1..Len(view) /\ Len(view) \in Nat
    OBVIOUS
  <2>2. \A j \in DOMAIN view : q[j] \in Seq(S)
    OBVIOUS
  <2>3. q \in [1..Len(view) -> Seq(S)]
    BY <2>1, <2>2
  <2> HIDE DEF q
  <2>4. q \in Seq(Seq(S))
    BY <2>1, <2>3, SeqDef
  <2> QED
    BY <2>1, <2>3, <2>4
<1>2. CASE Len(view) = 0
  <2>1. FlattenSeq(q) = q /\ q = <<>>
    BY <1>2, <1>1 DEF FlattenSeq
  <2>2. Lists(<<>>, <<>>, view, P)
    BY <1>1, <1>2 DEF Lists
  <2>3. FlattenSeq(q) = <<>>
    BY <2>1
  <2> HIDE DEF q
  <2> QED
    BY <1>0, <2>3, <2>2
<1>3. CASE Len(view) # 0
  <2>1. PICK F : Joins(F, q, Len(view)) /\ FlattenSeq(q) = F[Len(view)]
    BY <1>1, <1>3, FlattenJoins
  <2>2. \A i \in 1..Len(view) : F[i] = IF i = 1 THEN q[i] ELSE F[i - 1] \o q[i]
    BY <2>1 DEF Joins
  <2> DEFINE Good(n) == F[n] \in Seq(S) /\ \E g : Lists(g, F[n], view, Upto(n))
             Bad == {n \in 1..Len(view) : ~Good(n)}
  <2> HIDE DEF q
  <2>3. \A i \in 1..Len(view) : q[i] = IF i \in P THEN <<view[i]>> ELSE <<>>
    BY <1>1 DEF q
  <2>4. Bad = {}
    <3> SUFFICES ASSUME Bad # {} PROVE FALSE
      OBVIOUS
    <3>1. Bad \subseteq Nat
      BY <1>1
    <3>2. PICK n \in Bad : \A m \in Bad : n <= m
      <4> HIDE DEF Bad
      <4> QED
        BY <3>1, LeastOfNat
    <3>3. n \in 1..Len(view)
      OBVIOUS
    <3> DEFINE prev == IF n = 1 THEN <<>> ELSE F[n - 1]
    <3>4. F[n] = prev \o q[n]
      <4>1. CASE n = 1
        <5>1. q[1] \in Seq(S)
          BY <1>1, <3>3, <4>1
        <5> QED
          BY <4>1, <5>1, <2>2, <3>3
      <4> QED
        BY <4>1, <2>2, <3>3
    <3>5. prev \in Seq(S) /\ \E g : Lists(g, prev, view, Upto(n - 1))
      <4>1. CASE n = 1
        <5>1. Lists(<<>>, <<>>, view, Upto(n - 1))
          BY <4>1 DEF Lists
        <5> QED
          BY <4>1, <5>1
      <4>2. CASE n # 1
        <5>1. n - 1 \in 1..Len(view) /\ ~(n <= n - 1)
          BY <3>3, <4>2, <1>1
        <5>2. Good(n - 1)
          BY <5>1, <3>2
        <5> QED
          BY <4>2, <5>2
      <4> QED
        BY <4>1, <4>2
    <3>6. PICK g : Lists(g, prev, view, Upto(n - 1))
      BY <3>5
    <3>7. CASE n \in P
      <4>1. Upto(n) = Upto(n - 1) \cup {n} /\ \A j \in Upto(n - 1) : j < n
        BY <3>7, <3>3, <1>1
      <4>2. F[n] = prev \o <<view[n]>>
        BY <3>4, <3>7, <3>3, <2>3
      <4>3. \E h : Lists(h, prev \o <<view[n]>>, view, Upto(n - 1) \cup {n})
        <5> HIDE DEF prev
        <5>1. Upto(n - 1) \in SUBSET DOMAIN view /\ n \in DOMAIN view /\ \A j \in Upto(n - 1) : j < n
          BY <3>3, <1>1
        <5> HIDE DEF Upto
        <5> QED
          BY <5>1, <3>5, <3>6, ListsOneMore
      <4>4. F[n] \in Seq(S)
        <5> HIDE DEF prev
        <5> QED
          BY <4>2, <3>5, <3>3, <1>1
      <4> QED
        BY <4>1, <4>2, <4>3, <4>4
    <3>8. CASE n \notin P
      <4>1. Upto(n) = Upto(n - 1)
        BY <3>8, <3>3, <1>1
      <4>2. F[n] = prev
        <5>1. q[n] = <<>>
          BY <3>8, <3>3, <2>3
        <5> HIDE DEF prev
        <5> QED
          BY <5>1, <3>4, <3>5
      <4> QED
        BY <4>1, <4>2, <3>5, <3>6
    <3> QED
      BY <3>7, <3>8
  <2>5. Good(Len(view))
    <3>1. Len(view) \in 1..Len(view)
      BY <1>3, <1>1
    <3> HIDE DEF Good
    <3> QED
      BY <2>4, <3>1
  <2>6. Upto(Len(view)) = P
    BY <1>1
  <2> QED
    BY <2>5, <2>6, <2>1, <1>0
<1> QED
  BY <1>1, <1>2, <1>3

-----------------------------------------------------------------------------
(* Only *)

LEMMA OnlyKeeps ==
    ASSUME NEW A, NEW list \in Seq(A), NEW S
    PROVE  LET r == Only(list, S)
           IN  /\ r \in Seq(A)
               /\ \A k \in DOMAIN r : r[k] \in S /\ \E j \in DOMAIN list : r[k] = list[j]
               /\ \A j \in DOMAIN list : list[j] \in S => \E k \in DOMAIN r : r[k] = list[j]
<1> DEFINE P == {k \in DOMAIN list : list[k] \in S}
           r == KeepPlaces(list, P)
<1>1. P \in SUBSET DOMAIN list
  OBVIOUS
<1>2. r \in Seq(A) /\ \E g : Lists(g, r, list, P)
  <2> HIDE DEF P
  <2> QED
    BY <1>1, KeptPlaces
<1>3. PICK g : Lists(g, r, list, P)
  BY <1>2
<1>4. Only(list, S) = r
  BY DEF Only
<1> HIDE DEF r
<1> QED
  BY <1>2, <1>3, <1>4 DEF Lists

\* What is left of a list stands in the order it stood in.
LEMMA OnlyArranges ==
    ASSUME NEW A, NEW list \in Seq(A), NEW R, Arranges(list, A, R), NEW S
    PROVE  Only(list, S) \in Seq(A \cap S) /\ Arranges(Only(list, S), A \cap S, R)
<1> DEFINE P == {k \in DOMAIN list : list[k] \in S}
           r == KeepPlaces(list, P)
<1>1. P \in SUBSET DOMAIN list
  OBVIOUS
<1>2. r \in Seq(A) /\ \E g : Lists(g, r, list, P)
  <2> HIDE DEF P
  <2> QED
    BY <1>1, KeptPlaces
<1>3. PICK g : Lists(g, r, list, P)
  BY <1>2
<1>4. Only(list, S) = r
  BY DEF Only
<1> HIDE DEF r
<1>5. \A k \in DOMAIN r : g[k] \in P /\ r[k] = list[g[k]]
  BY <1>3 DEF Lists
<1>6. \A k \in DOMAIN r : r[k] \in A \cap S
  BY <1>5 DEF Arranges
<1>7. r \in Seq(A \cap S)
  BY <1>6, <1>2
<1>8. \A x \in A \cap S : \E k \in DOMAIN r : r[k] = x
  <2> TAKE x \in A \cap S
  <2>1. PICK j \in DOMAIN list : list[j] = x
    BY DEF Arranges
  <2>2. PICK k \in DOMAIN r : g[k] = j
    BY <2>1, <1>3 DEF Lists
  <2> QED
    BY <2>1, <2>2, <1>5
<1>9. \A i, j \in DOMAIN r : i < j => <<r[i], r[j]>> \in R
  <2> SUFFICES ASSUME NEW i \in DOMAIN r, NEW j \in DOMAIN r, i < j PROVE <<r[i], r[j]>> \in R
    OBVIOUS
  <2>1. g[i] < g[j]
    BY <1>3 DEF Lists
  <2> QED
    BY <2>1, <1>5 DEF Arranges
<1> QED
  BY <1>4, <1>6, <1>7, <1>8, <1>9 DEF Arranges

-----------------------------------------------------------------------------
(* Sorted *)

\* R is an order in which no two elements of S are alike.
Strict(S, R) ==
    /\ \A x, y \in S : <<x, y>> \in R => <<y, x>> \notin R
    /\ \A x, y, z \in S : <<x, y>> \in R /\ <<y, z>> \in R => <<x, z>> \in R
    /\ \A x, y \in S : x # y => <<x, y>> \in R \/ <<y, x>> \in R

LEMMA ArrangedOnce ==
    ASSUME NEW S, NEW R, \A x, y \in S : <<x, y>> \in R => <<y, x>> \notin R,
           NEW a \in Seq(S), NEW b \in Seq(S), Arranges(a, S, R), Arranges(b, S, R)
    PROVE  a = b
<1>1. DOMAIN a = 1 .. Len(a) /\ Len(a) \in Nat /\ DOMAIN b = 1 .. Len(b) /\ Len(b) \in Nat
  OBVIOUS
<1> DEFINE Bad == {n \in DOMAIN a \cup DOMAIN b : ~(n \in DOMAIN a /\ n \in DOMAIN b /\ a[n] = b[n])}
<1>2. ASSUME Bad # {} PROVE FALSE
  <2>1. Bad \subseteq Nat
    BY <1>1
  <2>2. PICK n \in Bad : \A m \in Bad : n <= m
    <3> HIDE DEF Bad
    <3> QED
      BY <2>1, <1>2, LeastOfNat
  <2>3. \A m \in 1 .. (n - 1) : m \in DOMAIN a /\ m \in DOMAIN b /\ a[m] = b[m]
    <3> TAKE m \in 1 .. (n - 1)
    <3>1. m \notin Bad /\ m \in DOMAIN a \cup DOMAIN b
      BY <2>1, <2>2, <1>1
    <3> QED
      BY <3>1
  <2>4. ASSUME n \in DOMAIN a PROVE \E k \in DOMAIN b : n < k /\ b[k] = a[n]
    <3>1. PICK k \in DOMAIN b : b[k] = a[n]
      BY <2>4 DEF Arranges
    <3>2. ~(k < n)
      <4> SUFFICES ASSUME k < n PROVE FALSE
        OBVIOUS
      <4>1. k \in DOMAIN a /\ a[k] = a[n] /\ a[n] \in S
        BY <2>3, <3>1, <1>1, <2>4
      <4> QED
        BY <4>1, <2>4 DEF Arranges
    <3>3. k # n
      BY <2>2, <2>4, <3>1
    <3> QED
      BY <3>1, <3>2, <3>3, <1>1
  <2>5. ASSUME n \in DOMAIN b PROVE \E k \in DOMAIN a : n < k /\ a[k] = b[n]
    <3>1. PICK k \in DOMAIN a : a[k] = b[n]
      BY <2>5 DEF Arranges
    <3>2. ~(k < n)
      <4> SUFFICES ASSUME k < n PROVE FALSE
        OBVIOUS
      <4>1. k \in DOMAIN b /\ b[k] = b[n] /\ b[n] \in S
        BY <2>3, <3>1, <1>1, <2>5
      <4> QED
        BY <4>1, <2>5 DEF Arranges
    <3>3. k # n
      BY <2>2, <2>5, <3>1
    <3> QED
      BY <3>1, <3>2, <3>3, <1>1
  <2>6. n \in DOMAIN a /\ n \in DOMAIN b
    BY <2>2, <2>4, <2>5, <1>1
  <2>7. PICK k \in DOMAIN b : n < k /\ b[k] = a[n]
    BY <2>6, <2>4
  <2>8. PICK m \in DOMAIN a : n < m /\ a[m] = b[n]
    BY <2>6, <2>5
  <2>9. <<b[n], a[n]>> \in R /\ <<a[n], b[n]>> \in R /\ a[n] \in S /\ b[n] \in S
    BY <2>6, <2>7, <2>8 DEF Arranges
  <2> QED
    BY <2>9
<1>3. \A n \in DOMAIN a \cup DOMAIN b : n \in DOMAIN a /\ n \in DOMAIN b /\ a[n] = b[n]
  BY <1>2
<1>4. Len(a) = Len(b)
  <2> DEFINE m == Len(a)
             n == Len(b)
  <2>1. m \in Nat /\ n \in Nat /\ 1 .. m = 1 .. n
    <3>1. DOMAIN a = DOMAIN b
      BY <1>3
    <3> QED
      BY <3>1, <1>1
  <2> HIDE DEF m, n
  <2>2. m \in 1 .. m \/ m = 0
    BY <2>1
  <2>3. n \in 1 .. n \/ n = 0
    BY <2>1
  <2>4. m <= n /\ n <= m
    BY <2>1, <2>2, <2>3
  <2>5. m = n
    BY <2>1, <2>4
  <2> QED
    BY <2>5 DEF m, n
<1> QED
  BY <1>1, <1>3, <1>4

LEMMA Arrangeable ==
    ASSUME NEW S, IsFiniteSet(S), NEW R, Strict(S, R)
    PROVE  \E list \in [1 .. Cardinality(S) -> S] : Arranges(list, S, R)
<1> DEFINE n == Cardinality(S)
           Below(x) == {y \in S : <<y, x>> \in R}
           f == [x \in S |-> Cardinality(Below(x)) + 1]
<1>1. n \in Nat
  BY FS_CardinalityType
<1>2. ASSUME NEW x \in S PROVE IsFiniteSet(Below(x)) /\ Cardinality(Below(x)) \in 0 .. (n - 1)
  <2>1. Below(x) \in SUBSET S /\ Below(x) # S
    BY DEF Strict
  <2>2. IsFiniteSet(Below(x)) /\ Cardinality(Below(x)) <= n /\ Cardinality(Below(x)) # n
    <3> HIDE DEF Below
    <3> QED
      BY <2>1, FS_Subset
  <2>3. Cardinality(Below(x)) \in Nat
    <3> HIDE DEF Below
    <3> QED
      BY <2>2, FS_CardinalityType
  <2> HIDE DEF Below, n
  <2> QED
    BY <2>2, <2>3, <1>1
<1>3. ASSUME NEW x \in S, NEW y \in S, <<x, y>> \in R PROVE Cardinality(Below(x)) < Cardinality(Below(y))
  <2>1. Below(x) \in SUBSET Below(y) /\ Below(x) # Below(y)
    BY <1>3 DEF Strict
  <2>2. IsFiniteSet(Below(y)) /\ IsFiniteSet(Below(x)) /\ Cardinality(Below(x)) \in Nat /\ Cardinality(Below(y)) \in Nat
    <3> HIDE DEF Below, n
    <3> QED
      BY <1>2, <1>1
  <2>3. Cardinality(Below(x)) <= Cardinality(Below(y)) /\ Cardinality(Below(x)) # Cardinality(Below(y))
    <3> HIDE DEF Below
    <3> QED
      BY <2>1, <2>2, FS_Subset
  <2> HIDE DEF Below
  <2> QED
    BY <2>2, <2>3
<1> HIDE DEF Below, n
<1>4. \A x \in S : f[x] \in 1 .. n
  BY <1>1, <1>2
<1>5. \A x, y \in S : <<x, y>> \in R => f[x] < f[y]
  BY <1>1, <1>2, <1>3
<1>6. f \in [S -> 1 .. n]
  BY <1>4
<1> HIDE DEF f
<1>7. ASSUME NEW x \in S, NEW y \in S, f[x] = f[y] PROVE x = y
  <2>1. ~(f[x] < f[y]) /\ ~(f[y] < f[x])
    BY <1>7, <1>4, <1>1
  <2>2. <<x, y>> \notin R /\ <<y, x>> \notin R
    BY <2>1, <1>5
  <2> QED
    BY <2>2 DEF Strict
<1>8. f \in Injection(S, 1 .. n)
  BY <1>6, <1>7, Fun_IsInj
<1>9. f \in Surjection(S, 1 .. n)
  <2>1. IsFiniteSet(1 .. n) /\ Cardinality(1 .. n) = n
    BY <1>1, FS_Interval
  <2> QED
    BY <2>1, <1>8, FS_Injection DEF n
<1>10. \A k \in 1 .. n : \E x \in S : f[x] = k
  BY <1>9, Fun_SurjectionProperties
<1> DEFINE list == [k \in 1 .. n |-> CHOOSE x \in S : f[x] = k]
<1>11. \A k \in 1 .. n : list[k] \in S /\ f[list[k]] = k
  BY <1>10
<1>12. list \in [1 .. n -> S]
  BY <1>11
<1>13. DOMAIN list = 1 .. n
  OBVIOUS
<1> HIDE DEF list
<1>14. \A x \in S : \E k \in DOMAIN list : list[k] = x
  BY <1>4, <1>7, <1>11, <1>13
<1>15. \A i, j \in DOMAIN list : i < j => <<list[i], list[j]>> \in R
  <2> SUFFICES ASSUME NEW i \in 1 .. n, NEW j \in 1 .. n, i < j PROVE <<list[i], list[j]>> \in R
    BY <1>13
  <2>1. f[list[i]] = i /\ f[list[j]] = j /\ list[i] \in S /\ list[j] \in S
    BY <1>11
  <2>2. ~(f[list[j]] < f[list[i]]) /\ list[i] # list[j]
    BY <2>1, <1>1
  <2>3. <<list[j], list[i]>> \notin R
    BY <2>1, <2>2, <1>5
  <2> QED
    BY <2>1, <2>2, <2>3 DEF Strict
<1> QED
  BY <1>11, <1>12, <1>13, <1>14, <1>15 DEF Arranges, n

LEMMA SortedArranges ==
    ASSUME NEW S, IsFiniteSet(S), NEW R, Strict(S, R)
    PROVE  Sorted(S, R) \in Seq(S) /\ Arranges(Sorted(S, R), S, R)
<1>1. Sorted(S, R) \in [1 .. Cardinality(S) -> S] /\ Arranges(Sorted(S, R), S, R)
  BY Arrangeable DEF Sorted
<1>2. Cardinality(S) \in Nat
  BY FS_CardinalityType
<1> QED
  BY <1>1, <1>2

LEMMA SortedIs ==
    ASSUME NEW S, IsFiniteSet(S), NEW R, Strict(S, R), NEW list \in Seq(S), Arranges(list, S, R)
    PROVE  Sorted(S, R) = list
BY SortedArranges, ArrangedOnce DEF Strict

=============================================================================
