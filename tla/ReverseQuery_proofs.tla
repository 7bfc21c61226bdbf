------------------------ MODULE ReverseQuery_proofs ------------------------
(***************************************************************************)
(* The reverse index is read back as it was imported and answers with the  *)
(* right house number and with areas around the position, for every set of *)
(* OSM objects, split over input files and handled in any order, for all   *)
(* cell widths and for all caps of counts, offsets, nodes and holes.       *)
(*                                                                         *)
(* The first part is about CellDirectory alone.  Ascending is the sorted   *)
(* order of the cells; the entries file is the concatenation of their runs *)
(* and an offset is the length of what precedes a run; the binary search   *)
(* finds exactly the cells of the directory.  Hence a lookup gives the ids *)
(* pushed for a cell: CellIndexReadsBack, GeoCellsReadBack.  The           *)
(* inductions (over the prefixes, the range of the search, the rank of an  *)
(* element) are by the least number that fails, NatLeast.                  *)
(*                                                                         *)
(* The second part follows the builder.  FilesReadBack speaks of the       *)
(* written files only; the invariant, IInv, says what the memory holds at  *)
(* every step before: the addresses of the objects handled so far, each    *)
(* listed in its own cell and nowhere else.  The step that could lose it   *)
(* is sort_addr_points_by_cell, which renumbers the points after the lists *)
(* were made: OrderIsPermutation shows that the new order has every point  *)
(* once, SortKeepsIndex that points and lists are renumbered alike.        *)
(*                                                                         *)
(* The third part follows a query.  A loaded index lists every address in   *)
(* the cell of its position, and a position less than a cell's width away  *)
(* is in a cell that is scanned; so the first nearest of what the scan     *)
(* meets is the nearest address in reach (NearestAddrIs), and the same     *)
(* holds of a side index (FindNearestIs).  LadderIs says which of the two  *)
(* answers, and that neither a road, an interpolated number nor the POI    *)
(* replaces it.  AnswerInv carries this over the steps.                    *)
(*                                                                         *)
(* The last part is about areas.  AreaInv says what the admin layer holds  *)
(* while it is built: a polygon for each ring of the areas handled so far, *)
(* final unless it waits for its holes, listed in every cell that it meets *)
(* and flagged only where the cell is inside.  So the polygons in the end  *)
(* are a function of the objects, whatever the order of the input.  What   *)
(* find_admin keeps of them is around the position (ContainingIs), each    *)
(* field remembers the polygon of its name (Placed) and the later steps    *)
(* only fill in (OnlyFills); AreaAnswerInv carries this over the steps.    *)
(***************************************************************************)
EXTENDS ReverseQuery, FiniteSetTheorems, SequenceTheorems, WellFoundedInduction, TLAPS

-----------------------------------------------------------------------------
(* Numbers and sorted sets. *)

\* Every non-empty set of naturals has a least element.
LEMMA NatLeast ==
    ASSUME NEW T, T \subseteq Nat, T # {}
    PROVE  \E x \in T : \A y \in T : x <= y
<1> DEFINE R == OpToRel(<, Nat)
<1>1. IsWellFoundedOn(R, Nat)
  BY NatLessThanWellFounded
<1> HIDE DEF R
<1>2. PICK x \in T : \A y \in T : ~ (<<y, x>> \in R)
  BY <1>1, WFMin
<1>3. \A y \in T : ~(y < x)
  BY <1>2 DEF R, OpToRel
<1> QED
  BY <1>2, <1>3

\* Induction along an interval: a set that has not its first number, but has one,
\* has a number whose predecessor it has not.
LEMMA FirstFailure ==
    ASSUME NEW a \in Nat, NEW b \in Nat, NEW B \in SUBSET (a..b), B # {}, a \notin B
    PROVE  \E n \in B : n \in a + 1..b /\ n - 1 \in a..b /\ n - 1 \notin B
<1>1. B \subseteq Nat
  OBVIOUS
<1>2. PICK n \in B : \A k \in B : n <= k
  BY <1>1, NatLeast
<1>3. n \in a..b /\ n # a
  BY <1>2
<1>4. n \in a + 1..b /\ n - 1 \in a..b
  BY <1>3
<1>5. n - 1 \notin B
  BY <1>2, <1>4
<1> QED
  BY <1>2, <1>4, <1>5

\* The least of two numbers.
LEMMA MinOfTwo ==
    ASSUME NEW a \in Int, NEW b \in Int
    PROVE  Min({a, b}) = IF a <= b THEN a ELSE b
BY DEF Min

\* How many elements of S are below x.
Rank(S, x) == Cardinality({y \in S : y < x})

\* Different elements of a finite set of integers have different ranks, and the
\* ranks are 0 to its cardinality less one.
LEMMA RankExists ==
    ASSUME NEW S, S \subseteq Int, IsFiniteSet(S)
    PROVE  /\ Cardinality(S) \in Nat
           /\ \A x \in S : Rank(S, x) \in 0..Cardinality(S) - 1
           /\ \A x, y \in S : x < y => Rank(S, x) < Rank(S, y)
           /\ \A i \in 1..Cardinality(S) : \E x \in S : Rank(S, x) = i - 1
<1> DEFINE n == Cardinality(S)
           Below(x) == {y \in S : y < x}
           rank == [x \in S |-> Rank(S, x)]
<1>1. n \in Nat
  BY FS_CardinalityType
<1>2. ASSUME NEW x \in S
      PROVE  IsFiniteSet(Below(x)) /\ Cardinality(Below(x)) \in Nat /\ Cardinality(Below(x)) < n
  <2>1. IsFiniteSet(Below(x)) /\ Cardinality(Below(x)) <= n
        /\ (n = Cardinality(Below(x)) => S = Below(x))
    BY FS_Subset
  <2>2. S # Below(x)
    OBVIOUS
  <2>3. Cardinality(Below(x)) \in Nat
    BY <2>1, FS_CardinalityType
  <2> QED
    BY <1>1, <2>1, <2>2, <2>3
<1>3. ASSUME NEW x \in S, NEW y \in S, x < y PROVE Cardinality(Below(x)) < Cardinality(Below(y))
  <2>1. \A z \in S : z \in Int
    OBVIOUS
  <2>2. Below(x) \in SUBSET Below(y) /\ Below(x) # Below(y)
    <3>1. x \in Below(y) /\ x \notin Below(x)
      BY <1>3, <2>1
    <3>2. \A z \in Below(x) : z \in Below(y)
      BY <1>3, <2>1
    <3> HIDE DEF Below
    <3> QED
      BY <3>1, <3>2
  <2>3. /\ Cardinality(Below(x)) <= Cardinality(Below(y))
        /\ Cardinality(Below(y)) = Cardinality(Below(x)) => Below(y) = Below(x)
    BY <1>2, <2>2, FS_Subset
  <2>4. Cardinality(Below(x)) \in Nat /\ Cardinality(Below(y)) \in Nat
    BY <1>2
  <2> HIDE DEF Below
  <2> QED
    BY <2>2, <2>3, <2>4
<1>4. \A x \in S : rank[x] = Cardinality(Below(x))
  BY DEF Rank
<1>5. \A x \in S : rank[x] \in 0..n - 1
  <2> TAKE x \in S
  <2> HIDE DEF rank, n, Below
  <2> QED
    BY <1>1, <1>2, <1>4
<1>6. \A x, y \in S : x < y => rank[x] < rank[y]
  BY <1>3, <1>4
<1>7. rank \in Injection(S, 0..n - 1)
  <2>1. rank \in [S -> 0..n - 1]
    BY <1>5
  <2>2. IsInjective(rank)
    <3>1. \A x, y \in S : x # y => rank[x] # rank[y]
      <4> SUFFICES ASSUME NEW x \in S, NEW y \in S, x # y PROVE rank[x] # rank[y]
        OBVIOUS
      <4>1. x < y \/ y < x
        OBVIOUS
      <4>2. rank[x] \in Int /\ rank[y] \in Int
        BY <1>5
      <4> HIDE DEF rank
      <4> QED
        BY <1>6, <4>1, <4>2
    <3> QED
      BY <3>1 DEF IsInjective
  <2> QED
    BY <2>1, <2>2 DEF Injection
<1>8. IsFiniteSet(0..n - 1) /\ Cardinality(0..n - 1) = n
  <2>1. 0 \in Int /\ n - 1 \in Int
    BY <1>1
  <2> QED
    BY <1>1, <2>1, FS_Interval
<1>9. rank \in Surjection(S, 0..n - 1)
  BY <1>7, <1>8, FS_Injection
<1>10. \A i \in 1..n : \E x \in S : rank[x] = i - 1
  <2> TAKE i \in 1..n
  <2>1. i - 1 \in 0..n - 1
    BY <1>1
  <2> HIDE DEF rank
  <2> QED
    BY <1>9, <2>1 DEF Surjection
<1> QED
  BY <1>1, <1>5, <1>6, <1>10

\* Ascending puts every element at its rank.
LEMMA AscendingRank ==
    ASSUME NEW S, S \subseteq Int, IsFiniteSet(S)
    PROVE  /\ Ascending(S) \in Seq(S) /\ Len(Ascending(S)) = Cardinality(S)
           /\ \A i \in 1..Cardinality(S) : Rank(S, Ascending(S)[i]) = i - 1
           /\ \A x \in S : /\ Rank(S, x) + 1 \in 1..Cardinality(S)
                           /\ Ascending(S)[Rank(S, x) + 1] = x
<1> DEFINE n == Cardinality(S)
           Nth(i) == CHOOSE x \in S : Rank(S, x) = i - 1
           a == Ascending(S)
<1>1. /\ n \in Nat
      /\ \A x \in S : Rank(S, x) \in 0..n - 1
      /\ \A x, y \in S : x < y => Rank(S, x) < Rank(S, y)
      /\ \A i \in 1..n : \E x \in S : Rank(S, x) = i - 1
  BY RankExists
<1>2. a = [i \in 1..n |-> Nth(i)]
  BY DEF Ascending, Rank
<1>3. \A i \in 1..n : Nth(i) \in S /\ Rank(S, Nth(i)) = i - 1
  BY <1>1
<1> HIDE DEF n, Nth, a
<1>4. a \in [1..n -> S] /\ \A i \in 1..n : Rank(S, a[i]) = i - 1
  BY <1>2, <1>3
<1>5. a \in Seq(S) /\ Len(a) = n
  BY <1>1, <1>4
<1>6. ASSUME NEW x \in S PROVE Rank(S, x) + 1 \in 1..n /\ a[Rank(S, x) + 1] = x
  <2>1. Rank(S, x) \in 0..n - 1
    BY <1>1
  <2>2. PICK k \in 1..n : k = Rank(S, x) + 1
    BY <1>1, <2>1
  <2>3. a[k] \in S /\ Rank(S, a[k]) = k - 1
    BY <1>4
  <2>4. Rank(S, a[k]) = Rank(S, x)
    BY <2>1, <2>2, <2>3
  <2>5. Rank(S, x) \in Int /\ Rank(S, a[k]) \in Int
    BY <2>1, <2>4
  <2>6. ~(a[k] < x) /\ ~(x < a[k])
    <3>1. a[k] < x => Rank(S, a[k]) < Rank(S, x)
      BY <1>1, <2>3
    <3>2. x < a[k] => Rank(S, x) < Rank(S, a[k])
      BY <1>1, <2>3
    <3> QED
      BY <2>4, <2>5, <3>1, <3>2
  <2>7. a[k] \in Int /\ x \in Int
    BY <2>3
  <2>8. a[k] = x
    BY <2>6, <2>7
  <2> QED
    BY <2>2, <2>8
<1> QED
  BY <1>4, <1>5, <1>6 DEF a, n

\* Ascending lists every element of a finite set once, in increasing order.
LEMMA AscendingSorted ==
    ASSUME NEW S, S \subseteq Int, IsFiniteSet(S)
    PROVE  /\ Ascending(S) \in Seq(S) /\ Len(Ascending(S)) = Cardinality(S)
           /\ \A i, j \in 1..Len(Ascending(S)) : i < j => Ascending(S)[i] < Ascending(S)[j]
           /\ \A x \in S : \E i \in 1..Len(Ascending(S)) : Ascending(S)[i] = x
           /\ ToSet(Ascending(S)) = S
<1> DEFINE a == Ascending(S)
           n == Cardinality(S)
<1>1. /\ a \in Seq(S) /\ Len(a) = n
      /\ \A i \in 1..n : Rank(S, a[i]) = i - 1
      /\ \A x \in S : Rank(S, x) + 1 \in 1..n /\ a[Rank(S, x) + 1] = x
  BY AscendingRank
<1>2. \A x, y \in S : x < y => Rank(S, x) < Rank(S, y)
  BY RankExists
<1> HIDE DEF a, n
<1>3. \A i, j \in 1..n : i < j => a[i] < a[j]
  <2> SUFFICES ASSUME NEW i \in 1..n, NEW j \in 1..n, i < j PROVE a[i] < a[j]
    OBVIOUS
  <2>1. a[i] \in S /\ a[j] \in S /\ Rank(S, a[i]) = i - 1 /\ Rank(S, a[j]) = j - 1
    BY <1>1
  <2>2. a[i] \in Int /\ a[j] \in Int
    BY <2>1
  <2>3. ~(a[j] < a[i])
    <3>1. a[j] < a[i] => Rank(S, a[j]) < Rank(S, a[i])
      BY <1>2, <2>1
    <3> QED
      BY <2>1, <3>1
  <2>4. a[i] # a[j]
    BY <2>1
  <2> QED
    BY <2>2, <2>3, <2>4
<1>4. \A x \in S : \E i \in 1..n : a[i] = x
  BY <1>1
<1>5. ToSet(a) = S
  <2>1. DOMAIN a = 1..n /\ \A i \in 1..n : a[i] \in S
    BY <1>1
  <2> QED
    BY <1>4, <2>1 DEF ToSet
<1> QED
  BY <1>1, <1>3, <1>4, <1>5 DEF a, n

\* The elements below one are those before it.
LEMMA AscendingBelow ==
    ASSUME NEW S, S \subseteq Int, IsFiniteSet(S), NEW k \in 1..Cardinality(S)
    PROVE  Ascending({x \in S : x < Ascending(S)[k]}) = [i \in 1..k - 1 |-> Ascending(S)[i]]
<1> DEFINE a == Ascending(S)
           n == Cardinality(S)
           B == {x \in S : x < a[k]}
           b == Ascending(B)
<1>1. /\ a \in Seq(S) /\ Len(a) = n
      /\ \A i \in 1..n : Rank(S, a[i]) = i - 1
  BY AscendingRank
<1>2. \A i, j \in 1..n : i < j => a[i] < a[j]
  BY <1>1, AscendingSorted
<1>3. n \in Nat
  BY FS_CardinalityType
<1>4. B \subseteq Int /\ IsFiniteSet(B)
  BY FS_Subset
<1>5. Cardinality(B) = k - 1
  BY <1>1 DEF Rank
<1>6. /\ b \in Seq(B) /\ Len(b) = k - 1
      /\ \A x \in B : b[Rank(B, x) + 1] = x
  BY <1>4, <1>5, AscendingRank
<1>7. ASSUME NEW i \in 1..k - 1 PROVE b[i] = a[i]
  <2>1. i \in 1..n /\ k \in 1..n /\ i < k
    BY <1>3 DEF n
  <2>2. a[i] \in S /\ a[i] < a[k] /\ Rank(S, a[i]) = i - 1
    BY <1>1, <1>2, <2>1
  <2>3. a[i] \in B
    BY <2>2
  <2>4. {y \in B : y < a[i]} = {y \in S : y < a[i]}
    <3>1. a[k] \in S
      BY <1>1, <2>1
    <3>2. \A y \in S : y < a[i] => y < a[k]
      <4>1. \A y \in S : y \in Int
        OBVIOUS
      <4>2. a[i] \in Int /\ a[k] \in Int
        BY <2>2, <3>1, <4>1
      <4> HIDE DEF a
      <4> QED
        BY <2>2, <4>1, <4>2
    <3> HIDE DEF a
    <3> QED
      BY <3>2
  <2>5. Rank(B, a[i]) = i - 1
    BY <2>2, <2>4 DEF Rank
  <2> HIDE DEF a, b, B
  <2>6. b[Rank(B, a[i]) + 1] = a[i] /\ i - 1 + 1 = i
    BY <1>6, <2>3
  <2> QED
    BY <2>5, <2>6
<1> HIDE DEF b, a, B
<1>8. b = [i \in 1..k - 1 |-> a[i]]
  <2>1. k - 1 \in Nat /\ DOMAIN b = 1..k - 1 /\ b = [i \in 1..Len(b) |-> b[i]]
    BY <1>6
  <2> QED
    BY <1>6, <1>7, <2>1
<1> QED
  BY <1>8 DEF b, B, a

-----------------------------------------------------------------------------
(* Concatenation of sequences of sequences. *)

\* The concatenations of the first k elements of s, for every k.
ArePrefixes(g, s, T) ==
    /\ g \in [0..Len(s) -> Seq(T)] /\ g[0] = <<>>
    /\ \A i \in 1..Len(s) : g[i] = g[i - 1] \o s[i]

\* The prefixes of the concatenation exist, by induction on how many there
\* are.
LEMMA PrefixesExist ==
    ASSUME NEW T, NEW s \in Seq(Seq(T))
    PROVE  \E g : ArePrefixes(g, s, T)
<1> DEFINE Up(g, n) == /\ g \in [0..n -> Seq(T)] /\ g[0] = <<>>
                       /\ \A i \in 1..n : g[i] = g[i - 1] \o s[i]
           Bad == {n \in 0..Len(s) : ~(\E g : Up(g, n))}
<1>1. Len(s) \in Nat
  OBVIOUS
<1>2. ASSUME Bad # {} PROVE FALSE
  <2>1. 0 \notin Bad
    <3> DEFINE g == [i \in 0..0 |-> <<>>]
    <3>1. Up(g, 0)
      OBVIOUS
    <3> QED
      BY <3>1
  <2>2. Bad \in SUBSET (0..Len(s))
    OBVIOUS
  <2>3. PICK n \in Bad : n \in 1..Len(s) /\ n - 1 \in 0..Len(s) /\ n - 1 \notin Bad
    <3>1. 0 \in Nat /\ 0 + 1 = 1
      OBVIOUS
    <3> HIDE DEF Bad
    <3> QED
      BY <1>1, <1>2, <2>1, <2>2, <3>1, FirstFailure
  <2>4. PICK g : Up(g, n - 1)
    BY <2>3
  <2> DEFINE h == [i \in 0..n |-> IF i = n THEN g[n - 1] \o s[n] ELSE g[i]]
  <2>5. s[n] \in Seq(T) /\ g[n - 1] \in Seq(T)
    BY <2>3, <2>4
  <2>6. g[n - 1] \o s[n] \in Seq(T)
    BY <2>5, ConcatProperties
  <2>7. h \in [0..n -> Seq(T)] /\ h[0] = <<>>
    BY <2>3, <2>4, <2>6, SMTT(30)
  <2>8. ASSUME NEW i \in 1..n PROVE h[i] = h[i - 1] \o s[i]
    <3>1. i - 1 \in 0..n /\ i \in 0..n /\ i - 1 # n /\ n \in Int
      BY <2>3
    <3>2. h[i - 1] = g[i - 1]
      BY <3>1
    <3>3. CASE i = n
      BY <3>1, <3>2, <3>3
    <3>4. CASE i # n
      <4>1. h[i] = g[i] /\ i \in 1..n - 1
        BY <3>1, <3>4
      <4> QED
        BY <2>4, <3>2, <4>1
    <3> QED
      BY <3>3, <3>4
  <2>9. Up(h, n)
    BY <2>7, <2>8
  <2> QED
    BY <2>3, <2>9
<1>3. Len(s) \in 0..Len(s) /\ Len(s) \notin Bad
  <2>1. Len(s) \in 0..Len(s)
    BY <1>1
  <2> HIDE DEF Bad
  <2> QED
    BY <1>2, <2>1
<1> QED
  BY <1>3 DEF ArePrefixes

\* FlattenSeq of the first k elements is the k-th of them.
LEMMA FlattenIs ==
    ASSUME NEW T, NEW s \in Seq(Seq(T)), NEW g, ArePrefixes(g, s, T), NEW k \in 0..Len(s)
    PROVE  FlattenSeq([i \in 1..k |-> s[i]]) = g[k]
<1> DEFINE u == [i \in 1..k |-> s[i]]
           Step(f, i) == IF i = 1 THEN u[i] ELSE f[i - 1] \o u[i]
           Is(f) == f = [i \in 1..k |-> Step(f, i)]
           F == CHOOSE f : Is(f)
<1>1. Len(s) \in Nat /\ k \in Nat /\ Len(u) = k
  OBVIOUS
<1>2. CASE k = 0
  BY <1>1, <1>2 DEF FlattenSeq, ArePrefixes
<1>3. CASE k # 0
  <2>1. FlattenSeq(u) = F[k]
    BY <1>1, <1>3 DEF FlattenSeq
  <2> DEFINE h == [i \in 1..k |-> g[i]]
  <2>2. \A i \in 1..k : g[i] = (IF i = 1 THEN s[i] ELSE g[i - 1] \o s[i])
    <3> TAKE i \in 1..k
    <3>1. i \in 1..Len(s)
      BY <1>1
    <3>2. s[i] \in Seq(T)
      BY <3>1
    <3>3. g[i] = g[i - 1] \o s[i]
      BY <3>1 DEF ArePrefixes
    <3>4. i = 1 => g[i - 1] = <<>>
      BY DEF ArePrefixes
    <3>5. <<>> \o s[i] = s[i]
      BY <3>2
    <3> QED
      BY <3>3, <3>4, <3>5
  <2>3. Is(h)
    BY <1>1, <2>2
  <2>4. Is(F)
    BY <2>3, Zenon
  <2> HIDE DEF F
  <2>5. \A i \in 1..k : F[i] = IF i = 1 THEN s[i] ELSE F[i - 1] \o s[i]
    BY <2>4
  <2> DEFINE Bad == {i \in 1..k : F[i] # g[i]}
  <2>6. ASSUME Bad # {} PROVE FALSE
    <3>1. Bad \in SUBSET (1..k) /\ 1 \notin Bad
      BY <2>2, <2>5
    <3>2. 1 \in Nat
      OBVIOUS
    <3>3. PICK i \in Bad : i \in 1 + 1..k /\ i - 1 \in 1..k /\ i - 1 \notin Bad
      <4> HIDE DEF Bad
      <4> QED
        BY <1>1, <2>6, <3>1, <3>2, FirstFailure
    <3>4. F[i - 1] = g[i - 1]
      BY <3>3
    <3>5. i \in 1..k /\ i # 1
      BY <3>3
    <3>6. F[i] = F[i - 1] \o s[i] /\ g[i] = g[i - 1] \o s[i]
      BY <2>2, <2>5, <3>5
    <3> QED
      BY <3>3, <3>4, <3>6
  <2>7. F[k] = g[k]
    BY <1>1, <1>3, <2>6
  <2> QED
    BY <2>1, <2>7
<1> QED
  BY <1>2, <1>3

\* A prefix stays what it is.
LEMMA PrefixStays ==
    ASSUME NEW T, NEW s \in Seq(Seq(T)), NEW g, ArePrefixes(g, s, T),
           NEW k \in 0..Len(s), NEW m \in 0..Len(s), k <= m
    PROVE  Len(g[k]) <= Len(g[m]) /\ \A j \in 1..Len(g[k]) : g[m][j] = g[k][j]
<1> DEFINE Ok(n) == Len(g[k]) <= Len(g[n]) /\ \A j \in 1..Len(g[k]) : g[n][j] = g[k][j]
           Bad == {n \in k..Len(s) : ~Ok(n)}
<1>1. Len(s) \in Nat
  OBVIOUS
<1>2. \A i \in 0..Len(s) : g[i] \in Seq(T) /\ Len(g[i]) \in Nat
  BY DEF ArePrefixes
<1>3. ASSUME NEW n \in k + 1..Len(s), Ok(n - 1) PROVE Ok(n)
  <2>1. n \in 1..Len(s) /\ n - 1 \in 0..Len(s) /\ n \in 0..Len(s)
    BY <1>1
  <2>2. g[n] = g[n - 1] \o s[n] /\ s[n] \in Seq(T) /\ Len(s[n]) \in Nat
    <3>1. s[n] \in Seq(T)
      BY <2>1
    <3>2. Len(s[n]) \in Nat
      BY <3>1
    <3> QED
      BY <2>1, <3>1, <3>2 DEF ArePrefixes
  <2>3. /\ Len(g[n]) = Len(g[n - 1]) + Len(s[n])
        /\ \A j \in 1..Len(g[n - 1]) : g[n][j] = g[n - 1][j]
    <3>1. /\ Len(g[n - 1] \o s[n]) = Len(g[n - 1]) + Len(s[n])
          /\ \A j \in 1..Len(g[n - 1]) + Len(s[n]) :
               (g[n - 1] \o s[n])[j] = IF j <= Len(g[n - 1]) THEN g[n - 1][j] ELSE s[n][j - Len(g[n - 1])]
      BY <1>2, <2>1, <2>2, ConcatProperties
    <3>2. Len(g[n - 1]) \in Nat
      BY <1>2, <2>1
    <3> DEFINE a == g[n - 1]
               b == s[n]
    <3>3. g[n] = a \o b
      BY <2>2
    <3>4. Len(a) \in Nat /\ Len(b) \in Nat
      BY <2>2, <3>2
    <3> HIDE DEF a, b
    <3>5. \A j \in 1..Len(a) : j \in 1..Len(a) + Len(b) /\ j <= Len(a)
      BY <3>4
    <3> QED
      BY <3>1, <3>3, <3>5 DEF a, b
  <2>4. Len(g[k]) \in Nat /\ Len(g[n - 1]) \in Nat /\ Len(g[n]) \in Nat
    BY <1>2, <2>1
  <2>5. Len(g[k]) <= Len(g[n - 1]) /\ \A j \in 1..Len(g[k]) : g[n - 1][j] = g[k][j]
    BY <1>3
  <2>6. Len(g[k]) <= Len(g[n])
    <3>1. Len(s[n]) \in Nat
      BY <2>2
    <3>2. Len(g[n]) = Len(g[n - 1]) + Len(s[n])
      BY <2>3
    <3>3. Len(g[k]) <= Len(g[n - 1])
      BY <2>5
    <3> DEFINE x == Len(g[n])
               y == Len(g[n - 1])
               z == Len(s[n])
               w == Len(g[k])
    <3>4. x \in Nat /\ y \in Nat /\ z \in Nat /\ w \in Nat /\ x = y + z /\ w <= y
      BY <2>4, <3>1, <3>2, <3>3
    <3> HIDE DEF x, y, z, w
    <3>5. w <= x
      BY <3>4
    <3> QED
      BY <3>5 DEF w, x
  <2>7. \A j \in 1..Len(g[k]) : j \in 1..Len(g[n - 1])
    BY <2>4, <2>5
  <2>8. \A j \in 1..Len(g[k]) : g[n][j] = g[k][j]
    BY <2>3, <2>5, <2>7
  <2> QED
    BY <2>6, <2>8
<1>4. Ok(k)
  BY <1>2
<1> HIDE DEF Ok
<1>5. ASSUME Bad # {} PROVE FALSE
  <2>1. Bad \in SUBSET (k..Len(s)) /\ k \notin Bad /\ k \in Nat
    BY <1>4
  <2>2. PICK n \in Bad : n \in k + 1..Len(s) /\ n - 1 \in k..Len(s) /\ n - 1 \notin Bad
    <3> HIDE DEF Bad
    <3> QED
      BY <1>1, <1>5, <2>1, FirstFailure
  <2> QED
    BY <1>3, <2>2
<1>6. Ok(m)
  BY <1>1, <1>5
<1> QED
  BY <1>6 DEF Ok

\* The sequence b stands in d after p places.
StandsAt(d, p, b) == \A j \in 1..Len(b) : d[p + j] = b[j]

\* Where the k-th element stands in the concatenation of the first m.
LEMMA PrefixAt ==
    ASSUME NEW T, NEW s \in Seq(Seq(T)), NEW g, ArePrefixes(g, s, T),
           NEW k \in 1..Len(s), NEW m \in 0..Len(s), k <= m
    PROVE  /\ Len(g[k - 1]) \in Nat /\ Len(s[k]) \in Nat /\ Len(g[m]) \in Nat
           /\ Len(g[k - 1]) + Len(s[k]) <= Len(g[m])
           /\ StandsAt(g[m], Len(g[k - 1]), s[k])
<1>1. k \in 0..Len(s) /\ k - 1 \in 0..Len(s) /\ Len(s) \in Nat
  OBVIOUS
<1> DEFINE a == g[k - 1]
           b == s[k]
           c == g[k]
           d == g[m]
<1>2. a \in Seq(T) /\ c \in Seq(T) /\ d \in Seq(T)
  BY <1>1 DEF ArePrefixes
<1>3. b \in Seq(T)
  OBVIOUS
<1>4. c = a \o b
  BY DEF ArePrefixes
<1>5. Len(c) <= Len(d) /\ \A j \in 1..Len(c) : d[j] = c[j]
  BY <1>1, PrefixStays
<1> HIDE DEF a, b, c, d
<1>6. Len(a) \in Nat /\ Len(b) \in Nat /\ Len(d) \in Nat
  BY <1>2, <1>3
<1>7. Len(c) = Len(a) + Len(b)
      /\ \A j \in 1..Len(a) + Len(b) : c[j] = IF j <= Len(a) THEN a[j] ELSE b[j - Len(a)]
  BY <1>2, <1>3, <1>4, ConcatProperties
<1>8. ASSUME NEW j \in 1..Len(b) PROVE d[Len(a) + j] = b[j]
  <2>1. PICK i : i = Len(a) + j
    OBVIOUS
  <2>2. i \in 1..Len(a) + Len(b) /\ ~(i <= Len(a)) /\ i - Len(a) = j
    BY <1>6, <2>1
  <2>3. c[i] = b[j]
    BY <1>7, <2>2
  <2>4. d[i] = c[i]
    BY <1>5, <1>7, <2>2
  <2> QED
    BY <2>1, <2>3, <2>4
<1> QED
  BY <1>5, <1>6, <1>7, <1>8 DEF StandsAt, a, b, d

\* The place x is one of those of b, which stands after p places.
WithinPart(x, p, b) == \E j \in 1..Len(b) : x = p + j

\* Everything in the concatenation is in one of the elements.
LEMMA PrefixWhere ==
    ASSUME NEW T, NEW s \in Seq(Seq(T)), NEW g, ArePrefixes(g, s, T),
           NEW m \in 0..Len(s), NEW x \in 1..Len(g[m])
    PROVE  \E k \in 1..m : WithinPart(x, Len(g[k - 1]), s[k])
<1> DEFINE Good == {n \in 0..m : x <= Len(g[n])}
<1>1. Len(s) \in Nat /\ \A i \in 0..m : i \in 0..Len(s)
  OBVIOUS
<1>2. \A i \in 0..m : g[i] \in Seq(T)
  BY <1>1 DEF ArePrefixes
<1>3. \A i \in 0..m : Len(g[i]) \in Nat
  BY <1>2
<1>4. m \in Good /\ Good \subseteq Nat
  BY <1>1, <1>3
<1>5. PICK n \in Good : \A y \in Good : n <= y
  <2> HIDE DEF Good
  <2> QED
    BY <1>4, NatLeast
<1>6. Len(g[0]) = 0 /\ x \in Nat \ {0}
  BY <1>1, <1>3 DEF ArePrefixes
<1>7. n \in 0..m /\ n # 0 /\ x <= Len(g[n])
  BY <1>5, <1>6
<1>8. n \in 1..m /\ n - 1 \in 0..m /\ n - 1 \notin Good /\ n \in 1..Len(s)
  BY <1>1, <1>5, <1>7
<1>9. ~(x <= Len(g[n - 1])) /\ Len(g[n - 1]) \in Nat
  BY <1>3, <1>8
<1>10. g[n] = g[n - 1] \o s[n]
  BY <1>8 DEF ArePrefixes
<1>11. g[n - 1] \in Seq(T)
  BY <1>2, <1>8
<1>12. s[n] \in Seq(T)
  BY <1>8
<1>13. Len(s[n]) \in Nat /\ Len(g[n]) = Len(g[n - 1]) + Len(s[n])
  BY <1>10, <1>11, <1>12, ConcatProperties
<1> DEFINE p == Len(g[n - 1])
           q == Len(s[n])
<1>14. p \in Nat /\ q \in Nat /\ ~(x <= p) /\ x <= p + q
  BY <1>7, <1>9, <1>13
<1> HIDE DEF p, q
<1>15. PICK j : j = x - p
  OBVIOUS
<1>16. j \in 1..q /\ x = p + j
  BY <1>6, <1>14, <1>15
<1> QED
  BY <1>8, <1>16 DEF WithinPart, p, q

-----------------------------------------------------------------------------
(* The cell directories. *)

\* A cell map: a function from finitely many cells to sequences of ids.
IsCellMap(map) ==
    /\ DOMAIN map \subseteq Int /\ IsFiniteSet(DOMAIN map)
    /\ map \in [DOMAIN map -> Seq(Nat)]

\* How many ids of a list are counted.
Counted(ids) == Min({Len(ids), CountCap})

\* A count is at most the number of ids, and fits into its field.
LEMMA CountedType ==
    ASSUME NEW ids \in Seq(Nat)
    PROVE  Len(ids) \in Nat /\ Counted(ids) \in 0..Len(ids) /\ Counted(ids) <= CountCap
<1>1. Len(ids) \in Nat /\ CountCap \in Nat
  BY CapsAssumption
<1>2. Counted(ids) = IF Len(ids) <= CountCap THEN Len(ids) ELSE CountCap
  BY <1>1, MinOfTwo DEF Counted
<1> QED
  BY <1>1, <1>2

\* An id is written as two units, the low one first.
LEMMA UnitsLayout ==
    ASSUME NEW ids \in Seq(Nat)
    PROVE  /\ Units(ids) \in Seq(Nat) /\ Len(Units(ids)) = 2 * Len(ids)
           /\ \A j \in 1..Len(ids) : /\ Units(ids)[2 * j - 1] = ids[j] % 65536
                                     /\ Units(ids)[2 * j] = ids[j] \div 65536
<1> DEFINE n == Len(ids)
           E(i) == IF i % 2 = 1 THEN ids[(i + 1) \div 2] % 65536 ELSE ids[i \div 2] \div 65536
<1>1. n \in Nat
  OBVIOUS
<1>2. Units(ids) = [i \in 1..2 * n |-> E(i)]
  BY DEF Units
<1>3. ASSUME NEW i \in 1..2 * n PROVE E(i) \in Nat
  <2>1. CASE i % 2 = 1
    <3>1. PICK k : k = (i + 1) \div 2
      OBVIOUS
    <3>2. k \in 1..n
      BY <1>1, <2>1, <3>1
    <3>3. ids[k] \in Nat
      BY <3>2
    <3>4. ids[k] % 65536 \in Nat
      BY <3>3
    <3> QED
      BY <2>1, <3>1, <3>4
  <2>2. CASE i % 2 # 1
    <3>1. PICK k : k = i \div 2
      OBVIOUS
    <3>2. k \in 1..n
      BY <1>1, <2>2, <3>1
    <3>3. ids[k] \in Nat
      BY <3>2
    <3>4. ids[k] \div 65536 \in Nat
      BY <3>3
    <3> QED
      BY <2>2, <3>1, <3>4
  <2> QED
    BY <2>1, <2>2
<1>4. ASSUME NEW j \in 1..n PROVE E(2 * j - 1) = ids[j] % 65536 /\ E(2 * j) = ids[j] \div 65536
  <2>1. (2 * j - 1) % 2 = 1 /\ (2 * j - 1 + 1) \div 2 = j /\ (2 * j) % 2 # 1 /\ (2 * j) \div 2 = j
    BY <1>1
  <2> QED
    BY <2>1
<1>5. \A j \in 1..n : 2 * j - 1 \in 1..2 * n /\ 2 * j \in 1..2 * n
  BY <1>1
<1> HIDE DEF E, n
<1>6. Units(ids) \in Seq(Nat) /\ Len(Units(ids)) = 2 * n
  <2>1. 2 * n \in Nat
    BY <1>1
  <2> QED
    BY <1>2, <1>3, <2>1
<1>7. \A j \in 1..n : Units(ids)[2 * j - 1] = ids[j] % 65536 /\ Units(ids)[2 * j] = ids[j] \div 65536
  BY <1>2, <1>4, <1>5
<1> QED
  BY <1>6, <1>7 DEF n

\* A run is the count and then two units for each id.
LEMMA RunLayout ==
    ASSUME NEW ids \in Seq(Nat)
    PROVE  /\ Run(ids) \in Seq(Nat) /\ Len(Run(ids)) = 1 + 2 * Len(ids)
           /\ Run(ids)[1] = Counted(ids)
           /\ \A j \in 1..Len(ids) : /\ Run(ids)[2 * j] = ids[j] % 65536
                                     /\ Run(ids)[2 * j + 1] = ids[j] \div 65536
<1> DEFINE n == Len(ids)
           h == <<Counted(ids)>>
           u == Units(ids)
           r == Run(ids)
<1>1. n \in Nat /\ Counted(ids) \in Nat
  BY CountedType
<1>2. /\ u \in Seq(Nat) /\ Len(u) = 2 * n
      /\ \A j \in 1..n : u[2 * j - 1] = ids[j] % 65536 /\ u[2 * j] = ids[j] \div 65536
  BY UnitsLayout
<1>3. h \in Seq(Nat) /\ Len(h) = 1 /\ h[1] = Counted(ids)
  BY <1>1
<1>4. r = h \o u
  BY DEF Run, Counted
<1> HIDE DEF n, h, u, r
<1>5. r \in Seq(Nat) /\ Len(r) = Len(h) + Len(u)
      /\ \A i \in 1..Len(h) + Len(u) : r[i] = IF i <= Len(h) THEN h[i] ELSE u[i - Len(h)]
  <2>1. h \in Seq(Nat)
    BY <1>3
  <2>2. u \in Seq(Nat)
    BY <1>2
  <2>3. h \o u \in Seq(Nat) /\ Len(h \o u) = Len(h) + Len(u)
        /\ \A i \in 1..Len(h) + Len(u) : (h \o u)[i] = IF i <= Len(h) THEN h[i] ELSE u[i - Len(h)]
    BY <2>1, <2>2, ConcatProperties
  <2> QED
    BY <1>4, <2>3
<1>6. \A i \in 1..1 + 2 * n : r[i] = IF i <= 1 THEN h[i] ELSE u[i - 1]
  BY <1>2, <1>3, <1>5
<1>7. r[1] = Counted(ids)
  BY <1>1, <1>3, <1>6
<1>8. ASSUME NEW j \in 1..n PROVE r[2 * j] = ids[j] % 65536 /\ r[2 * j + 1] = ids[j] \div 65536
  <2>1. /\ 2 * j \in 1..1 + 2 * n /\ ~(2 * j <= 1)
        /\ 2 * j + 1 \in 1..1 + 2 * n /\ ~(2 * j + 1 <= 1) /\ 2 * j + 1 - 1 = 2 * j
    BY <1>1
  <2>2. r[2 * j] = u[2 * j - 1] /\ r[2 * j + 1] = u[2 * j]
    BY <1>6, <2>1
  <2> QED
    BY <1>2, <2>2
<1> QED
  BY <1>2, <1>3, <1>5, <1>7, <1>8 DEF n, r

\* The run of a cell stands at its offset.
LEMMA EntriesLayout ==
    ASSUME NEW map, IsCellMap(map), NEW c \in DOMAIN map
    PROVE  /\ Len(EntriesFile(map)) \in Nat /\ Offset(map, c) \in Nat
           /\ Offset(map, c) + Len(Run(map[c])) <= Len(EntriesFile(map))
           /\ \A j \in 1..Len(Run(map[c])) : EntriesFile(map)[Offset(map, c) + j] = Run(map[c])[j]
<1> DEFINE D == DOMAIN map
           a == Ascending(D)
           n == Cardinality(D)
           s == [i \in 1..n |-> Run(map[a[i]])]
           B == {x \in D : x < c}
<1>1. D \subseteq Int /\ IsFiniteSet(D) /\ n \in Nat /\ \A x \in D : map[x] \in Seq(Nat)
  BY FS_CardinalityType DEF IsCellMap
<1>2. a \in Seq(D) /\ Len(a) = n /\ \A x \in D : \E i \in 1..Len(a) : a[i] = x
  BY <1>1, AscendingSorted
<1>3. \A i \in 1..n : a[i] \in D
  BY <1>2
<1>4. PICK k \in 1..n : a[k] = c
  BY <1>2
<1>5. Ascending(B) = [i \in 1..k - 1 |-> a[i]]
  <2>1. Ascending({x \in D : x < a[k]}) = [i \in 1..k - 1 |-> a[i]]
    BY <1>1, AscendingBelow
  <2> QED
    BY <1>4, <2>1
<1> HIDE DEF a, n
<1>6. s \in Seq(Seq(Nat)) /\ Len(s) = n
  <2>1. \A i \in 1..n : Run(map[a[i]]) \in Seq(Nat)
    <3> TAKE i \in 1..n
    <3>1. map[a[i]] \in Seq(Nat)
      BY <1>1, <1>3
    <3> QED
      BY <3>1, RunLayout
  <2> QED
    BY <1>1, <2>1
<1>7. EntriesFile(map) = FlattenSeq(s)
  <2>1. DOMAIN a = 1..n
    BY <1>2
  <2> QED
    BY <2>1, Zenon DEF EntriesFile, a
<1>8. Offset(map, c) = Len(FlattenSeq([i \in 1..k - 1 |-> s[i]]))
  <2> DEFINE r == Restrict(map, B)
             b == Ascending(B)
  <2>1. DOMAIN r = B /\ \A x \in B : r[x] = map[x]
    BY DEF Restrict
  <2>2. EntriesFile(r) = FlattenSeq([i \in DOMAIN b |-> Run(r[b[i]])])
    BY <2>1, Zenon DEF EntriesFile
  <2>3. DOMAIN b = 1..k - 1
    BY <1>5
  <2>4. \A i \in 1..k - 1 : b[i] = a[i]
    BY <1>5
  <2>5. \A i \in 1..k - 1 : a[i] \in B
    <3> TAKE i \in 1..k - 1
    <3>1. i \in 1..Len(a) /\ k \in 1..Len(a) /\ i < k
      BY <1>1, <1>2
    <3>2. a[i] < a[k]
      BY <1>1, <3>1, AscendingSorted DEF a
    <3>3. a[i] \in D
      BY <1>3, <3>1, <1>2
    <3> QED
      BY <1>4, <3>2, <3>3
  <2>6. \A i \in 1..k - 1 : Run(r[b[i]]) = s[i]
    <3> TAKE i \in 1..k - 1
    <3>1. i \in 1..n
      BY <1>1
    <3>2. b[i] = a[i] /\ r[a[i]] = map[a[i]]
      BY <2>1, <2>4, <2>5
    <3> QED
      BY <3>1, <3>2
  <2> HIDE DEF r, b, s
  <2>7. [i \in DOMAIN b |-> Run(r[b[i]])] = [i \in 1..k - 1 |-> s[i]]
    BY <2>3, <2>6
  <2>8. Offset(map, c) = Len(EntriesFile(r))
    BY DEF Offset, r, B, D
  <2> QED
    BY <2>2, <2>7, <2>8
<1> HIDE DEF s, B
<1>9. PICK g : ArePrefixes(g, s, Nat)
  BY <1>6, PrefixesExist
<1>10. n \in 0..Len(s) /\ k - 1 \in 0..Len(s) /\ k \in 1..Len(s) /\ k <= n
  BY <1>1, <1>6
<1>11. FlattenSeq([i \in 1..k - 1 |-> s[i]]) = g[k - 1]
  BY <1>6, <1>9, <1>10, FlattenIs, ZenonT(40)
<1>12. FlattenSeq(s) = g[n]
  <2>1. s = [i \in 1..n |-> s[i]]
    BY <1>6
  <2>2. FlattenSeq([i \in 1..n |-> s[i]]) = g[n]
    BY <1>6, <1>9, <1>10, FlattenIs
  <2> QED
    BY <2>1, <2>2
<1>13. /\ Len(g[k - 1]) \in Nat /\ Len(s[k]) \in Nat /\ Len(g[n]) \in Nat
       /\ Len(g[k - 1]) + Len(s[k]) <= Len(g[n])
       /\ \A j \in 1..Len(s[k]) : g[n][Len(g[k - 1]) + j] = s[k][j]
  <2>1. s \in Seq(Seq(Nat)) /\ k \in 1..Len(s) /\ n \in 0..Len(s)
    BY <1>6, <1>10
  <2>2. k <= n
    BY <1>10
  <2>3. Len(g[k - 1]) \in Nat /\ Len(s[k]) \in Nat /\ Len(g[n]) \in Nat
    BY <1>9, <2>1, <2>2, PrefixAt
  <2>4. Len(g[k - 1]) + Len(s[k]) <= Len(g[n])
    BY <1>9, <2>1, <2>2, PrefixAt
  <2>5. \A j \in 1..Len(s[k]) : g[n][Len(g[k - 1]) + j] = s[k][j]
    <3>1. StandsAt(g[n], Len(g[k - 1]), s[k])
      BY <1>9, <2>1, <2>2, PrefixAt
    <3> QED
      BY <3>1 DEF StandsAt
  <2> QED
    BY <2>3, <2>4, <2>5
<1>14. s[k] = Run(map[c])
  BY <1>4 DEF s
<1> QED
  BY <1>7, <1>8, <1>11, <1>12, <1>13, <1>14

\* What a reader finds at the offset of a cell.
ReadBack(map, c) ==
    IF c \in DOMAIN map THEN [i \in 1..Counted(map[c]) |-> map[c][i]] ELSE <<>>

\* At the offset of a cell its own ids are read back, and at NO_DATA none.
LEMMA OffsetReadsBack ==
    ASSUME NEW map, IsCellMap(map), NEW c
    PROVE  ForEachEntry(EntriesFile(map), OffsetOrNone(map, c)) = ReadBack(map, c)
<1>1. CASE c \notin DOMAIN map
  BY <1>1 DEF OffsetOrNone, ReadBack, ForEachEntry
<1>2. CASE c \in DOMAIN map
  <2> DEFINE e == EntriesFile(map)
             o == Offset(map, c)
             ids == map[c]
             r == Run(ids)
             n == Counted(ids)
             l == Len(ids)
  <2>1. ids \in Seq(Nat)
    BY <1>2 DEF IsCellMap
  <2>2. /\ Len(e) \in Nat /\ o \in Nat /\ o + Len(r) <= Len(e)
        /\ \A j \in 1..Len(r) : e[o + j] = r[j]
    BY <1>2, EntriesLayout
  <2>3. OffsetOrNone(map, c) = o
    BY <1>2 DEF OffsetOrNone
  <2> HIDE DEF ids
  <2>4. /\ Len(r) = 1 + 2 * l /\ r[1] = n
        /\ \A j \in 1..l : r[2 * j] = ids[j] % 65536 /\ r[2 * j + 1] = ids[j] \div 65536
    BY <2>1, RunLayout
  <2>5. l \in Nat /\ n \in 0..l
    BY <2>1, CountedType
  <2> HIDE DEF e, o, r, n, l
  <2>6. e[o + 1] = n /\ ~(o = NO_DATA \/ o + 1 > Len(e)) /\ ~(o + 1 + 2 * n > Len(e))
    BY <2>2, <2>4, <2>5 DEF NO_DATA
  <2>7. ASSUME NEW i \in 1..n PROVE e[o + 2 * i] + 65536 * e[o + 2 * i + 1] = ids[i]
    <3>1. i \in 1..l /\ 2 * i \in 1..Len(r) /\ 2 * i + 1 \in 1..Len(r)
      BY <2>4, <2>5
    <3>2. e[o + 2 * i] = ids[i] % 65536
      BY <2>2, <2>4, <3>1
    <3>3. e[o + 2 * i + 1] = ids[i] \div 65536
      <4>1. e[o + (2 * i + 1)] = r[2 * i + 1]
        BY <2>2, <3>1
      <4>2. o + (2 * i + 1) = o + 2 * i + 1
        BY <2>2
      <4> QED
        BY <2>4, <3>1, <4>1, <4>2
    <3>4. ids[i] \in Nat
      BY <2>1, <3>1 DEF l
    <3>5. PICK x \in Nat : x = ids[i]
      BY <3>4
    <3>6. (x % 65536) + 65536 * (x \div 65536) = x
      OBVIOUS
    <3> QED
      BY <3>2, <3>3, <3>5, <3>6
  <2>8. ForEachEntry(e, o) = [i \in 1..n |-> e[o + 2 * i] + 65536 * e[o + 2 * i + 1]]
    BY <2>6 DEF ForEachEntry
  <2>9. ForEachEntry(e, o) = [i \in 1..n |-> ids[i]]
    BY <2>7, <2>8
  <2> QED
    BY <1>2, <2>3, <2>9 DEF ReadBack, e, n, ids
<1> QED
  BY <1>1, <1>2

\* The binary search finds the position of a cell in a sorted directory.
LEMMA SearchFinds ==
    ASSUME NEW dir, NEW n \in Nat, Len(dir) = n,
           \A i \in 1..n : dir[i].cell \in Int,
           \A i, j \in 1..n : i < j => dir[i].cell < dir[j].cell,
           NEW cell \in Int, NEW p \in 0..n,
           p = 0 => \A i \in 1..n : dir[i].cell # cell,
           p # 0 => dir[p].cell = cell
    PROVE  Search(dir, cell) = p
<1> DEFINE Mid(lo, hi) == lo + (hi - lo) \div 2
           Id(i) == dir[i].cell
           Step(f, lo, hi) ==
               IF lo >= hi THEN 0
               ELSE IF Id(Mid(lo, hi) + 1) = cell THEN Mid(lo, hi) + 1
               ELSE IF Id(Mid(lo, hi) + 1) < cell THEN f[<<Mid(lo, hi) + 1, hi>>]
               ELSE f[<<lo, Mid(lo, hi)>>]
           Is(f) == f = [r \in (0..n) \X (0..n) |-> Step(f, r[1], r[2])]
           F == CHOOSE f : Is(f)
           W(lo, hi) == IF lo < p /\ p <= hi THEN p ELSE 0
           w == [r \in (0..n) \X (0..n) |-> W(r[1], r[2])]
<1>1. Search(dir, cell) = F[<<0, n>>]
  BY DEF Search
<1>2. /\ \A i \in 1..n : Id(i) \in Int
      /\ \A i, j \in 1..n : i < j => Id(i) < Id(j)
      /\ p = 0 => \A i \in 1..n : Id(i) # cell
      /\ p # 0 => Id(p) = cell
  OBVIOUS
<1> HIDE DEF Id
<1>3. ASSUME NEW lo \in 0..n, NEW hi \in 0..n, lo < hi
      PROVE  /\ Mid(lo, hi) \in 0..n /\ lo <= Mid(lo, hi) /\ Mid(lo, hi) < hi
             /\ Mid(lo, hi) + 1 \in 0..n
  <2>1. (hi - lo) \div 2 \in Nat /\ (hi - lo) \div 2 < hi - lo
    BY <1>3
  <2> QED
    BY <1>3, <2>1
<1>4. ASSUME NEW f, NEW lo \in 0..n, NEW hi \in 0..n,
             lo < hi => /\ f[<<Mid(lo, hi) + 1, hi>>] = W(Mid(lo, hi) + 1, hi)
                        /\ f[<<lo, Mid(lo, hi)>>] = W(lo, Mid(lo, hi))
      PROVE  Step(f, lo, hi) = W(lo, hi)
  <2>1. CASE lo >= hi
    BY <2>1
  <2>2. CASE lo < hi
    <3>1. PICK m : m = Mid(lo, hi)
      OBVIOUS
    <3>2. m \in 0..n /\ m + 1 \in 1..n /\ lo <= m /\ m < hi
      BY <1>3, <2>2, <3>1
    <3>3. f[<<m + 1, hi>>] = W(m + 1, hi) /\ f[<<lo, m>>] = W(lo, m)
      BY <1>4, <2>2, <3>1
    <3>4. Step(f, lo, hi) = IF Id(m + 1) = cell THEN m + 1
                            ELSE IF Id(m + 1) < cell THEN W(m + 1, hi) ELSE W(lo, m)
      BY <2>2, <3>1, <3>3
    <3> HIDE DEF Step
    <3>5. p = 0 \/ p = m + 1 \/ p < m + 1 \/ p > m + 1
      BY <3>2
    <3>6. CASE p = 0
      BY <1>2, <3>2, <3>4, <3>6
    <3>7. CASE p = m + 1
      BY <1>2, <3>2, <3>4, <3>7
    <3>8. CASE p # 0 /\ p < m + 1
      <4>1. Id(p) = cell /\ Id(p) < Id(m + 1) /\ Id(m + 1) \in Int
        BY <1>2, <3>2, <3>8
      <4>2. Step(f, lo, hi) = W(lo, m)
        BY <3>4, <4>1
      <4> QED
        BY <3>2, <3>8, <4>2
    <3>9. CASE p > m + 1
      <4>1. Id(p) = cell /\ Id(m + 1) < Id(p) /\ Id(m + 1) \in Int
        BY <1>2, <3>2, <3>9
      <4>2. Step(f, lo, hi) = W(m + 1, hi)
        BY <3>4, <4>1
      <4> QED
        BY <3>2, <3>9, <4>2
    <3> QED
      BY <3>5, <3>6, <3>7, <3>8, <3>9
  <2> QED
    BY <2>1, <2>2
<1>5. Is(w)
  <2>1. \A lo, hi \in 0..n : w[<<lo, hi>>] = W(lo, hi)
    OBVIOUS
  <2> HIDE DEF w, Step, W, Mid
  <2>2. ASSUME NEW lo \in 0..n, NEW hi \in 0..n PROVE Step(w, lo, hi) = W(lo, hi)
    <3>1. lo < hi => /\ w[<<Mid(lo, hi) + 1, hi>>] = W(Mid(lo, hi) + 1, hi)
                     /\ w[<<lo, Mid(lo, hi)>>] = W(lo, Mid(lo, hi))
      <4> SUFFICES ASSUME lo < hi
                   PROVE  /\ w[<<Mid(lo, hi) + 1, hi>>] = W(Mid(lo, hi) + 1, hi)
                          /\ w[<<lo, Mid(lo, hi)>>] = W(lo, Mid(lo, hi))
        OBVIOUS
      <4>1. Mid(lo, hi) \in 0..n /\ Mid(lo, hi) + 1 \in 0..n
        BY <1>3
      <4> QED
        BY <2>1, <4>1
    <3> QED
      BY <1>4, <3>1
  <2>3. \A r \in (0..n) \X (0..n) : Step(w, r[1], r[2]) = W(r[1], r[2])
    BY <2>2
  <2> QED
    BY <2>3 DEF w
<1>6. Is(F)
  BY <1>5, Zenon
<1> HIDE DEF F, Step, W, Mid
<1>7. \A lo, hi \in 0..n : F[<<lo, hi>>] = Step(F, lo, hi)
  BY <1>6
<1> DEFINE Wrong(d) == \E lo, hi \in 0..n : d = hi - lo /\ F[<<lo, hi>>] # W(lo, hi)
           Bad == {d \in 0..n : Wrong(d)}
<1>8. ASSUME NEW lo \in 0..n, NEW hi \in 0..n, ~(lo < hi) PROVE F[<<lo, hi>>] = W(lo, hi)
  BY <1>4, <1>7, <1>8, ZenonT(40)
<1>9. Bad = {}
  <2> SUFFICES ASSUME Bad # {} PROVE FALSE
    OBVIOUS
  <2>1. Bad \subseteq Nat
    OBVIOUS
  <2>2. PICK d \in Bad : \A e \in Bad : d <= e
    <3> HIDE DEF Bad
    <3> QED
      BY <2>1, NatLeast
  <2>3. PICK lo \in 0..n, hi \in 0..n : d = hi - lo /\ F[<<lo, hi>>] # W(lo, hi)
    BY <2>2
  <2>4. lo < hi
    BY <1>8, <2>3
  <2>5. PICK m : m = Mid(lo, hi)
    OBVIOUS
  <2>6. m \in 0..n /\ lo <= m /\ m < hi /\ m + 1 \in 0..n
    BY <1>3, <2>4, <2>5
  <2>7. ASSUME NEW x \in 0..n, NEW y \in 0..n, y - x < hi - lo PROVE F[<<x, y>>] = W(x, y)
    <3>1. CASE x < y
      <4>1. y - x \in 0..n /\ y - x \in Int /\ ~(d <= y - x)
        BY <2>2, <2>3, <2>7, <3>1
      <4>2. y - x \notin Bad
        BY <2>2, <4>1
      <4> QED
        BY <4>1, <4>2
    <3>2. CASE ~(x < y)
      BY <1>8, <3>2
    <3> QED
      BY <3>1, <3>2
  <2>8. F[<<m + 1, hi>>] = W(m + 1, hi) /\ F[<<lo, m>>] = W(lo, m)
    <3>1. hi - (m + 1) < hi - lo /\ m - lo < hi - lo
      BY <2>6
    <3> QED
      BY <2>6, <2>7, <3>1
  <2>9. Step(F, lo, hi) = W(lo, hi)
    BY <1>4, <2>5, <2>8
  <2> QED
    BY <1>7, <2>3, <2>9
<1>10. F[<<0, n>>] = W(0, n)
  <2>1. 0 \in 0..n /\ n \in 0..n /\ n - 0 = n
    OBVIOUS
  <2>2. n \notin Bad
    <3> HIDE DEF Bad
    <3> QED
      BY <1>9
  <2>3. ~Wrong(n)
    BY <2>1, <2>2
  <2> QED
    BY <2>1, <2>3
<1> QED
  BY <1>1, <1>10 DEF W

\* The search in a directory of sorted cells finds exactly the cells it has.
LEMMA SearchAscending ==
    ASSUME NEW S, S \subseteq Int, IsFiniteSet(S), NEW dir, Len(dir) = Cardinality(S),
           \A i \in 1..Cardinality(S) : dir[i].cell = Ascending(S)[i], NEW c \in Int
    PROVE  /\ c \notin S => Search(dir, c) = 0
           /\ c \in S => /\ Search(dir, c) \in 1..Cardinality(S) /\ Search(dir, c) # 0
                         /\ Ascending(S)[Search(dir, c)] = c
<1> DEFINE a == Ascending(S)
           n == Cardinality(S)
<1>1. n \in Nat
  BY FS_CardinalityType
<1>2. /\ a \in Seq(S) /\ Len(a) = n
      /\ \A i, j \in 1..Len(a) : i < j => a[i] < a[j]
      /\ \A x \in S : \E i \in 1..Len(a) : a[i] = x
  BY AscendingSorted
<1> HIDE DEF a, n
<1>3. \A i \in 1..n : a[i] \in S
  BY <1>2
<1>4. \A i \in 1..n : dir[i].cell = a[i]
  BY DEF a, n
<1>5. \A i \in 1..n : dir[i].cell = a[i] /\ a[i] \in S /\ a[i] \in Int
  BY <1>3, <1>4
<1>6. /\ Len(dir) = n
      /\ \A i \in 1..n : dir[i].cell \in Int
      /\ \A i, j \in 1..n : i < j => dir[i].cell < dir[j].cell
  BY <1>2, <1>5 DEF n
<1>7. CASE c \notin S
  <2>1. \A i \in 1..n : dir[i].cell # c
    BY <1>5, <1>7
  <2>2. 0 \in 0..n
    BY <1>1
  <2>3. Search(dir, c) = 0
    BY <1>1, <1>6, <2>1, <2>2, SearchFinds
  <2> QED
    BY <1>7, <2>3
<1>8. CASE c \in S
  <2>1. PICK p \in 1..n : a[p] = c
    BY <1>2, <1>8
  <2>2. p \in 0..n /\ p # 0 /\ dir[p].cell = c
    BY <1>1, <1>5, <2>1
  <2>3. Search(dir, c) = p
    BY <1>1, <1>6, <2>2, SearchFinds
  <2> QED
    BY <1>8, <2>1, <2>2, <2>3 DEF a, n
<1> QED
  BY <1>7, <1>8

\* The admin, place and POI directories, and those of the address indexes: for
\* every cell a reader finds the ids that were pushed for it, as many as a count
\* can hold, and for a cell without ids none (write_entries, write_cell_index,
\* lookup_cell, for_each_entry).
THEOREM CellIndexReadsBack ==
    ASSUME NEW map, IsCellMap(map), NEW c \in Int
    PROVE  ForEachEntry(EntriesFile(map), LookupCell(CellIndex(map), c)) = ReadBack(map, c)
<1> DEFINE S == DOMAIN map
           a == Ascending(S)
           n == Cardinality(S)
           dir == CellIndex(map)
           i == Search(dir, c)
<1>1. S \subseteq Int /\ IsFiniteSet(S) /\ n \in Nat
  BY FS_CardinalityType DEF IsCellMap
<1>2. a \in Seq(S) /\ Len(a) = n
  BY <1>1, AscendingSorted
<1>3. dir = [k \in 1..n |-> [cell |-> a[k], offset |-> Offset(map, a[k])]]
  <2>1. DOMAIN a = 1..n
    BY <1>2
  <2> QED
    BY <2>1, Zenon DEF CellIndex
<1> HIDE DEF S, a, n, dir
<1>4. Len(dir) = n /\ \A k \in 1..n : dir[k].cell = a[k] /\ dir[k].offset = Offset(map, a[k])
  BY <1>1, <1>3
<1>5. /\ c \notin S => i = 0
      /\ c \in S => i \in 1..n /\ i # 0 /\ a[i] = c
  BY <1>1, <1>4, SearchAscending DEF a, n
<1> HIDE DEF i
<1>6. LookupCell(dir, c) = IF i = 0 THEN NO_DATA ELSE dir[i].offset
  BY Zenon DEF LookupCell, i
<1>7. LookupCell(dir, c) = OffsetOrNone(map, c)
  BY <1>4, <1>5, <1>6 DEF OffsetOrNone, S
<1> QED
  BY <1>7, OffsetReadsBack DEF dir

\* geo_cells.bin: the same for the three layers that share one directory; a layer
\* without ids in a cell that another layer has is read as empty, and never as
\* another cell's run (write_cell_index, lookup_geo_cell, for_each_entry).
THEOREM GeoCellsReadBack ==
    ASSUME NEW streets, NEW addrs, NEW interps,
           IsCellMap(streets), IsCellMap(addrs), IsCellMap(interps), NEW c \in Int
    PROVE  LET found == LookupGeoCell(GeoCells(streets, addrs, interps), c)
           IN  /\ ForEachEntry(EntriesFile(streets), found.street) = ReadBack(streets, c)
               /\ ForEachEntry(EntriesFile(addrs), found.addr) = ReadBack(addrs, c)
               /\ ForEachEntry(EntriesFile(interps), found.interp) = ReadBack(interps, c)
<1> DEFINE S == DOMAIN streets \cup DOMAIN addrs \cup DOMAIN interps
           a == Ascending(S)
           n == Cardinality(S)
           dir == GeoCells(streets, addrs, interps)
           i == Search(dir, c)
           found == LookupGeoCell(dir, c)
<1>1. S \subseteq Int /\ IsFiniteSet(S)
  <2>1. /\ DOMAIN streets \subseteq Int /\ IsFiniteSet(DOMAIN streets)
        /\ DOMAIN addrs \subseteq Int /\ IsFiniteSet(DOMAIN addrs)
        /\ DOMAIN interps \subseteq Int /\ IsFiniteSet(DOMAIN interps)
    BY DEF IsCellMap
  <2>2. IsFiniteSet(DOMAIN streets \cup DOMAIN addrs)
    BY <2>1, FS_Union
  <2>3. IsFiniteSet((DOMAIN streets \cup DOMAIN addrs) \cup DOMAIN interps)
    BY <2>1, <2>2, FS_Union
  <2> QED
    BY <2>1, <2>3
<1>2. n \in Nat
  BY <1>1, FS_CardinalityType
<1>3. a \in Seq(S) /\ Len(a) = n
  BY <1>1, AscendingSorted
<1>4. dir = [k \in 1..n |-> [cell   |-> a[k],
                             street |-> OffsetOrNone(streets, a[k]),
                             addr   |-> OffsetOrNone(addrs, a[k]),
                             interp |-> OffsetOrNone(interps, a[k])]]
  <2>1. DOMAIN a = 1..n
    BY <1>3
  <2> QED
    BY <2>1, Zenon DEF GeoCells
<1>5. DOMAIN streets \subseteq S /\ DOMAIN addrs \subseteq S /\ DOMAIN interps \subseteq S
  OBVIOUS
<1> HIDE DEF S, a, n, dir
<1>6. Len(dir) = n /\ \A k \in 1..n : /\ dir[k].cell = a[k]
                                      /\ dir[k].street = OffsetOrNone(streets, a[k])
                                      /\ dir[k].addr = OffsetOrNone(addrs, a[k])
                                      /\ dir[k].interp = OffsetOrNone(interps, a[k])
  BY <1>2, <1>4
<1>7. /\ c \notin S => i = 0
      /\ c \in S => i \in 1..n /\ i # 0 /\ a[i] = c
  BY <1>1, <1>6, SearchAscending DEF a, n
<1> HIDE DEF i
<1>8. found = IF i = 0 THEN [street |-> NO_DATA, addr |-> NO_DATA, interp |-> NO_DATA]
              ELSE [street |-> dir[i].street, addr |-> dir[i].addr, interp |-> dir[i].interp]
  BY Zenon DEF LookupGeoCell, i
<1>9. /\ found.street = OffsetOrNone(streets, c)
      /\ found.addr = OffsetOrNone(addrs, c)
      /\ found.interp = OffsetOrNone(interps, c)
  <2> HIDE DEF found
  <2>1. CASE c \in S
    <3>1. i \in 1..n /\ i # 0 /\ a[i] = c
      BY <1>7, <2>1
    <3>2. dir[i].street = OffsetOrNone(streets, c) /\ dir[i].addr = OffsetOrNone(addrs, c)
          /\ dir[i].interp = OffsetOrNone(interps, c)
      BY <1>6, <3>1
    <3> QED
      BY <1>8, <3>1, <3>2
  <2>2. CASE c \notin S
    <3>1. c \notin DOMAIN streets /\ c \notin DOMAIN addrs /\ c \notin DOMAIN interps
      BY <1>5, <2>2
    <3> QED
      BY <1>7, <1>8, <2>2, <3>1 DEF OffsetOrNone
  <2> QED
    BY <2>1, <2>2
<1> HIDE DEF found
<1>10. /\ ForEachEntry(EntriesFile(streets), found.street) = ReadBack(streets, c)
       /\ ForEachEntry(EntriesFile(addrs), found.addr) = ReadBack(addrs, c)
       /\ ForEachEntry(EntriesFile(interps), found.interp) = ReadBack(interps, c)
  BY <1>9, OffsetReadsBack
<1> QED
  BY <1>10, Zenon DEF found, dir

-----------------------------------------------------------------------------
(* Sequences, sums and positions. *)

\* s is a sequence, of whatever.
IsSeq(s) == s \in Seq(ToSet(s))

\* A typed sequence is a sequence of its own elements.
LEMMA SeqIsSeq ==
    ASSUME NEW T, NEW s \in Seq(T)
    PROVE  IsSeq(s) /\ Len(s) \in Nat /\ DOMAIN s = 1..Len(s)
<1>1. Len(s) \in Nat /\ DOMAIN s = 1..Len(s) /\ s = [i \in 1..Len(s) |-> s[i]]
  OBVIOUS
<1>2. \A i \in 1..Len(s) : s[i] \in ToSet(s)
  BY <1>1 DEF ToSet
<1>3. s \in [1..Len(s) -> ToSet(s)]
  BY <1>1, <1>2
<1> QED
  BY <1>1, <1>3 DEF IsSeq

\* A function on 1..n is a sequence of length n.
LEMMA FunIsSeq ==
    ASSUME NEW n \in Nat, NEW s, s = [i \in 1..n |-> s[i]]
    PROVE  IsSeq(s) /\ Len(s) = n
<1>1. DOMAIN s = 1..n
  OBVIOUS
<1>2. \A i \in 1..n : s[i] \in ToSet(s)
  BY <1>1 DEF ToSet
<1>3. s \in [1..n -> ToSet(s)]
  BY <1>2
<1> QED
  BY <1>3 DEF IsSeq

\* Append adds one element at the end and changes none.
LEMMA AppendIsSeq ==
    ASSUME NEW s, IsSeq(s), NEW e
    PROVE  /\ Len(s) \in Nat /\ IsSeq(Append(s, e)) /\ Len(Append(s, e)) = Len(s) + 1
           /\ \A i \in 1..Len(s) : Append(s, e)[i] = s[i]
           /\ Append(s, e)[Len(s) + 1] = e
           /\ ToSet(Append(s, e)) = ToSet(s) \cup {e}
<1> DEFINE T == ToSet(s) \cup {e}
           a == Append(s, e)
           n == Len(s)
<1>1. s \in Seq(ToSet(s)) /\ n \in Nat
  BY DEF IsSeq
<1>2. s \in Seq(T) /\ e \in T
  <2>1. s \in [1..n -> ToSet(s)]
    BY <1>1
  <2>2. s \in [1..n -> T]
    BY <2>1
  <2> QED
    BY <1>1, <2>2
<1> HIDE DEF T
<1>3. a \in Seq(T) /\ Len(a) = n + 1 /\ (\A i \in 1..n : a[i] = s[i]) /\ a[n + 1] = e
  BY <1>1, <1>2, AppendProperties
<1>4. IsSeq(a) /\ DOMAIN a = 1..n + 1
  BY <1>3, SeqIsSeq
<1>5. DOMAIN s = 1..n
  BY <1>1
<1>6. ToSet(a) = ToSet(s) \cup {e}
  <2> HIDE DEF a, n
  <2>1. \A x : x \in ToSet(a) <=> \E i \in 1..n + 1 : x = a[i]
    BY <1>4 DEF ToSet
  <2>2. \A x : x \in ToSet(s) <=> \E i \in 1..n : x = s[i]
    BY <1>5 DEF ToSet
  <2>3. \A i \in 1..n + 1 : i \in 1..n \/ i = n + 1
    BY <1>1
  <2>4. n + 1 \in 1..n + 1 /\ \A i \in 1..n : i \in 1..n + 1
    BY <1>1
  <2> QED
    BY <1>3, <2>1, <2>2, <2>3, <2>4
<1> QED
  BY <1>1, <1>3, <1>4, <1>6

\* A function takes finitely many values on a finite set.
LEMMA FiniteImage ==
    ASSUME NEW S, IsFiniteSet(S), NEW f, f = [x \in S |-> f[x]]
    PROVE  IsFiniteSet({f[x] : x \in S})
<1> DEFINE T == {f[x] : x \in S}
<1>1. f \in [S -> T] /\ \A y \in T : \E x \in S : f[x] = y
  OBVIOUS
<1> HIDE DEF T
<1>2. f \in Surjection(S, T)
  BY <1>1 DEF Surjection
<1>3. IsFiniteSet(T)
  BY <1>2, FS_Surjection
<1> QED
  BY <1>3 DEF T

\* A sequence has finitely many elements.
LEMMA ToSetFinite ==
    ASSUME NEW T, NEW s \in Seq(T)
    PROVE  ToSet(s) \subseteq T /\ IsFiniteSet(ToSet(s))
<1>1. Len(s) \in Nat /\ DOMAIN s = 1..Len(s) /\ \A i \in 1..Len(s) : s[i] \in T
  OBVIOUS
<1>2. ToSet(s) = {s[i] : i \in 1..Len(s)}
  BY <1>1 DEF ToSet
<1>3. IsFiniteSet(1..Len(s))
  <2>1. 1 \in Int /\ Len(s) \in Int
    BY <1>1
  <2> QED
    BY <2>1, FS_Interval
<1>4. s = [i \in 1..Len(s) |-> s[i]]
  OBVIOUS
<1>5. IsFiniteSet({s[i] : i \in 1..Len(s)})
  BY <1>3, <1>4, FiniteImage
<1> QED
  BY <1>1, <1>2, <1>5

\* A list of a bigger set.
LEMMA SeqMono ==
    ASSUME NEW S, NEW T, S \subseteq T, NEW s \in Seq(S)
    PROVE  s \in Seq(T)
<1>1. Len(s) \in Nat /\ s = [i \in 1..Len(s) |-> s[i]] /\ \A i \in 1..Len(s) : s[i] \in S
  OBVIOUS
<1>2. s \in [1..Len(s) -> T]
  BY <1>1
<1> QED
  BY <1>1, <1>2

\* The sums of the first 0 to n elements.
AreSums(g, s, n) == g = [i \in 0..n |-> IF i = 0 THEN 0 ELSE g[i - 1] + s[i]]

\* They exist, by induction on how many there are.
LEMMA SumsExist ==
    ASSUME NEW s, NEW n \in Nat
    PROVE  \E g : AreSums(g, s, n)
<1> DEFINE Bad == {k \in 0..n : ~\E f : AreSums(f, s, k)}
<1>1. ASSUME Bad # {} PROVE FALSE
  <2>1. 0 \notin Bad
    <3> DEFINE z == [i \in 0..0 |-> 0]
    <3>1. AreSums(z, s, 0)
      BY DEF AreSums
    <3> QED
      BY <3>1
  <2>2. Bad \in SUBSET (0..n)
    OBVIOUS
  <2>3. PICK k \in Bad : k \in 1..n /\ k - 1 \in 0..n /\ k - 1 \notin Bad
    <3>1. 0 \in Nat /\ 0 + 1 = 1
      OBVIOUS
    <3> HIDE DEF Bad
    <3> QED
      BY <1>1, <2>1, <2>2, <3>1, FirstFailure
  <2>4. PICK f : AreSums(f, s, k - 1)
    BY <2>3
  <2> DEFINE h == [i \in 0..k |-> IF i = k THEN f[k - 1] + s[k] ELSE f[i]]
  <2>5. ASSUME NEW i \in 0..k PROVE h[i] = IF i = 0 THEN 0 ELSE h[i - 1] + s[i]
    <3>1. i = 0 \/ i - 1 \in 0..k - 1
      BY <2>3
    <3>2. i - 1 \in 0..k - 1 => h[i - 1] = f[i - 1]
      BY <2>3
    <3>3. i \in 0..k - 1 => h[i] = f[i] /\ f[i] = IF i = 0 THEN 0 ELSE f[i - 1] + s[i]
      BY <2>3, <2>4 DEF AreSums
    <3>4. i = k \/ i \in 0..k - 1
      BY <2>3
    <3>5. k # 0
      BY <2>3
    <3> QED
      BY <3>1, <3>2, <3>3, <3>4, <3>5
  <2>6. AreSums(h, s, k)
    <3> DEFINE e == [i \in 0..k |-> IF i = 0 THEN 0 ELSE h[i - 1] + s[i]]
    <3>1. \A i \in 0..k : h[i] = e[i]
      BY <2>5
    <3>2. h = [i \in 0..k |-> h[i]]
      OBVIOUS
    <3> HIDE DEF h
    <3>3. h = e
      BY <3>1, <3>2
    <3> QED
      BY <3>3 DEF AreSums
  <2> QED
    BY <2>3, <2>6
<1>2. n \in 0..n /\ n \notin Bad
  BY <1>1
<1> QED
  BY <1>2

\* The last of the sums is Total.
LEMMA TotalIsSum ==
    ASSUME NEW s, NEW n \in Nat
    PROVE  \E g : AreSums(g, s, n) /\ Total(s, n) = g[n]
<1> DEFINE Is(f) == f = [i \in 0..n |-> IF i = 0 THEN 0 ELSE f[i - 1] + s[i]]
           F == CHOOSE f : Is(f)
<1>1. Total(s, n) = F[n]
  BY DEF Total
<1>2. \E f : Is(f)
  BY SumsExist DEF AreSums
<1>3. Is(F)
  BY <1>2, Zenon
<1> HIDE DEF F
<1> QED
  BY <1>1, <1>3 DEF AreSums

\* Sums of the same elements agree.
LEMMA SumsAgree ==
    ASSUME NEW s, NEW k \in Nat, NEW n \in Nat, k <= n, NEW f, NEW g,
           AreSums(f, s, k), AreSums(g, s, n)
    PROVE  f[k] = g[k]
<1> DEFINE Bad == {i \in 0..k : f[i] # g[i]}
<1>1. ASSUME Bad # {} PROVE FALSE
  <2>1. 0 \notin Bad
    BY DEF AreSums
  <2>2. Bad \in SUBSET (0..k)
    OBVIOUS
  <2>3. PICK i \in Bad : i \in 1..k /\ i - 1 \in 0..k /\ i - 1 \notin Bad
    <3>1. 0 \in Nat /\ 0 + 1 = 1
      OBVIOUS
    <3> HIDE DEF Bad
    <3> QED
      BY <1>1, <2>1, <2>2, <3>1, FirstFailure
  <2>4. f[i] = f[i - 1] + s[i] /\ g[i] = g[i - 1] + s[i]
    BY <2>3 DEF AreSums
  <2> QED
    BY <2>3, <2>4
<1> QED
  BY <1>1

\* The sum of the first elements grows by the next one.
LEMMA TotalStep ==
    ASSUME NEW s, NEW n \in Nat
    PROVE  Total(s, 0) = 0 /\ Total(s, n + 1) = Total(s, n) + s[n + 1]
<1>1. PICK g : AreSums(g, s, n + 1) /\ Total(s, n + 1) = g[n + 1]
  BY TotalIsSum
<1>2. PICK f : AreSums(f, s, n) /\ Total(s, n) = f[n]
  BY TotalIsSum
<1>3. f[n] = g[n]
  BY <1>1, <1>2, SumsAgree
<1>4. g[n + 1] = g[n] + s[n + 1]
  BY <1>1 DEF AreSums
<1>5. PICK h : AreSums(h, s, 0) /\ Total(s, 0) = h[0]
  BY TotalIsSum
<1>6. h[0] = 0
  BY <1>5 DEF AreSums
<1> QED
  BY <1>1, <1>2, <1>3, <1>4, <1>5, <1>6

\* The sum of integers is an integer.
LEMMA TotalType ==
    ASSUME NEW s \in Seq(Int)
    PROVE  Total(s, Len(s)) \in Int
<1> DEFINE n == Len(s)
           Bad == {k \in 0..n : Total(s, k) \notin Int}
<1>1. n \in Nat /\ 0 \in Nat /\ 0 + 1 = 1
  OBVIOUS
<1>2. ASSUME Bad # {} PROVE FALSE
  <2>1. 0 \notin Bad
    BY <1>1, TotalStep
  <2>2. Bad \in SUBSET (0..n)
    OBVIOUS
  <2>3. PICK k \in Bad : k \in 1..n /\ k - 1 \in 0..n /\ k - 1 \notin Bad
    <3> HIDE DEF Bad, n
    <3> QED
      BY <1>1, <1>2, <2>1, <2>2, FirstFailure
  <2>4. PICK j \in Nat : j = k - 1
    BY <2>3
  <2>5. Total(s, j + 1) = Total(s, j) + s[j + 1] /\ j + 1 = k
    BY <2>3, <2>4, TotalStep, SMTT(30)
  <2>6. s[k] \in Int /\ Total(s, j) \in Int
    BY <2>3, <2>4
  <2> QED
    BY <2>3, <2>5, <2>6
<1> QED
  BY <1>1, <1>2

\* Cells are integers.
LEMMA StreetCellType ==
    ASSUME NEW pos \in Int
    PROVE  StreetCell(pos) \in Int
<1>1. StreetWidth \in Nat \ {0}
  BY WidthsAssumption
<1> QED
  BY <1>1 DEF StreetCell

\* The centroid of a way is a position.
LEMMA CentroidType ==
    ASSUME NEW nodes \in Seq(Int) \ {<<>>}
    PROVE  Centroid(nodes) \in Int
<1>1. Len(nodes) \in Nat \ {0}
  OBVIOUS
<1>2. Total(nodes, Len(nodes)) \in Int
  BY TotalType
<1> HIDE DEF Total
<1> QED
  BY <1>1, <1>2 DEF Centroid

\* Finitely many positions lie between two.
LEMMA BetweenFinite ==
    ASSUME NEW a \in Int, NEW b \in Int
    PROVE  Between(a, b) \subseteq Int /\ IsFiniteSet(Between(a, b))
<1>1. Min({a, b}) \in Int
  BY MinOfTwo
<1>2. Max({a, b}) \in Int
  BY DEF Max
<1>3. IsFiniteSet(Min({a, b})..Max({a, b}))
  BY <1>1, <1>2, FS_Interval
<1> QED
  BY <1>1, <1>2, <1>3 DEF Between

\* A way runs through finitely many cells.
LEMMA EdgeCellsFinite ==
    ASSUME NEW nodes \in Seq(Int)
    PROVE  EdgeCells(nodes) \subseteq Int /\ IsFiniteSet(EdgeCells(nodes))
<1> DEFINE n == Len(nodes) - 1
           Of(i) == {StreetCell(p) : p \in Between(nodes[i], nodes[i + 1])}
           f == [i \in 1..n |-> Of(i)]
           I == {f[i] : i \in 1..n}
<1>1. \A i \in 1..n : nodes[i] \in Int /\ nodes[i + 1] \in Int
  OBVIOUS
<1>2. ASSUME NEW i \in 1..n PROVE Of(i) \subseteq Int /\ IsFiniteSet(Of(i))
  <2> DEFINE B == Between(nodes[i], nodes[i + 1])
             h == [p \in B |-> StreetCell(p)]
  <2>1. B \subseteq Int /\ IsFiniteSet(B)
    BY <1>1, BetweenFinite
  <2>2. Of(i) = {h[p] : p \in B}
    OBVIOUS
  <2>3. Of(i) \subseteq Int
    BY <2>1, StreetCellType
  <2>4. h = [p \in B |-> h[p]]
    OBVIOUS
  <2> HIDE DEF h, B
  <2>5. IsFiniteSet({h[p] : p \in B})
    BY <2>1, <2>4, FiniteImage
  <2> QED
    BY <2>2, <2>3, <2>5
<1>3. IsFiniteSet(1..n)
  <2>1. 1 \in Int /\ n \in Int
    OBVIOUS
  <2> QED
    BY <2>1, FS_Interval
<1>4. f = [i \in 1..n |-> f[i]] /\ \A i \in 1..n : f[i] = Of(i)
  OBVIOUS
<1>5. EdgeCells(nodes) = UNION I
  BY DEF EdgeCells
<1> HIDE DEF f, Of, n
<1>6. IsFiniteSet(I)
  BY <1>3, <1>4, FiniteImage
<1>7. \A T \in I : IsFiniteSet(T) /\ T \subseteq Int
  BY <1>2, <1>4
<1> HIDE DEF I
<1>8. IsFiniteSet(UNION I)
  BY <1>6, <1>7, FS_UNION
<1>9. UNION I \subseteq Int
  BY <1>7
<1> QED
  BY <1>5, <1>8, <1>9

-----------------------------------------------------------------------------
(* Pushing ids. *)

\* What PushAll leaves in a cell.
Pushed(map, C, id, c) ==
    (IF c \in DOMAIN map THEN ToSet(map[c]) ELSE {}) \cup (IF c \in C THEN {id} ELSE {})

\* push_back adds the id to the lists of the given cells and to no other.
LEMMA PushIds ==
    ASSUME NEW map, map \in [DOMAIN map -> Seq(Nat)], NEW C, NEW id \in Nat
    PROVE  /\ DOMAIN PushAll(map, C, id) = DOMAIN map \cup C
           /\ PushAll(map, C, id) \in [DOMAIN map \cup C -> Seq(Nat)]
           /\ \A c \in DOMAIN map \cup C : ToSet(PushAll(map, C, id)[c]) = Pushed(map, C, id, c)
<1> DEFINE D == DOMAIN map \cup C
           q == PushAll(map, C, id)
<1>1. DOMAIN q = D /\ \A c \in D : q[c] = IF c \notin DOMAIN map THEN <<id>>
                                         ELSE IF c \in C THEN Append(map[c], id) ELSE map[c]
  BY DEF PushAll
<1>2. q = [c \in D |-> q[c]]
  BY DEF PushAll
<1> HIDE DEF q
<1>3. ASSUME NEW c \in D PROVE q[c] \in Seq(Nat) /\ ToSet(q[c]) = Pushed(map, C, id, c)
  <2>1. CASE c \notin DOMAIN map
    <3>1. q[c] = <<id>> /\ c \in C
      BY <1>1, <2>1
    <3>2. <<id>> \in Seq(Nat) /\ ToSet(<<id>>) = {id}
      BY DEF ToSet
    <3> QED
      BY <2>1, <3>1, <3>2 DEF Pushed
  <2>2. CASE c \in DOMAIN map /\ c \in C
    <3>1. q[c] = Append(map[c], id) /\ map[c] \in Seq(Nat)
      BY <1>1, <2>2
    <3>2. Append(map[c], id) \in Seq(Nat)
      BY <3>1
    <3>3. IsSeq(map[c])
      BY <3>1, SeqIsSeq
    <3>4. ToSet(Append(map[c], id)) = ToSet(map[c]) \cup {id}
      BY <3>3, AppendIsSeq
    <3> QED
      BY <2>2, <3>1, <3>2, <3>4 DEF Pushed
  <2>3. CASE c \in DOMAIN map /\ c \notin C
    BY <1>1, <2>3 DEF Pushed
  <2> QED
    BY <2>1, <2>2, <2>3
<1> QED
  BY <1>1, <1>2, <1>3 DEF q

\* A cell map stays one.
LEMMA PushCellMap ==
    ASSUME NEW map, IsCellMap(map), NEW C, C \subseteq Int, IsFiniteSet(C), NEW id \in Nat
    PROVE  IsCellMap(PushAll(map, C, id))
<1>1. DOMAIN map \subseteq Int /\ IsFiniteSet(DOMAIN map) /\ map \in [DOMAIN map -> Seq(Nat)]
  BY DEF IsCellMap
<1>2. IsFiniteSet(DOMAIN map \cup C) /\ DOMAIN map \cup C \subseteq Int
  BY <1>1, FS_Union
<1>3. /\ DOMAIN PushAll(map, C, id) = DOMAIN map \cup C
      /\ PushAll(map, C, id) \in [DOMAIN map \cup C -> Seq(Nat)]
  BY <1>1, PushIds
<1> QED
  BY <1>2, <1>3 DEF IsCellMap

-----------------------------------------------------------------------------
(* Address points and their cells. *)

\* The ids of the points of a cell.
IdsIn(points, c) == {i \in 0..Len(points) - 1 : StreetCell(points[i + 1].pos) = c}

\* Every point is listed in its own cell, and in no other.
AddrsIndexed(points, map) ==
    /\ \A i \in 0..Len(points) - 1 : StreetCell(points[i + 1].pos) \in DOMAIN map
    /\ \A c \in DOMAIN map : ToSet(map[c]) = IdsIn(points, c)

\* A new address point, listed in its own cell, keeps the lists complete and
\* exact.
LEMMA AddrPushed ==
    ASSUME NEW points, IsSeq(points), NEW map, IsCellMap(map), AddrsIndexed(points, map),
           NEW a, a.pos \in Int
    PROVE  LET map2 == PushAll(map, {StreetCell(a.pos)}, Len(points))
           IN  IsCellMap(map2) /\ AddrsIndexed(Append(points, a), map2)
<1> DEFINE n == Len(points)
           p2 == Append(points, a)
           here == StreetCell(a.pos)
           C == {here}
           map2 == PushAll(map, C, n)
<1>1. /\ n \in Nat /\ Len(p2) = n + 1
      /\ \A i \in 1..n : p2[i] = points[i]
      /\ p2[n + 1] = a
  BY AppendIsSeq
<1>2. C \subseteq Int /\ IsFiniteSet(C)
  BY StreetCellType, FS_Singleton
<1>3. IsCellMap(map2)
  BY <1>1, <1>2, PushCellMap
<1>4. DOMAIN map2 = DOMAIN map \cup C
      /\ \A c \in DOMAIN map \cup C : ToSet(map2[c]) = Pushed(map, C, n, c)
  BY <1>1, PushIds DEF IsCellMap
<1> HIDE DEF p2, map2, n, here
<1>5. \A i \in 0..n - 1 : p2[i + 1] = points[i + 1]
  BY <1>1
<1>6. \A i \in 0..Len(p2) - 1 : i \in 0..n - 1 \/ i = n
  BY <1>1
<1>7. \A i \in 0..Len(p2) - 1 : StreetCell(p2[i + 1].pos) \in DOMAIN map2
  <2> TAKE i \in 0..Len(p2) - 1
  <2>1. CASE i \in 0..n - 1
    <3>1. p2[i + 1] = points[i + 1]
      BY <1>5, <2>1
    <3>2. StreetCell(points[i + 1].pos) \in DOMAIN map
      BY <2>1 DEF AddrsIndexed, n
    <3> QED
      BY <1>4, <3>1, <3>2
  <2>2. CASE i = n
    <3>1. p2[i + 1] = a
      BY <1>1, <2>2
    <3> QED
      BY <1>4, <3>1 DEF here
  <2> QED
    BY <1>6, <2>1, <2>2
<1>8. ASSUME NEW c \in DOMAIN map2 PROVE ToSet(map2[c]) = IdsIn(p2, c)
  <2>1. ToSet(map2[c]) = Pushed(map, C, n, c) /\ c \in DOMAIN map \cup C
    BY <1>4
  <2>2. (IF c \in DOMAIN map THEN ToSet(map[c]) ELSE {}) = IdsIn(points, c)
    <3>1. CASE c \in DOMAIN map
      BY <3>1 DEF AddrsIndexed
    <3>2. CASE c \notin DOMAIN map
      BY <3>2 DEF AddrsIndexed, IdsIn
    <3> QED
      BY <3>1, <3>2
  <2>3. Pushed(map, C, n, c) = IdsIn(points, c) \cup (IF c = here THEN {n} ELSE {})
    BY <2>2 DEF Pushed
  <2>4. \A i : i \in IdsIn(p2, c) <=> i \in 0..n /\ StreetCell(p2[i + 1].pos) = c
    BY <1>1 DEF IdsIn
  <2>5. \A i : i \in IdsIn(points, c) <=> i \in 0..n - 1 /\ StreetCell(p2[i + 1].pos) = c
    BY <1>5 DEF IdsIn, n
  <2>6. StreetCell(p2[n + 1].pos) = here
    BY <1>1 DEF here
  <2>7. \A i : i \in 0..n <=> i \in 0..n - 1 \/ i = n
    BY <1>1
  <2> QED
    BY <2>1, <2>3, <2>4, <2>5, <2>6, <2>7
<1>9. IsCellMap(map2) /\ AddrsIndexed(p2, map2)
  BY <1>3, <1>7, <1>8 DEF AddrsIndexed
<1> QED
  BY <1>9, Zenon DEF map2, p2, n, here

\* Ascending lists of the same ids.
LEMMA DeduplicateIs ==
    ASSUME NEW map, map \in [DOMAIN map -> Seq(Nat)]
    PROVE  /\ DOMAIN Deduplicate(map) = DOMAIN map
           /\ Deduplicate(map) \in [DOMAIN map -> Seq(Nat)]
           /\ \A c \in DOMAIN map : /\ ToSet(Deduplicate(map)[c]) = ToSet(map[c])
                                    /\ Deduplicate(map)[c] = Ascending(ToSet(map[c]))
<1> DEFINE q == Deduplicate(map)
<1>1. DOMAIN q = DOMAIN map /\ q = [c \in DOMAIN map |-> q[c]]
      /\ \A c \in DOMAIN map : q[c] = Ascending(ToSet(map[c]))
  BY DEF Deduplicate
<1> HIDE DEF q
<1>2. ASSUME NEW c \in DOMAIN map PROVE q[c] \in Seq(Nat) /\ ToSet(q[c]) = ToSet(map[c])
  <2> DEFINE S == ToSet(map[c])
  <2>1. map[c] \in Seq(Nat)
    OBVIOUS
  <2>2. S \subseteq Nat /\ IsFiniteSet(S)
    BY <2>1, ToSetFinite
  <2> HIDE DEF S
  <2>3. S \subseteq Int
    BY <2>2
  <2>4. Ascending(S) \in Seq(S) /\ ToSet(Ascending(S)) = S
    BY <2>2, <2>3, AscendingSorted
  <2>5. Ascending(S) \in Seq(Nat)
    BY <2>2, <2>4, SeqMono
  <2> QED
    BY <1>1, <2>4, <2>5 DEF S
<1> QED
  BY <1>1, <1>2 DEF q

\* The address ids in the order of their cells.
AddrOrder(map) ==
    LET cells == Ascending(DOMAIN map)
    IN  FlattenSeq([i \in DOMAIN cells |-> map[cells[i]]])

\* Every id is met once, in the run of its own cell.
LEMMA OrderIsPermutation ==
    ASSUME NEW points, IsSeq(points), NEW map, IsCellMap(map), AddrsIndexed(points, map),
           \A c \in DOMAIN map : map[c] = Ascending(ToSet(map[c]))
    PROVE  /\ Len(points) \in Nat /\ Len(AddrOrder(map)) = Len(points)
           /\ DOMAIN AddrOrder(map) = 1..Len(points)
           /\ \A x \in 1..Len(points) : AddrOrder(map)[x] \in 0..Len(points) - 1
           /\ \A x, y \in 1..Len(points) : AddrOrder(map)[x] = AddrOrder(map)[y] => x = y
           /\ \A v \in 0..Len(points) - 1 : \E x \in 1..Len(points) : AddrOrder(map)[x] = v
<1> DEFINE D == DOMAIN map
           a == Ascending(D)
           n == Cardinality(D)
           s == [i \in 1..n |-> map[a[i]]]
           N == Len(points)
           order == AddrOrder(map)
<1>1. D \subseteq Int /\ IsFiniteSet(D) /\ n \in Nat /\ \A c \in D : map[c] \in Seq(Nat)
  BY FS_CardinalityType DEF IsCellMap
<1>2. N \in Nat
  BY DEF IsSeq
<1>3. /\ a \in Seq(D) /\ Len(a) = n
      /\ \A i, j \in 1..Len(a) : i < j => a[i] < a[j]
      /\ \A c \in D : \E i \in 1..Len(a) : a[i] = c
  BY <1>1, AscendingSorted
<1>4. \A c \in D : ToSet(map[c]) = IdsIn(points, c)
  BY DEF AddrsIndexed
<1>5. \A v \in 0..N - 1 : StreetCell(points[v + 1].pos) \in D
  BY DEF AddrsIndexed
<1>6. ASSUME NEW c \in D
      PROVE  /\ Len(map[c]) \in Nat
             /\ \A i \in 1..Len(map[c]) : map[c][i] \in IdsIn(points, c)
             /\ \A v \in IdsIn(points, c) : \E i \in 1..Len(map[c]) : map[c][i] = v
             /\ \A i, j \in 1..Len(map[c]) : map[c][i] = map[c][j] => i = j
  <2> DEFINE S == ToSet(map[c])
             l == map[c]
  <2>1. l \in Seq(Nat) /\ l = Ascending(S) /\ S = IdsIn(points, c)
    BY <1>1, <1>4
  <2>2. S \subseteq Nat /\ IsFiniteSet(S)
    BY <2>1, ToSetFinite
  <2> HIDE DEF S, l
  <2>3. S \subseteq Int
    BY <2>2
  <2>4. /\ l \in Seq(S)
        /\ \A i, j \in 1..Len(l) : i < j => l[i] < l[j]
        /\ \A x \in S : \E i \in 1..Len(l) : l[i] = x
    BY <2>1, <2>2, <2>3, AscendingSorted
  <2>5. Len(l) \in Nat
    BY <2>1
  <2>6. \A i \in 1..Len(l) : l[i] \in S /\ l[i] \in Int
    <3>1. \A i \in 1..Len(l) : l[i] \in S
      BY <2>4
    <3> QED
      BY <2>3, <3>1
  <2>7. ASSUME NEW i \in 1..Len(l), NEW j \in 1..Len(l), l[i] = l[j] PROVE i = j
    <3>1. ~(i < j) /\ ~(j < i)
      BY <2>4, <2>6, <2>7, SMTT(30)
    <3> QED
      BY <2>5, <3>1
  <2> QED
    BY <2>1, <2>4, <2>5, <2>6, <2>7 DEF l
<1> HIDE DEF a, n, N, D
<1>7. \A i \in 1..n : a[i] \in D
  BY <1>3
<1>8. \A i, j \in 1..n : a[i] = a[j] => i = j
  <2> SUFFICES ASSUME NEW i \in 1..n, NEW j \in 1..n, a[i] = a[j] PROVE i = j
    OBVIOUS
  <2>1. a[i] \in Int /\ a[j] \in Int
    BY <1>1, <1>7
  <2>2. ~(i < j) /\ ~(j < i)
    BY <1>3, <2>1
  <2> QED
    BY <1>1, <2>2
<1>9. s \in Seq(Seq(Nat)) /\ Len(s) = n
  <2>1. \A i \in 1..n : map[a[i]] \in Seq(Nat)
    BY <1>1, <1>7
  <2> QED
    BY <1>1, <2>1
<1>10. order = FlattenSeq(s)
  <2>1. DOMAIN a = 1..n
    BY <1>3
  <2> QED
    BY <2>1, Zenon DEF AddrOrder, a, D
<1>11. \A k \in 1..n : s[k] = map[a[k]]
  OBVIOUS
<1> HIDE DEF s, order
<1>12. PICK g : ArePrefixes(g, s, Nat)
  BY <1>9, PrefixesExist
<1>13. n \in 0..Len(s)
  BY <1>1, <1>9
<1>14. order = g[n]
  <2>1. s = [i \in 1..n |-> s[i]]
    BY <1>9
  <2>2. FlattenSeq([i \in 1..n |-> s[i]]) = g[n]
    BY <1>9, <1>12, <1>13, FlattenIs
  <2> QED
    BY <1>10, <2>1, <2>2
<1> DEFINE L == Len(order)
           start(k) == Len(g[k - 1])
<1>15. order \in Seq(Nat)
  BY <1>13, <1>14, <1>12 DEF ArePrefixes
<1>16. L \in Nat /\ DOMAIN order = 1..L
  BY <1>15
<1>17. ASSUME NEW k \in 1..n
       PROVE  /\ start(k) \in Nat /\ Len(s[k]) \in Nat /\ start(k) + Len(s[k]) <= L
              /\ StandsAt(order, start(k), s[k])
  <2>1. k \in 1..Len(s) /\ k <= n
    BY <1>1, <1>9
  <2>2. Len(g[k - 1]) \in Nat /\ Len(s[k]) \in Nat
    BY <1>9, <1>12, <1>13, <2>1, PrefixAt
  <2>3. Len(g[k - 1]) + Len(s[k]) <= Len(g[n])
    BY <1>9, <1>12, <1>13, <2>1, PrefixAt
  <2>4. StandsAt(g[n], Len(g[k - 1]), s[k])
    BY <1>9, <1>12, <1>13, <2>1, PrefixAt
  <2> QED
    BY <1>14, <2>2, <2>3, <2>4
<1>18. ASSUME NEW x \in 1..L
       PROVE  \E k \in 1..n : \E j \in 1..Len(s[k]) : x = start(k) + j /\ order[x] = s[k][j]
  <2>1. x \in 1..Len(g[n])
    BY <1>14
  <2>2. PICK k \in 1..n : WithinPart(x, Len(g[k - 1]), s[k])
    BY <1>9, <1>12, <1>13, <2>1, PrefixWhere
  <2>3. PICK j \in 1..Len(s[k]) : x = Len(g[k - 1]) + j
    BY <2>2 DEF WithinPart
  <2>4. order[start(k) + j] = s[k][j]
    BY <1>17 DEF StandsAt
  <2> QED
    BY <2>3, <2>4
<1> HIDE DEF L, start
<1>19. ASSUME NEW k \in 1..n, NEW j \in 1..Len(s[k])
       PROVE  s[k][j] \in 0..N - 1 /\ StreetCell(points[s[k][j] + 1].pos) = a[k]
  <2>1. a[k] \in D /\ s[k] = map[a[k]]
    BY <1>7, <1>11
  <2>2. s[k][j] \in IdsIn(points, a[k])
    BY <1>6, <2>1
  <2> QED
    BY <2>2 DEF IdsIn, N
<1>20. \A x \in 1..L : order[x] \in 0..N - 1
  BY <1>18, <1>19
<1>21. ASSUME NEW x \in 1..L, NEW y \in 1..L, order[x] = order[y] PROVE x = y
  <2>1. PICK k \in 1..n : \E j \in 1..Len(s[k]) : x = start(k) + j /\ order[x] = s[k][j]
    BY <1>18
  <2>2. PICK j \in 1..Len(s[k]) : x = start(k) + j /\ order[x] = s[k][j]
    BY <2>1
  <2>3. PICK k2 \in 1..n : \E j2 \in 1..Len(s[k2]) : y = start(k2) + j2 /\ order[y] = s[k2][j2]
    BY <1>18
  <2>4. PICK j2 \in 1..Len(s[k2]) : y = start(k2) + j2 /\ order[y] = s[k2][j2]
    BY <2>3
  <2>5. s[k][j] = s[k2][j2]
    BY <1>21, <2>2, <2>4
  <2>6. a[k] = a[k2]
    BY <1>19, <2>5
  <2>7. k = k2
    BY <1>8, <2>6
  <2>8. a[k] \in D /\ s[k] = map[a[k]]
    BY <1>7, <1>11
  <2>9. j = j2
    BY <1>6, <2>5, <2>7, <2>8
  <2> QED
    BY <2>2, <2>4, <2>7, <2>9
<1>22. ASSUME NEW v \in 0..N - 1 PROVE \E x \in 1..L : order[x] = v
  <2> DEFINE c == StreetCell(points[v + 1].pos)
  <2>1. c \in D /\ v \in IdsIn(points, c)
    BY <1>5 DEF IdsIn, N
  <2>2. PICK k \in 1..n : a[k] = c
    BY <1>3, <2>1
  <2>3. s[k] = map[c]
    BY <1>11, <2>2
  <2>4. PICK j \in 1..Len(s[k]) : s[k][j] = v
    BY <1>6, <2>1, <2>3
  <2>5. /\ start(k) \in Nat /\ Len(s[k]) \in Nat /\ start(k) + Len(s[k]) <= L
        /\ order[start(k) + j] = s[k][j]
    BY <1>17 DEF StandsAt
  <2>6. PICK x : x = start(k) + j
    OBVIOUS
  <2>7. x \in 1..L
    BY <1>16, <2>5, <2>6
  <2> QED
    BY <2>4, <2>5, <2>6, <2>7
<1>23. L = N
  <2>1. order = [i \in 1..L |-> order[i]]
    BY <1>15 DEF L
  <2>2. order \in [1..L -> 0..N - 1]
    BY <1>20, <2>1
  <2>3. order \in Injection(1..L, 0..N - 1)
    BY <1>21, <2>2 DEF Injection, IsInjective
  <2>4. order \in Surjection(1..L, 0..N - 1)
    BY <1>22, <2>2 DEF Surjection
  <2>5. ExistsBijection(1..L, 0..N - 1)
    BY <2>3, <2>4 DEF ExistsBijection, Bijection
  <2>6. IsFiniteSet(1..L) /\ Cardinality(1..L) = L
    <3>1. 1 \in Int /\ L \in Int /\ L \in Nat
      BY <1>16
    <3>2. IsFiniteSet(1..L) /\ Cardinality(1..L) = IF 1 > L THEN 0 ELSE L - 1 + 1
      BY <3>1, FS_Interval
    <3> QED
      BY <3>1, <3>2
  <2>7. Cardinality(0..N - 1) = N
    <3>1. 0 \in Int /\ N - 1 \in Int /\ N \in Nat
      BY <1>2
    <3>2. Cardinality(0..N - 1) = IF 0 > N - 1 THEN 0 ELSE (N - 1) - 0 + 1
      BY <3>1, FS_Interval
    <3> QED
      BY <3>1, <3>2
  <2> QED
    BY <2>5, <2>6, <2>7, FS_Bijection
<1>24. /\ N \in Nat /\ Len(order) = N /\ DOMAIN order = 1..N
       /\ \A x \in 1..N : order[x] \in 0..N - 1
       /\ \A x, y \in 1..N : order[x] = order[y] => x = y
       /\ \A v \in 0..N - 1 : \E x \in 1..N : order[x] = v
  BY <1>2, <1>16, <1>20, <1>21, <1>22, <1>23 DEF L
<1> QED
  BY <1>24 DEF N, order

\* The parts of sort_addr_points_by_cell.
NewIds(map) ==
    [old \in ToSet(AddrOrder(map)) |->
        CHOOSE new \in 0..Len(AddrOrder(map)) - 1 : AddrOrder(map)[new + 1] = old]

PointsByCell(points, map) ==
    [i \in DOMAIN points |->
        points[1 + CHOOSE old \in DOMAIN NewIds(map) : NewIds(map)[old] = i - 1]]

CellsByNewId(map) ==
    [c \in DOMAIN map |-> Ascending({NewIds(map)[id] : id \in ToSet(map[c])})]

\* The renumbering moves no point to another cell and loses none.
LEMMA SortKeepsIndex ==
    ASSUME NEW points, IsSeq(points), NEW map, IsCellMap(map), AddrsIndexed(points, map),
           \A c \in DOMAIN map : map[c] = Ascending(ToSet(map[c]))
    PROVE  /\ IsSeq(PointsByCell(points, map)) /\ ToSet(PointsByCell(points, map)) = ToSet(points)
           /\ IsCellMap(CellsByNewId(map))
           /\ AddrsIndexed(PointsByCell(points, map), CellsByNewId(map))
<1> DEFINE N == Len(points)
           order == AddrOrder(map)
           remap == NewIds(map)
           p2 == PointsByCell(points, map)
           m2 == CellsByNewId(map)
           D == DOMAIN map
<1>1. /\ N \in Nat /\ Len(order) = N /\ DOMAIN order = 1..N
      /\ \A x \in 1..N : order[x] \in 0..N - 1
      /\ \A x, y \in 1..N : order[x] = order[y] => x = y
      /\ \A v \in 0..N - 1 : \E x \in 1..N : order[x] = v
  BY OrderIsPermutation
<1>2. ToSet(order) = 0..N - 1
  <2> HIDE DEF order, N
  <2>1. \A v : v \in ToSet(order) <=> \E x \in 1..N : v = order[x]
    BY <1>1 DEF ToSet
  <2>2. \A v \in ToSet(order) : v \in 0..N - 1
    BY <1>1, <2>1
  <2>3. \A v \in 0..N - 1 : v \in ToSet(order)
    BY <1>1, <2>1
  <2> QED
    BY <2>2, <2>3
<1>3. remap = [old \in 0..N - 1 |-> CHOOSE new \in 0..N - 1 : order[new + 1] = old]
  <2> HIDE DEF order, N
  <2>1. remap = [old \in ToSet(order) |-> CHOOSE new \in 0..Len(order) - 1 : order[new + 1] = old]
    BY Zenon DEF NewIds, order
  <2> QED
    BY <1>1, <1>2, <2>1
<1> HIDE DEF order, N, remap
<1>4. ASSUME NEW v \in 0..N - 1 PROVE remap[v] \in 0..N - 1 /\ order[remap[v] + 1] = v
  <2>1. PICK x \in 1..N : order[x] = v
    BY <1>1
  <2>2. x - 1 \in 0..N - 1 /\ (x - 1) + 1 = x
    BY <1>1
  <2>3. \E new \in 0..N - 1 : order[new + 1] = v
    BY <2>1, <2>2
  <2>4. remap[v] = CHOOSE new \in 0..N - 1 : order[new + 1] = v
    BY <1>3
  <2> QED
    BY <2>3, <2>4
<1>5. ASSUME NEW x \in 1..N PROVE remap[order[x]] = x - 1
  <2>1. PICK v \in 0..N - 1 : v = order[x]
    BY <1>1
  <2>2. remap[v] \in 0..N - 1 /\ order[remap[v] + 1] = order[x]
    BY <1>4, <2>1
  <2>3. remap[v] + 1 \in 1..N
    BY <1>1, <2>2, SMTT(30)
  <2>4. remap[v] + 1 = x
    BY <1>1, <2>2, <2>3
  <2> QED
    BY <2>1, <2>2, <2>4
<1>6. ASSUME NEW x \in 1..N
      PROVE  (CHOOSE old \in DOMAIN remap : remap[old] = x - 1) = order[x]
  <2> DEFINE o == CHOOSE old \in DOMAIN remap : remap[old] = x - 1
  <2>1. DOMAIN remap = 0..N - 1 /\ order[x] \in 0..N - 1
    BY <1>1, <1>3
  <2>2. \E old \in DOMAIN remap : remap[old] = x - 1
    BY <1>5, <2>1
  <2>3. o \in DOMAIN remap /\ remap[o] = x - 1
    BY <2>2
  <2> HIDE DEF o
  <2>4. order[remap[o] + 1] = o
    BY <1>4, <2>1, <2>3
  <2>5. (x - 1) + 1 = x
    OBVIOUS
  <2>6. order[x] = o
    BY <2>3, <2>4, <2>5
  <2> QED
    BY <2>6 DEF o
<1>7. DOMAIN points = 1..N
  BY DEF IsSeq, N
<1>8. p2 = [x \in 1..N |-> points[1 + order[x]]]
  <2>1. p2 = [x \in 1..N |-> points[1 + CHOOSE old \in DOMAIN remap : remap[old] = x - 1]]
    BY <1>7, Zenon DEF PointsByCell, remap
  <2> QED
    BY <1>6, <2>1
<1>9. \A x \in 1..N : 1 + order[x] \in 1..N
  BY <1>1
<1> HIDE DEF p2, m2
<1>10. IsSeq(p2) /\ Len(p2) = N /\ DOMAIN p2 = 1..N
  <2>1. p2 = [x \in 1..N |-> p2[x]]
    BY <1>8
  <2>2. IsSeq(p2) /\ Len(p2) = N
    BY <1>1, <2>1, FunIsSeq
  <2> QED
    BY <1>8, <2>2
<1>11. ToSet(p2) = ToSet(points)
  <2>1. \A e : e \in ToSet(p2) <=> \E x \in 1..N : e = points[1 + order[x]]
    BY <1>8, <1>10 DEF ToSet
  <2>2. \A e : e \in ToSet(points) <=> \E x \in 1..N : e = points[x]
    BY <1>7 DEF ToSet
  <2>3. \A x \in 1..N : \E y \in 1..N : 1 + order[y] = x
    <3> TAKE x \in 1..N
    <3>1. x - 1 \in 0..N - 1
      BY <1>1
    <3>2. PICK y \in 1..N : order[y] = x - 1
      BY <1>1, <3>1
    <3> QED
      BY <3>2
  <2> QED
    BY <1>9, <2>1, <2>2, <2>3
<1> DEFINE New(c) == {remap[id] : id \in ToSet(map[c])}
<1>12. m2 = [c \in D |-> Ascending(New(c))]
  BY Zenon DEF m2, CellsByNewId, remap
<1>13. \A c \in D : ToSet(map[c]) = IdsIn(points, c)
  BY DEF AddrsIndexed
<1>14. ASSUME NEW c \in D PROVE New(c) = IdsIn(p2, c)
  <2>1. \A id : id \in ToSet(map[c]) <=> id \in 0..N - 1 /\ StreetCell(points[id + 1].pos) = c
    BY <1>13 DEF IdsIn, N
  <2>2. ASSUME NEW j \in IdsIn(p2, c) PROVE j \in New(c)
    <3>1. j \in 0..N - 1 /\ StreetCell(p2[j + 1].pos) = c
      BY <1>10 DEF IdsIn
    <3>2. PICK x \in 1..N : x = j + 1
      BY <1>1, <3>1
    <3>3. p2[x] = points[1 + order[x]] /\ order[x] \in 0..N - 1 /\ remap[order[x]] = x - 1
      BY <1>1, <1>5, <1>8
    <3>4. 1 + order[x] = order[x] + 1 /\ x - 1 = j
      BY <3>1, <3>2, <3>3
    <3>5. order[x] \in ToSet(map[c])
      BY <2>1, <3>1, <3>2, <3>3, <3>4
    <3> QED
      BY <3>3, <3>4, <3>5
  <2>3. ASSUME NEW id \in ToSet(map[c]) PROVE remap[id] \in IdsIn(p2, c)
    <3>1. id \in 0..N - 1 /\ StreetCell(points[id + 1].pos) = c
      BY <2>1
    <3>2. remap[id] \in 0..N - 1 /\ order[remap[id] + 1] = id
      BY <1>4, <3>1
    <3>3. PICK x \in 1..N : x = remap[id] + 1
      BY <1>1, <3>2
    <3>4. p2[x] = points[1 + id]
      BY <1>8, <3>2, <3>3
    <3>5. 1 + id = id + 1
      BY <3>1
    <3> QED
      BY <1>10, <3>1, <3>2, <3>3, <3>4, <3>5 DEF IdsIn
  <2> QED
    BY <2>2, <2>3
<1>15. ASSUME NEW c \in D
       PROVE  m2[c] \in Seq(Nat) /\ ToSet(m2[c]) = IdsIn(p2, c)
  <2> DEFINE S == IdsIn(p2, c)
  <2>1. S \subseteq 0..N - 1
    BY <1>10 DEF IdsIn
  <2>2. IsFiniteSet(0..N - 1)
    <3>1. 0 \in Int /\ N - 1 \in Int
      BY <1>1
    <3> QED
      BY <3>1, FS_Interval
  <2> HIDE DEF S
  <2>3. IsFiniteSet(S)
    BY <2>1, <2>2, FS_Subset
  <2>4. S \subseteq Int /\ S \subseteq Nat
    BY <1>1, <2>1
  <2>5. IsFiniteSet(S) /\ S \subseteq Int /\ S \subseteq Nat
    BY <2>3, <2>4
  <2>6. Ascending(S) \in Seq(S) /\ ToSet(Ascending(S)) = S
    BY <2>5, AscendingSorted
  <2>7. Ascending(S) \in Seq(Nat)
    BY <2>5, <2>6, SeqMono
  <2>8. m2[c] = Ascending(S)
    BY <1>12, <1>14 DEF S
  <2> QED
    BY <2>6, <2>7, <2>8 DEF S
<1>16. DOMAIN m2 = D /\ m2 = [c \in D |-> m2[c]]
  BY <1>12
<1>17. IsCellMap(m2)
  <2>1. D \subseteq Int /\ IsFiniteSet(D)
    BY DEF IsCellMap
  <2>2. m2 \in [D -> Seq(Nat)]
    BY <1>15, <1>16
  <2> QED
    BY <1>16, <2>1, <2>2 DEF IsCellMap
<1>18. \A i \in 0..Len(p2) - 1 : StreetCell(p2[i + 1].pos) \in DOMAIN m2
  <2> TAKE i \in 0..Len(p2) - 1
  <2>1. PICK x \in 1..N : x = i + 1
    BY <1>1, <1>10
  <2>2. PICK v \in 0..N - 1 : v = order[x]
    BY <1>1
  <2>3. p2[x] = points[v + 1]
    <3>1. 1 + v = v + 1
      BY <2>2
    <3> QED
      BY <1>8, <2>2, <3>1
  <2>4. StreetCell(points[v + 1].pos) \in D
    BY DEF AddrsIndexed, N
  <2> QED
    BY <1>16, <2>1, <2>3, <2>4
<1>19. AddrsIndexed(p2, m2)
  BY <1>15, <1>16, <1>18 DEF AddrsIndexed
<1> QED
  BY <1>10, <1>11, <1>17, <1>19 DEF p2, m2

-----------------------------------------------------------------------------
(* The builder's memory. *)

\* The arrays and maps of a build.
MemFields ==
    {"addr_points", "cell_to_addrs", "ways", "cell_to_ways", "interp_ways", "cell_to_interps",
     "place_points", "cell_to_places", "poi_points", "cell_to_pois",
     "admin_polygons", "cell_to_admin", "i18n_names", "pending_admin_holes",
     "indexed_outer_ring_keys", "boundary_member_ways"}

\* The parts that the steps of a build leave alone.
AddrsKept(m, n) == n.addr_points = m.addr_points /\ n.cell_to_addrs = m.cell_to_addrs

LinesKept(m, n) ==
    /\ n.ways = m.ways /\ n.cell_to_ways = m.cell_to_ways
    /\ n.interp_ways = m.interp_ways /\ n.cell_to_interps = m.cell_to_interps

AdminKept(m, n) ==
    /\ n.admin_polygons = m.admin_polygons /\ n.cell_to_admin = m.cell_to_admin
    /\ n.pending_admin_holes = m.pending_admin_holes

AllKept(m, n) == DOMAIN n = MemFields /\ AddrsKept(m, n) /\ LinesKept(m, n) /\ AdminKept(m, n)

\* Places and POIs have arrays of their own.
LEMMA PlaceAndPoiKeep ==
    ASSUME NEW m, DOMAIN m = MemFields, NEW pos, NEW rank, NEW name
    PROVE  AllKept(m, AddPlace(m, pos, rank, name)) /\ AllKept(m, AddPoi(m, pos, rank, name))
<1>1. AllKept(m, m)
  BY DEF AllKept, AddrsKept, LinesKept, AdminKept
<1>2. ASSUME NEW x, NEW y PROVE AllKept(m, [m EXCEPT !.place_points = x, !.cell_to_places = y])
  BY DEF AllKept, AddrsKept, LinesKept, AdminKept, MemFields
<1>3. ASSUME NEW x, NEW y PROVE AllKept(m, [m EXCEPT !.poi_points = x, !.cell_to_pois = y])
  BY DEF AllKept, AddrsKept, LinesKept, AdminKept, MemFields
<1>4. AllKept(m, AddPlace(m, pos, rank, name))
  BY <1>1, <1>2 DEF AddPlace
<1>5. AllKept(m, AddPoi(m, pos, rank, name))
  BY <1>1, <1>3 DEF AddPoi
<1> QED
  BY <1>4, <1>5

\* Each layer: lists of ids of its own array; addresses in their own cell only.
AddrOK(m) ==
    /\ IsSeq(m.addr_points) /\ IsCellMap(m.cell_to_addrs)
    /\ AddrsIndexed(m.addr_points, m.cell_to_addrs)

\* An interpolation way as a reader sees it: at least one segment, and numbers.
IsInterp(w) ==
    /\ w.nodes \in Seq(Int) /\ Len(w.nodes) >= 2
    /\ w.start_number \in Nat /\ w.end_number \in Nat
    /\ DOMAIN w = {"nodes", "street", "start_number", "end_number", "interpolation"}

\* Every id of a map is that of one of n elements.
IdsBelow(n, map) == \A c \in DOMAIN map : \A id \in ToSet(map[c]) : id \in 0..n - 1

LinesOK(m) ==
    /\ IsSeq(m.ways) /\ IsCellMap(m.cell_to_ways)
    /\ IsSeq(m.interp_ways) /\ IsCellMap(m.cell_to_interps)
    /\ \A i \in 1..Len(m.interp_ways) : IsInterp(m.interp_ways[i])
    /\ IdsBelow(Len(m.interp_ways), m.cell_to_interps)

\* A pushed id is that of the element that is appended.
LEMMA IdsPushed ==
    ASSUME NEW n \in Nat, NEW map, IsCellMap(map), IdsBelow(n, map), NEW C
    PROVE  IdsBelow(n + 1, PushAll(map, C, n))
<1> DEFINE q == PushAll(map, C, n)
<1>1. /\ DOMAIN q = DOMAIN map \cup C
      /\ \A c \in DOMAIN map \cup C : ToSet(q[c]) = Pushed(map, C, n, c)
  BY PushIds DEF IsCellMap
<1> HIDE DEF q
<1>2. ASSUME NEW c \in DOMAIN q, NEW x \in ToSet(q[c]) PROVE x \in 0..(n + 1) - 1
  <2>1. x = n \/ (c \in DOMAIN map /\ x \in ToSet(map[c]))
    BY <1>1, <1>2 DEF Pushed
  <2>2. c \in DOMAIN map /\ x \in ToSet(map[c]) => x \in 0..n - 1
    BY DEF IdsBelow
  <2> QED
    BY <2>1, <2>2
<1> QED
  BY <1>2 DEF IdsBelow, q

\* What a reader sees of a way keeps its first segment.
LEMMA StoredNodes ==
    ASSUME NEW nodes \in Seq(Int), Len(nodes) >= 2
    PROVE  Stored(nodes) \in Seq(Int) /\ Len(Stored(nodes)) >= 2
<1>1. NodeCap \in Nat /\ NodeCap >= 2 /\ Len(nodes) \in Nat
  BY BuildCapsAssumption
<1>2. PICK k \in Nat : k = Min({Len(nodes), NodeCap})
  BY <1>1, MinOfTwo
<1>3. k >= 2 /\ k <= Len(nodes)
  BY <1>1, <1>2, MinOfTwo
<1>4. SubSeq(nodes, 1, k) \in Seq(Int) /\ Len(SubSeq(nodes, 1, k)) = k
  BY <1>1, <1>3
<1> QED
  BY <1>2, <1>3, <1>4 DEF Stored

\* add_addr_point_full adds the address of the object when it has one, and
\* keeps the index.
LEMMA AddAddressOK ==
    ASSUME NEW m, DOMAIN m = MemFields, AddrOK(m), NEW pos \in Int, NEW tags
    PROVE  LET n == AddAddress(m, pos, tags)
           IN  /\ DOMAIN n = MemFields /\ LinesKept(m, n) /\ AdminKept(m, n) /\ AddrOK(n)
               /\ ToSet(n.addr_points) = ToSet(m.addr_points)
                      \cup (IF HasAddress(tags) THEN {AddressOf(pos, tags)} ELSE {})
<1> DEFINE n == AddAddress(m, pos, tags)
           a == AddressOf(pos, tags)
           p2 == Append(m.addr_points, a)
           m2 == PushAll(m.cell_to_addrs, {StreetCell(pos)}, Len(m.addr_points))
<1>1. CASE ~HasAddress(tags)
  <2>1. n = m
    BY <1>1 DEF AddAddress
  <2> HIDE DEF n
  <2>2. /\ DOMAIN n = MemFields /\ LinesKept(m, n) /\ AdminKept(m, n) /\ AddrOK(n)
        /\ ToSet(n.addr_points) = ToSet(m.addr_points)
               \cup (IF HasAddress(tags) THEN {AddressOf(pos, tags)} ELSE {})
    BY <1>1, <2>1 DEF LinesKept, AdminKept
  <2> QED
    BY <2>2, Zenon DEF n
<1>2. CASE HasAddress(tags)
  <2>1. n = [m EXCEPT !.addr_points = p2, !.cell_to_addrs = m2]
    BY <1>2 DEF AddAddress, NextId
  <2>2. a.pos = pos
    BY DEF AddressOf
  <2>3. IsSeq(m.addr_points) /\ IsCellMap(m.cell_to_addrs)
        /\ AddrsIndexed(m.addr_points, m.cell_to_addrs)
    BY DEF AddrOK
  <2> HIDE DEF a, n
  <2>4. IsCellMap(m2) /\ AddrsIndexed(p2, m2)
    BY <2>2, <2>3, AddrPushed
  <2>5. IsSeq(p2) /\ ToSet(p2) = ToSet(m.addr_points) \cup {a}
    BY <2>3, AppendIsSeq
  <2> HIDE DEF p2, m2
  <2>6. DOMAIN n = MemFields /\ LinesKept(m, n) /\ AdminKept(m, n)
        /\ n.addr_points = p2 /\ n.cell_to_addrs = m2
    BY <2>1 DEF LinesKept, AdminKept, MemFields
  <2>7. /\ DOMAIN n = MemFields /\ LinesKept(m, n) /\ AdminKept(m, n) /\ AddrOK(n)
        /\ ToSet(n.addr_points) = ToSet(m.addr_points)
               \cup (IF HasAddress(tags) THEN {AddressOf(pos, tags)} ELSE {})
    BY <1>2, <2>4, <2>5, <2>6 DEF AddrOK, a
  <2> QED
    BY <2>7, Zenon DEF n
<1> QED
  BY <1>1, <1>2

\* Streets and interpolation ways touch their own layers only.
LEMMA AddLinesOK ==
    ASSUME NEW m, DOMAIN m = MemFields, LinesOK(m), NEW way, way.nodes \in Seq(Int)
    PROVE  LET s == AddStreet(m, way)
               i == AddInterpolation(m, way)
           IN  /\ DOMAIN s = MemFields /\ AddrsKept(m, s) /\ AdminKept(m, s) /\ LinesOK(s)
               /\ DOMAIN i = MemFields /\ AddrsKept(m, i) /\ AdminKept(m, i) /\ LinesOK(i)
<1> DEFINE Ok(n) == /\ DOMAIN n = MemFields /\ AddrsKept(m, n) /\ AdminKept(m, n) /\ LinesOK(n)
           C == EdgeCells(way.nodes)
<1>1. Ok(m)
  BY DEF AddrsKept, AdminKept
<1>2. C \subseteq Int /\ IsFiniteSet(C)
  BY EdgeCellsFinite
<1>3. /\ IsCellMap(m.cell_to_ways) /\ IsCellMap(m.cell_to_interps)
      /\ IsSeq(m.ways) /\ IsSeq(m.interp_ways)
      /\ \A i \in 1..Len(m.interp_ways) : IsInterp(m.interp_ways[i])
      /\ IdsBelow(Len(m.interp_ways), m.cell_to_interps)
  BY DEF LinesOK
<1> HIDE DEF C
<1>4. Ok(AddStreet(m, way))
  <2>1. CASE ~way.highway \/ way.name = "" \/ Len(way.nodes) < 2
    BY <1>1, <2>1 DEF AddStreet
  <2>2. CASE ~(~way.highway \/ way.name = "" \/ Len(way.nodes) < 2)
    <3> DEFINE e == [nodes |-> Stored(way.nodes), name |-> way.name]
               w == Append(m.ways, e)
               q == PushAll(m.cell_to_ways, C, Len(m.ways))
    <3>1. AddStreet(m, way) = [m EXCEPT !.ways = w, !.cell_to_ways = q]
      BY <2>2 DEF AddStreet, NextId, C
    <3> HIDE DEF e
    <3>2. Len(m.ways) \in Nat /\ IsSeq(w)
      BY <1>3, AppendIsSeq
    <3>3. IsCellMap(q)
      BY <1>2, <1>3, <3>2, PushCellMap
    <3> HIDE DEF w, q
    <3>4. Ok([m EXCEPT !.ways = w, !.cell_to_ways = q])
      BY <1>3, <3>2, <3>3 DEF LinesOK, AddrsKept, AdminKept, MemFields
    <3> QED
      BY <3>1, <3>4
  <2> QED
    BY <2>1, <2>2
<1>5. Ok(AddInterpolation(m, way))
  <2> DEFINE P == \/ Len(way.nodes) < 2
                  \/ way.addr.street = ""
                  \/ way.interpolation \notin DOMAIN InterpolationTypes
  <2>1. CASE P
    BY <1>1, <2>1 DEF AddInterpolation
  <2>2. CASE ~P
    <3> DEFINE e == [nodes |-> Stored(way.nodes), street |-> way.addr.street,
                     start_number |-> 0, end_number |-> 0,
                     interpolation |-> InterpolationTypes[way.interpolation]]
               w == Append(m.interp_ways, e)
               q == PushAll(m.cell_to_interps, C, Len(m.interp_ways))
    <3>1. AddInterpolation(m, way) = [m EXCEPT !.interp_ways = w, !.cell_to_interps = q]
      BY <2>2 DEF AddInterpolation, NextId, C
    <3>2. IsInterp(e)
      <4>1. ~(Len(way.nodes) < 2)
        BY <2>2, Zenon
      <4>2. Len(way.nodes) \in Nat /\ Len(way.nodes) >= 2
        BY <4>1
      <4>3. Stored(way.nodes) \in Seq(Int) /\ Len(Stored(way.nodes)) >= 2
        BY <4>2, StoredNodes
      <4> QED
        BY <4>3 DEF IsInterp
    <3> HIDE DEF e
    <3> DEFINE n == Len(m.interp_ways)
    <3>3. /\ n \in Nat /\ IsSeq(w) /\ Len(w) = n + 1 /\ w[n + 1] = e
          /\ \A i \in 1..n : w[i] = m.interp_ways[i]
      BY <1>3, AppendIsSeq
    <3>4. IsCellMap(q) /\ IdsBelow(n + 1, q)
      BY <1>2, <1>3, <3>3, PushCellMap, IdsPushed
    <3> HIDE DEF w, q
    <3>5. \A i \in 1..Len(w) : IsInterp(w[i])
      <4> SUFFICES ASSUME NEW i \in 1..Len(w) PROVE IsInterp(w[i])
        OBVIOUS
      <4>1. i \in 1..n \/ i = n + 1
        BY <3>3
      <4> QED
        BY <1>3, <3>2, <3>3, <4>1
    <3> DEFINE r == [m EXCEPT !.interp_ways = w, !.cell_to_interps = q]
    <3>6. /\ DOMAIN r = MemFields /\ AddrsKept(m, r) /\ AdminKept(m, r)
          /\ r.ways = m.ways /\ r.cell_to_ways = m.cell_to_ways
          /\ r.interp_ways = w /\ r.cell_to_interps = q
      BY DEF AddrsKept, AdminKept, MemFields
    <3> HIDE DEF r
    <3>7. LinesOK(r)
      BY <1>3, <3>3, <3>4, <3>5, <3>6 DEF LinesOK
    <3> QED
      BY <3>1, <3>6, <3>7 DEF r
  <2> QED
    BY <2>1, <2>2
<1> QED
  BY <1>4, <1>5, Zenon

-----------------------------------------------------------------------------
(* Admin polygons. *)

\* Every id of a cell is that of a polygon, with or without the flag.
AdminsIndexed(n, map) ==
    /\ map \in [DOMAIN map -> Seq(Nat)]
    /\ \A c \in DOMAIN map : \A id \in ToSet(map[c]) : id % INTERIOR_FLAG \in 0..n - 1

\* Every polygon that was put off exists.
PendingExist(n, pending) ==
    /\ IsSeq(pending)
    /\ \A i \in 1..Len(pending) : pending[i].poly_id \in 0..n - 1

AdminOK(m) ==
    /\ IsSeq(m.admin_polygons)
    /\ AdminsIndexed(Len(m.admin_polygons), m.cell_to_admin)
    /\ PendingExist(Len(m.admin_polygons), m.pending_admin_holes)

\* The interior flag does not change the polygon an id names.
LEMMA FlaggedId ==
    ASSUME NEW id \in Nat, NEW n \in Nat, id < n
    PROVE  /\ id % INTERIOR_FLAG \in 0..n - 1 /\ id + INTERIOR_FLAG \in Nat
           /\ (id + INTERIOR_FLAG) % INTERIOR_FLAG \in 0..n - 1
<1>1. id % 1073741824 \in 0..id
  OBVIOUS
<1>2. (id + 1073741824) % 1073741824 = id % 1073741824
  OBVIOUS
<1> QED
  BY <1>1, <1>2 DEF INTERIOR_FLAG

\* A pushed id, flagged or not, names a polygon that is there.
LEMMA AdminsPushed ==
    ASSUME NEW n \in Nat, NEW map, AdminsIndexed(n, map), NEW C, NEW id \in Nat,
           id % INTERIOR_FLAG \in 0..n - 1
    PROVE  AdminsIndexed(n, PushAll(map, C, id))
<1> DEFINE q == PushAll(map, C, id)
<1>1. map \in [DOMAIN map -> Seq(Nat)]
  BY DEF AdminsIndexed
<1>2. /\ DOMAIN q = DOMAIN map \cup C
      /\ q \in [DOMAIN map \cup C -> Seq(Nat)]
      /\ \A c \in DOMAIN map \cup C : ToSet(q[c]) = Pushed(map, C, id, c)
  BY <1>1, PushIds
<1> HIDE DEF q
<1>3. ASSUME NEW c \in DOMAIN q, NEW x \in ToSet(q[c]) PROVE x % INTERIOR_FLAG \in 0..n - 1
  <2>1. x \in Pushed(map, C, id, c)
    BY <1>2
  <2>2. x = id \/ (c \in DOMAIN map /\ x \in ToSet(map[c]))
    BY <2>1 DEF Pushed
  <2>3. CASE x = id
    BY <2>3
  <2>4. CASE c \in DOMAIN map /\ x \in ToSet(map[c])
    BY <2>4 DEF AdminsIndexed
  <2> QED
    BY <2>2, <2>3, <2>4
<1>4. AdminsIndexed(n, q)
  BY <1>2, <1>3 DEF AdminsIndexed
<1> QED
  BY <1>4 DEF q

\* What add_admin_polygon and finalize_admin_holes do to the cells.
LEMMA AddAdminCellsOK ==
    ASSUME NEW m, DOMAIN m = MemFields, NEW id \in Nat, NEW n \in Nat, id < n,
           AdminsIndexed(n, m.cell_to_admin), NEW ring, NEW shape
    PROVE  LET r == AddAdminCells(m, id, ring, shape)
           IN  /\ DOMAIN r = MemFields /\ AddrsKept(m, r) /\ LinesKept(m, r)
               /\ r.admin_polygons = m.admin_polygons
               /\ r.pending_admin_holes = m.pending_admin_holes
               /\ AdminsIndexed(n, r.cell_to_admin)
<1> DEFINE cover   == CoverPolygon(ring, shape)
           inside  == {c.cell : c \in {x \in cover : x.interior}}
           outside == {c.cell : c \in cover} \ inside
           one == PushAll(m.cell_to_admin, outside, id)
           two == PushAll(one, inside, id + INTERIOR_FLAG)
           r == AddAdminCells(m, id, ring, shape)
<1>1. r = [m EXCEPT !.cell_to_admin = two]
  BY Zenon DEF AddAdminCells
<1>2. /\ id % INTERIOR_FLAG \in 0..n - 1 /\ id + INTERIOR_FLAG \in Nat
      /\ (id + INTERIOR_FLAG) % INTERIOR_FLAG \in 0..n - 1
  BY FlaggedId
<1> HIDE DEF inside, outside, r
<1>3. AdminsIndexed(n, one)
  BY <1>2, AdminsPushed
<1> HIDE DEF one
<1>4. AdminsIndexed(n, two)
  BY <1>2, <1>3, AdminsPushed
<1> HIDE DEF two
<1>5. /\ DOMAIN r = MemFields /\ AddrsKept(m, r) /\ LinesKept(m, r)
      /\ r.admin_polygons = m.admin_polygons
      /\ r.pending_admin_holes = m.pending_admin_holes
      /\ AdminsIndexed(n, r.cell_to_admin)
  BY <1>1, <1>4 DEF AddrsKept, LinesKept, MemFields
<1> QED
  BY <1>5, Zenon DEF r

\* A step that changes nothing but the admin layers, and leaves those whole.
AdminStep(m, r) ==
    /\ DOMAIN r = MemFields /\ AddrsKept(m, r) /\ LinesKept(m, r)
    /\ AdminOK(r)

\* Changing nothing is such a step.
LEMMA AdminStepSelf ==
    ASSUME NEW m, DOMAIN m = MemFields, AdminOK(m)
    PROVE  AdminStep(m, m)
BY DEF AdminStep, AddrsKept, LinesKept

\* Two such steps are one.
LEMMA AdminStepTrans ==
    ASSUME NEW m, NEW r, NEW t, AdminStep(m, r), AdminStep(r, t)
    PROVE  AdminStep(m, t)
BY DEF AdminStep, AddrsKept, LinesKept

\* An admin polygon touches the admin layer only and pushes ids of polygons
\* that are there.
LEMMA AddAdminPolygonOK ==
    ASSUME NEW m, DOMAIN m = MemFields, AdminOK(m), NEW area, NEW ring
    PROVE  AdminStep(m, AddAdminPolygon(m, area, ring))
<1> DEFINE id    == Len(m.admin_polygons)
           holes == {h \in ring.holes : h.size >= MinHole}
           poly  == [level |-> area.level, name |-> area.name, cc |-> area.cc,
                     area |-> Cardinality(ring.outer),
                     shape |-> IF holes = {} THEN ring.outer ELSE {}]
           polys == Append(m.admin_polygons, poly)
           keys  == m.indexed_outer_ring_keys \cup {<<area.level, ring.key>>}
           names == IF area.local = "" THEN m.i18n_names ELSE m.i18n_names \cup {<<id, area.local>>}
           added == [m EXCEPT !.admin_polygons = polys, !.indexed_outer_ring_keys = keys,
                              !.i18n_names = names]
           wait  == Append(added.pending_admin_holes, [poly_id |-> id, ring |-> ring, holes |-> holes])
           r     == AddAdminPolygon(m, area, ring)
<1>1. r = CASE ring.outer = {} -> m
            [] ring.outer # {} /\ holes = {} -> AddAdminCells(added, id, ring, ring.outer)
            [] OTHER -> [added EXCEPT !.pending_admin_holes = wait]
  BY Zenon DEF AddAdminPolygon, NextId
<1>2. r = IF ring.outer = {} THEN m
          ELSE IF holes = {} THEN AddAdminCells(added, id, ring, ring.outer)
          ELSE [added EXCEPT !.pending_admin_holes = wait]
  <2> DEFINE x == AddAdminCells(added, id, ring, ring.outer)
             y == [added EXCEPT !.pending_admin_holes = wait]
  <2> HIDE DEF x, y, holes, r
  <2> QED
    BY <1>1
<1>3. IsSeq(m.admin_polygons) /\ AdminsIndexed(id, m.cell_to_admin)
      /\ PendingExist(id, m.pending_admin_holes)
  BY DEF AdminOK
<1> HIDE DEF poly
<1>4. id \in Nat /\ IsSeq(polys) /\ Len(polys) = id + 1
  BY <1>3, AppendIsSeq
<1> HIDE DEF id, polys, keys, names, holes, r
<1>5. id + 1 \in Nat /\ \A k \in 0..id - 1 : k \in 0..(id + 1) - 1
  BY <1>4
<1>6. /\ DOMAIN added = MemFields /\ AddrsKept(m, added) /\ LinesKept(m, added)
      /\ added.admin_polygons = polys
      /\ added.cell_to_admin = m.cell_to_admin
      /\ added.pending_admin_holes = m.pending_admin_holes
  BY DEF AddrsKept, LinesKept, MemFields
<1> HIDE DEF added
<1>7. AdminsIndexed(id + 1, added.cell_to_admin)
  BY <1>3, <1>5, <1>6 DEF AdminsIndexed
<1>8. PendingExist(id + 1, added.pending_admin_holes)
  BY <1>3, <1>5, <1>6 DEF PendingExist
<1>9. AdminStep(m, m)
  BY AdminStepSelf
<1>10. AdminStep(m, AddAdminCells(added, id, ring, ring.outer))
  <2> DEFINE x == AddAdminCells(added, id, ring, ring.outer)
  <2>1. id < id + 1
    BY <1>4
  <2>2. /\ DOMAIN x = MemFields /\ AddrsKept(added, x) /\ LinesKept(added, x)
        /\ x.admin_polygons = added.admin_polygons
        /\ x.pending_admin_holes = added.pending_admin_holes
        /\ AdminsIndexed(id + 1, x.cell_to_admin)
    BY <1>4, <1>5, <1>6, <1>7, <2>1, AddAdminCellsOK
  <2> HIDE DEF x
  <2>3. AddrsKept(m, x) /\ LinesKept(m, x)
    BY <1>6, <2>2 DEF AddrsKept, LinesKept
  <2>4. AdminOK(x)
    BY <1>4, <1>6, <1>8, <2>2 DEF AdminOK
  <2> QED
    BY <2>2, <2>3, <2>4 DEF AdminStep, x
<1>11. AdminStep(m, [added EXCEPT !.pending_admin_holes = wait])
  <2> DEFINE e == [poly_id |-> id, ring |-> ring, holes |-> holes]
             pend == added.pending_admin_holes
             y == [added EXCEPT !.pending_admin_holes = wait]
  <2>1. wait = Append(pend, e) /\ e.poly_id = id
    OBVIOUS
  <2>2. IsSeq(pend) /\ \A i \in 1..Len(pend) : pend[i].poly_id \in 0..(id + 1) - 1
    BY <1>8 DEF PendingExist
  <2> HIDE DEF e, pend, wait
  <2>3. /\ Len(pend) \in Nat /\ IsSeq(wait) /\ Len(wait) = Len(pend) + 1
        /\ \A i \in 1..Len(pend) : wait[i] = pend[i]
        /\ wait[Len(pend) + 1] = e
    BY <2>1, <2>2, AppendIsSeq
  <2>4. \A i \in 1..Len(wait) : wait[i].poly_id \in 0..(id + 1) - 1
    <3> TAKE i \in 1..Len(wait)
    <3>1. i \in 1..Len(pend) \/ i = Len(pend) + 1
      BY <2>3
    <3>2. id \in 0..(id + 1) - 1
      BY <1>4
    <3> QED
      BY <2>1, <2>2, <2>3, <3>1, <3>2
  <2>5. PendingExist(id + 1, wait)
    BY <2>3, <2>4 DEF PendingExist
  <2>6. /\ DOMAIN y = MemFields /\ AddrsKept(m, y) /\ LinesKept(m, y)
        /\ y.admin_polygons = polys /\ y.cell_to_admin = added.cell_to_admin
        /\ y.pending_admin_holes = wait
    BY <1>6 DEF AddrsKept, LinesKept, MemFields
  <2> HIDE DEF y
  <2>7. AdminOK(y)
    BY <1>4, <1>7, <2>5, <2>6 DEF AdminOK
  <2> QED
    BY <2>6, <2>7 DEF AdminStep, y
<1>12. AdminStep(m, r)
  BY <1>2, <1>9, <1>10, <1>11
<1> QED
  BY <1>12 DEF r

\* The memories after each ring of an area.
AreRings(f, m, area, n) ==
    f = [i \in 0..n |-> IF i = 0 THEN m ELSE AddAdminPolygon(f[i - 1], area, area.rings[i])]

\* They exist, by induction, and the last one is that of the area.
LEMMA RingsExist ==
    ASSUME NEW m, NEW area, area.rings \in Seq(ToSet(area.rings))
    PROVE  \E f : /\ AreRings(f, m, area, Len(area.rings))
                  /\ AddAreaPolygons(m, area) =
                         IF area.level = 0 \/ area.name = "" \/ IsMemberWay(m, area) THEN m
                         ELSE f[Len(area.rings)]
<1> DEFINE n == Len(area.rings)
           Is(f, k) == f = [i \in 0..k |-> IF i = 0 THEN m ELSE AddAdminPolygon(f[i - 1], area, area.rings[i])]
           F == CHOOSE f : Is(f, n)
           Bad == {k \in 0..n : ~\E f : Is(f, k)}
<1>1. n \in Nat /\ 0 \in Nat /\ 0 + 1 = 1
  OBVIOUS
<1>2. ASSUME Bad # {} PROVE FALSE
  <2>1. 0 \notin Bad
    <3> DEFINE z == [i \in 0..0 |-> m]
    <3>1. Is(z, 0)
      OBVIOUS
    <3> QED
      BY <3>1
  <2>2. Bad \in SUBSET (0..n)
    OBVIOUS
  <2>3. PICK k \in Bad : k \in 1..n /\ k - 1 \in 0..n /\ k - 1 \notin Bad
    <3> HIDE DEF Bad, n
    <3> QED
      BY <1>1, <1>2, <2>1, <2>2, FirstFailure
  <2>4. PICK f : Is(f, k - 1)
    BY <2>3
  <2> DEFINE h == [i \in 0..k |-> IF i = k THEN AddAdminPolygon(f[k - 1], area, area.rings[k]) ELSE f[i]]
             e == [i \in 0..k |-> IF i = 0 THEN m ELSE AddAdminPolygon(h[i - 1], area, area.rings[i])]
  <2>5. ASSUME NEW i \in 0..k PROVE h[i] = e[i]
    <3>1. i = 0 \/ i - 1 \in 0..k - 1
      BY <2>3
    <3>2. i - 1 \in 0..k - 1 => h[i - 1] = f[i - 1]
      BY <2>3
    <3>3. i \in 0..k - 1 => h[i] = f[i] /\ f[i] = IF i = 0 THEN m ELSE AddAdminPolygon(f[i - 1], area, area.rings[i])
      BY <2>3, <2>4
    <3>4. i = k \/ i \in 0..k - 1
      BY <2>3
    <3>5. k # 0
      BY <2>3
    <3> QED
      BY <3>1, <3>2, <3>3, <3>4, <3>5
  <2>6. Is(h, k)
    <3>1. h = [i \in 0..k |-> h[i]]
      OBVIOUS
    <3> HIDE DEF h
    <3> QED
      BY <2>5, <3>1
  <2> QED
    BY <2>3, <2>6
<1>3. \E f : Is(f, n)
  <2>1. n \in 0..n /\ n \notin Bad
    BY <1>1, <1>2
  <2> QED
    BY <2>1
<1>4. Is(F, n)
  BY <1>3, Zenon
<1>5. AddAreaPolygons(m, area) = IF area.level = 0 \/ area.name = "" \/ IsMemberWay(m, area) THEN m ELSE F[n]
  BY Zenon DEF AddAreaPolygons
<1> HIDE DEF F
<1> QED
  BY <1>4, <1>5 DEF AreRings

\* All the rings of an area.
LEMMA RingsAdded ==
    ASSUME NEW m, DOMAIN m = MemFields, AdminOK(m), NEW area, area.rings \in Seq(ToSet(area.rings))
    PROVE  AdminStep(m, AddAreaPolygons(m, area))
<1> DEFINE n == Len(area.rings)
<1>1. n \in Nat /\ 0 \in Nat /\ 0 + 1 = 1
  OBVIOUS
<1>2. PICK F : /\ AreRings(F, m, area, n)
               /\ AddAreaPolygons(m, area) =
                      IF area.level = 0 \/ area.name = "" \/ IsMemberWay(m, area) THEN m
                      ELSE F[n]
  BY RingsExist
<1>3. F = [i \in 0..n |-> IF i = 0 THEN m ELSE AddAdminPolygon(F[i - 1], area, area.rings[i])]
  BY <1>2 DEF AreRings
<1>4. AddAreaPolygons(m, area) = IF area.level = 0 \/ area.name = "" \/ IsMemberWay(m, area) THEN m ELSE F[n]
  BY <1>2
<1> DEFINE Wrong == {k \in 0..n : ~AdminStep(m, F[k])}
<1>5. ASSUME Wrong # {} PROVE FALSE
  <2>1. 0 \notin Wrong
    <3>1. F[0] = m
      BY <1>1, <1>3
    <3> QED
      BY <3>1, AdminStepSelf
  <2>2. Wrong \in SUBSET (0..n)
    OBVIOUS
  <2>3. PICK k \in Wrong : k \in 1..n /\ k - 1 \in 0..n /\ k - 1 \notin Wrong
    <3> HIDE DEF Wrong, n
    <3> QED
      BY <1>1, <1>5, <2>1, <2>2, FirstFailure
  <2>4. F[k] = AddAdminPolygon(F[k - 1], area, area.rings[k])
    BY <1>3, <2>3, SMTT(30)
  <2>5. AdminStep(m, F[k - 1])
    BY <2>3
  <2>6. AdminStep(F[k - 1], F[k])
    BY <2>4, <2>5, AddAdminPolygonOK DEF AdminStep
  <2>7. AdminStep(m, F[k])
    BY <2>5, <2>6, AdminStepTrans
  <2> QED
    BY <2>3, <2>7
<1>6. AdminStep(m, F[n])
  BY <1>1, <1>5
<1> QED
  BY <1>4, <1>6, AdminStepSelf

\* The holes of one polygon: the number of polygons stays.
HoleStep(m, r) == AdminStep(m, r) /\ Len(r.admin_polygons) = Len(m.admin_polygons)

\* Adding a hole gives a polygon vertices and interior cells, and never a new
\* polygon.
LEMMA FinalizeHoleOK ==
    ASSUME NEW m, DOMAIN m = MemFields, AdminOK(m),
           NEW p, p.poly_id \in 0..Len(m.admin_polygons) - 1
    PROVE  HoleStep(m, FinalizeHole(m, p))
<1> DEFINE shape == p.ring.outer \ CutHoles(p.ring, OpenHoles(m, p))
           n == Len(m.admin_polygons)
           x == AddAdminCells(m, p.poly_id, p.ring, shape)
           polys == [x.admin_polygons EXCEPT ![p.poly_id + 1].shape = shape]
           r == FinalizeHole(m, p)
<1>1. r = [x EXCEPT !.admin_polygons = polys]
  BY DEF FinalizeHole
<1> HIDE DEF shape, n, r
<1>2. IsSeq(m.admin_polygons) /\ n \in Nat /\ AdminsIndexed(n, m.cell_to_admin)
      /\ PendingExist(n, m.pending_admin_holes)
  BY DEF AdminOK, IsSeq, n
<1>3. p.poly_id \in Nat /\ p.poly_id < n
  BY <1>2 DEF n
<1>4. /\ DOMAIN x = MemFields /\ AddrsKept(m, x) /\ LinesKept(m, x)
      /\ x.admin_polygons = m.admin_polygons
      /\ x.pending_admin_holes = m.pending_admin_holes
      /\ AdminsIndexed(n, x.cell_to_admin)
  BY <1>2, <1>3, AddAdminCellsOK
<1> HIDE DEF x
<1>5. IsSeq(polys) /\ Len(polys) = n
  <2> DEFINE s == m.admin_polygons
  <2>1. DOMAIN s = 1..n
    BY <1>2 DEF IsSeq, n
  <2>2. polys = [s EXCEPT ![p.poly_id + 1].shape = shape]
    BY <1>4
  <2> HIDE DEF s, polys
  <2>3. polys = [i \in 1..n |-> polys[i]]
    BY <2>1, <2>2
  <2> QED
    BY <1>2, <2>3, FunIsSeq
<1> HIDE DEF polys
<1>6. /\ DOMAIN r = MemFields /\ AddrsKept(m, r) /\ LinesKept(m, r)
      /\ r.admin_polygons = polys /\ r.cell_to_admin = x.cell_to_admin
      /\ r.pending_admin_holes = m.pending_admin_holes
  BY <1>1, <1>4 DEF AddrsKept, LinesKept, MemFields
<1>7. AdminOK(r)
  BY <1>2, <1>4, <1>5, <1>6 DEF AdminOK
<1> QED
  BY <1>5, <1>6, <1>7 DEF HoleStep, AdminStep, r, n

\* The memories after each polygon of a list has got its holes.
AreHoles(f, m, P, k) ==
    f = [i \in 0..k |-> IF i = 0 THEN m ELSE FinalizeHole(f[i - 1], P[i])]

\* They exist, by induction, and the last one has all the holes.
LEMMA HolesExist ==
    ASSUME NEW m, NEW P, Len(P) \in Nat
    PROVE  \E f : AreHoles(f, m, P, Len(P)) /\ Finalized(m, P) = f[Len(P)]
<1> DEFINE n == Len(P)
           Is(f, k) == f = [i \in 0..k |-> IF i = 0 THEN m ELSE FinalizeHole(f[i - 1], P[i])]
           F == CHOOSE f : Is(f, n)
           Bad == {k \in 0..n : ~\E f : Is(f, k)}
<1>1. n \in Nat /\ 0 \in Nat /\ 0 + 1 = 1
  OBVIOUS
<1>2. ASSUME Bad # {} PROVE FALSE
  <2>1. 0 \notin Bad
    <3> DEFINE z == [i \in 0..0 |-> m]
    <3>1. Is(z, 0)
      OBVIOUS
    <3> QED
      BY <3>1
  <2>2. Bad \in SUBSET (0..n)
    OBVIOUS
  <2>3. PICK k \in Bad : k \in 1..n /\ k - 1 \in 0..n /\ k - 1 \notin Bad
    <3> HIDE DEF Bad, n
    <3> QED
      BY <1>1, <1>2, <2>1, <2>2, FirstFailure
  <2>4. PICK f : Is(f, k - 1)
    BY <2>3
  <2> DEFINE h == [i \in 0..k |-> IF i = k THEN FinalizeHole(f[k - 1], P[k]) ELSE f[i]]
             e == [i \in 0..k |-> IF i = 0 THEN m ELSE FinalizeHole(h[i - 1], P[i])]
  <2>5. ASSUME NEW i \in 0..k PROVE h[i] = e[i]
    <3>1. i = 0 \/ i - 1 \in 0..k - 1
      BY <2>3
    <3>2. i - 1 \in 0..k - 1 => h[i - 1] = f[i - 1]
      BY <2>3
    <3>3. i \in 0..k - 1 => h[i] = f[i] /\ f[i] = IF i = 0 THEN m ELSE FinalizeHole(f[i - 1], P[i])
      BY <2>3, <2>4
    <3>4. i = k \/ i \in 0..k - 1
      BY <2>3
    <3>5. k # 0
      BY <2>3
    <3> QED
      BY <3>1, <3>2, <3>3, <3>4, <3>5
  <2>6. Is(h, k)
    <3>1. h = [i \in 0..k |-> h[i]]
      OBVIOUS
    <3> HIDE DEF h
    <3> QED
      BY <2>5, <3>1
  <2> QED
    BY <2>3, <2>6
<1>3. \E f : Is(f, n)
  <2>1. n \in 0..n /\ n \notin Bad
    BY <1>1, <1>2
  <2> QED
    BY <2>1
<1>4. Is(F, n)
  BY <1>3, Zenon
<1>5. Finalized(m, P) = F[n]
  BY DEF Finalized
<1> HIDE DEF F
<1> QED
  BY <1>4, <1>5 DEF AreHoles

\* All the polygons that were put off.
LEMMA HolesFinalized ==
    ASSUME NEW m, DOMAIN m = MemFields, AdminOK(m)
    PROVE  AdminStep(m, Finalized(m, m.pending_admin_holes))
<1> DEFINE n == Len(m.pending_admin_holes)
<1>1. n \in Nat /\ 0 \in Nat /\ 0 + 1 = 1
  BY DEF AdminOK, PendingExist, IsSeq
<1>2. PICK F : AreHoles(F, m, m.pending_admin_holes, n) /\ Finalized(m, m.pending_admin_holes) = F[n]
  BY <1>1, HolesExist
<1>3. F = [i \in 0..n |-> IF i = 0 THEN m ELSE FinalizeHole(F[i - 1], m.pending_admin_holes[i])]
  BY <1>2 DEF AreHoles
<1>4. Finalized(m, m.pending_admin_holes) = F[n]
  BY <1>2
<1> DEFINE Wrong == {k \in 0..n : ~HoleStep(m, F[k])}
<1>5. ASSUME Wrong # {} PROVE FALSE
  <2>1. 0 \notin Wrong
    <3>1. F[0] = m
      BY <1>1, <1>3
    <3> QED
      BY <3>1, AdminStepSelf DEF HoleStep
  <2>2. Wrong \in SUBSET (0..n)
    OBVIOUS
  <2>3. PICK k \in Wrong : k \in 1..n /\ k - 1 \in 0..n /\ k - 1 \notin Wrong
    <3> HIDE DEF Wrong, n
    <3> QED
      BY <1>1, <1>5, <2>1, <2>2, FirstFailure
  <2>4. F[k] = FinalizeHole(F[k - 1], m.pending_admin_holes[k])
    BY <1>3, <2>3
  <2>5. HoleStep(m, F[k - 1])
    BY <2>3
  <2>6. m.pending_admin_holes[k].poly_id \in 0..Len(m.admin_polygons) - 1
    BY <2>3 DEF AdminOK, PendingExist
  <2>7. HoleStep(F[k - 1], F[k])
    BY <2>4, <2>5, <2>6, FinalizeHoleOK DEF HoleStep, AdminStep
  <2>8. HoleStep(m, F[k])
    BY <2>5, <2>7, AdminStepTrans DEF HoleStep
  <2> QED
    BY <2>3, <2>8
<1>6. HoleStep(m, F[n])
  BY <1>1, <1>5
<1> QED
  BY <1>4, <1>6 DEF HoleStep

-----------------------------------------------------------------------------
(* The invariant of a build. *)

\* The addresses of some of the imported objects.
AddrsOf(S) ==
    {AddressOf(n.pos, n.addr) : n \in {x \in S : x.kind = "node" /\ HasAddress(x.addr)}}
    \cup {AddressOf(Centroid(w.nodes), w.addr) :
          w \in {x \in S : x.kind = "way" /\ x.interpolation = "" /\ HasAddress(x.addr)}}

\* The address of one object.
IsAddrOf(a, x) ==
    \/ x.kind = "node" /\ HasAddress(x.addr) /\ a = AddressOf(x.pos, x.addr)
    \/ /\ x.kind = "way" /\ x.interpolation = "" /\ HasAddress(x.addr)
       /\ a = AddressOf(Centroid(x.nodes), x.addr)

\* An address belongs to a set of objects when one of them has it.
LEMMA AddrsOfMember ==
    ASSUME NEW S, NEW a
    PROVE  a \in AddrsOf(S) <=> \E x \in S : IsAddrOf(a, x)
BY DEF AddrsOf, IsAddrOf

\* The reference set of FilesReadBack is that of the whole world.
LEMMA WorldAddrsIs == WorldAddrs = AddrsOf(world)
<1>1. \A a : a \in WorldAddrs <=> \E x \in world : IsAddrOf(a, x)
  BY DEF WorldAddrs, Kinds, IsAddrOf
<1>2. \A a : a \in AddrsOf(world) <=> \E x \in world : IsAddrOf(a, x)
  BY AddrsOfMember
<1> QED
  BY <1>1, <1>2

\* Every id list of the address layer is ascending.
Deduplicated(map) == \A c \in DOMAIN map : map[c] = Ascending(ToSet(map[c]))

MemOK(m) == DOMAIN m = MemFields /\ AddrOK(m) /\ LinesOK(m) /\ AdminOK(m)

Phases == {"read", "holes", "resolved", "dedup", "sorted", "written", "loaded", "failed"}

\* The inductive invariant.  An object is still in an input file that is not
\* opened, in the open one, or handled; the address points are exactly the
\* addresses of the handled objects, each listed in its own cell only; the lists
\* are ascending when the points are sorted; the files are those of the memory.
IInv ==
    /\ world \in Worlds
    /\ phase \in Phases
    /\ todo \subseteq world /\ file \subseteq world /\ todo \cap file = {}
    /\ phase # "read" => todo = {} /\ file = {}
    /\ MemOK(mem)
    /\ ToSet(mem.addr_points) = AddrsOf(world \ (todo \cup file))
    /\ phase = "dedup" => Deduplicated(mem.cell_to_addrs)
    /\ phase \in {"written", "loaded"} => files = Written(mem)
    /\ answer.asked \in BOOLEAN

\* What places and POIs do keeps the memory in order.
LEMMA KeptOK ==
    ASSUME NEW m, MemOK(m), NEW n, AllKept(m, n)
    PROVE  MemOK(n) /\ n.addr_points = m.addr_points
BY DEF MemOK, AllKept, AddrsKept, LinesKept, AdminKept, AddrOK, LinesOK, AdminOK

\* What the handlers do to the memory.
LEMMA NodeOK ==
    ASSUME NEW m, MemOK(m), NEW n, n.pos \in Int
    PROVE  LET r == AddAddress(AddPoi(AddPlace(m, n.pos, n.place, n.name),
                                      n.pos, n.poi, n.name), n.pos, n.addr)
           IN  /\ MemOK(r)
               /\ ToSet(r.addr_points) = ToSet(m.addr_points)
                      \cup (IF HasAddress(n.addr) THEN {AddressOf(n.pos, n.addr)} ELSE {})
<1> DEFINE a == AddPlace(m, n.pos, n.place, n.name)
           b == AddPoi(a, n.pos, n.poi, n.name)
           r == AddAddress(b, n.pos, n.addr)
<1>1. MemOK(a) /\ a.addr_points = m.addr_points
  <2>1. AllKept(m, a)
    BY PlaceAndPoiKeep DEF MemOK
  <2> QED
    BY <2>1, KeptOK
<1> HIDE DEF a
<1>2. MemOK(b) /\ b.addr_points = a.addr_points
  <2>1. AllKept(a, b)
    BY <1>1, PlaceAndPoiKeep DEF MemOK
  <2> QED
    BY <1>1, <2>1, KeptOK
<1> HIDE DEF b
<1>3. /\ DOMAIN r = MemFields /\ LinesKept(b, r) /\ AdminKept(b, r) /\ AddrOK(r)
      /\ ToSet(r.addr_points) = ToSet(b.addr_points)
             \cup (IF HasAddress(n.addr) THEN {AddressOf(n.pos, n.addr)} ELSE {})
  BY <1>2, AddAddressOK, Zenon DEF MemOK
<1> HIDE DEF r
<1>4. MemOK(r)
  BY <1>2, <1>3 DEF MemOK, LinesKept, AdminKept, LinesOK, AdminOK
<1>5. /\ MemOK(r)
      /\ ToSet(r.addr_points) = ToSet(m.addr_points)
             \cup (IF HasAddress(n.addr) THEN {AddressOf(n.pos, n.addr)} ELSE {})
  BY <1>1, <1>2, <1>3, <1>4
<1> QED
  BY <1>5, Zenon DEF r, b, a

\* So do interpolation ways and streets.
LEMMA InterpolationOK ==
    ASSUME NEW m, MemOK(m), NEW w, w.nodes \in Seq(Int)
    PROVE  /\ MemOK(AddInterpolation(m, w)) /\ AddInterpolation(m, w).addr_points = m.addr_points
           /\ MemOK(AddStreet(m, w)) /\ AddStreet(m, w).addr_points = m.addr_points
<1> DEFINE s == AddStreet(m, w)
           i == AddInterpolation(m, w)
<1>1. /\ DOMAIN s = MemFields /\ AddrsKept(m, s) /\ AdminKept(m, s) /\ LinesOK(s)
      /\ DOMAIN i = MemFields /\ AddrsKept(m, i) /\ AdminKept(m, i) /\ LinesOK(i)
  BY AddLinesOK, Zenon DEF MemOK
<1> HIDE DEF s, i
<1>2. MemOK(s) /\ s.addr_points = m.addr_points
  BY <1>1 DEF MemOK, AddrsKept, AdminKept, AddrOK, AdminOK
<1>3. MemOK(i) /\ i.addr_points = m.addr_points
  BY <1>1 DEF MemOK, AddrsKept, AdminKept, AddrOK, AdminOK
<1> QED
  BY <1>2, <1>3 DEF s, i

\* A way adds its address, when it has one, and no other.
LEMMA WayOK ==
    ASSUME NEW m, MemOK(m), NEW w, w.nodes \in Seq(Int), NEW c \in Int
    PROVE  LET r == AddStreet(AddPoi(AddPlace(AddAddress(m, c, w.addr),
                                              c, w.place, w.name),
                                     c, w.poi, w.name), w)
           IN  /\ MemOK(r)
               /\ ToSet(r.addr_points) = ToSet(m.addr_points)
                      \cup (IF HasAddress(w.addr) THEN {AddressOf(c, w.addr)} ELSE {})
<1> DEFINE a == AddAddress(m, c, w.addr)
           b == AddPlace(a, c, w.place, w.name)
           d == AddPoi(b, c, w.poi, w.name)
           r == AddStreet(d, w)
<1>1. /\ DOMAIN a = MemFields /\ LinesKept(m, a) /\ AdminKept(m, a) /\ AddrOK(a)
      /\ ToSet(a.addr_points) = ToSet(m.addr_points)
             \cup (IF HasAddress(w.addr) THEN {AddressOf(c, w.addr)} ELSE {})
  BY AddAddressOK, Zenon DEF MemOK
<1> HIDE DEF a
<1>2. MemOK(a)
  BY <1>1 DEF MemOK, LinesKept, AdminKept, LinesOK, AdminOK
<1>3. MemOK(b) /\ b.addr_points = a.addr_points
  <2>1. AllKept(a, b)
    BY <1>2, PlaceAndPoiKeep DEF MemOK
  <2> QED
    BY <1>2, <2>1, KeptOK
<1> HIDE DEF b
<1>4. MemOK(d) /\ d.addr_points = b.addr_points
  <2>1. AllKept(b, d)
    BY <1>3, PlaceAndPoiKeep DEF MemOK
  <2> QED
    BY <1>3, <2>1, KeptOK
<1> HIDE DEF d
<1>5. MemOK(r) /\ r.addr_points = d.addr_points
  BY <1>4, InterpolationOK
<1> HIDE DEF r
<1>6. /\ MemOK(r)
      /\ ToSet(r.addr_points) = ToSet(m.addr_points)
             \cup (IF HasAddress(w.addr) THEN {AddressOf(c, w.addr)} ELSE {})
  BY <1>1, <1>3, <1>4, <1>5
<1> QED
  BY <1>6, Zenon DEF r, d, b, a

\* An area adds no address.
LEMMA AreaOK ==
    ASSUME NEW m, MemOK(m), NEW a, a.rings \in Seq(ToSet(a.rings))
    PROVE  LET r == AddAreaPolygons(AddPlace(AddPoi(m, a.centroid, a.poi, a.name),
                                             a.centroid, a.place, a.name), a)
           IN  MemOK(r) /\ r.addr_points = m.addr_points
<1> DEFINE b == AddPoi(m, a.centroid, a.poi, a.name)
           d == AddPlace(b, a.centroid, a.place, a.name)
           r == AddAreaPolygons(d, a)
<1>1. MemOK(b) /\ b.addr_points = m.addr_points
  <2>1. AllKept(m, b)
    BY PlaceAndPoiKeep DEF MemOK
  <2> QED
    BY <2>1, KeptOK
<1> HIDE DEF b
<1>2. MemOK(d) /\ d.addr_points = b.addr_points
  <2>1. AllKept(b, d)
    BY <1>1, PlaceAndPoiKeep DEF MemOK
  <2> QED
    BY <1>1, <2>1, KeptOK
<1> HIDE DEF d
<1>3. AdminStep(d, r)
  BY <1>2, RingsAdded DEF MemOK
<1> HIDE DEF r
<1>4. MemOK(r) /\ r.addr_points = d.addr_points
  BY <1>2, <1>3 DEF MemOK, AdminStep, AddrsKept, LinesKept, AddrOK, LinesOK
<1>5. MemOK(r) /\ r.addr_points = m.addr_points
  BY <1>1, <1>2, <1>4
<1> QED
  BY <1>5, Zenon DEF r, d, b

-----------------------------------------------------------------------------
(* Every step keeps the invariant. *)

\* A handler that adds the address of its object, and no other, keeps the
\* invariant.
LEMMA HandledOK ==
    ASSUME IInv, NEW item \in file, Handled(item), MemOK(mem'), UNCHANGED answer,
           \A a : a \in ToSet(mem'.addr_points) <=> a \in ToSet(mem.addr_points) \/ IsAddrOf(a, item)
    PROVE  IInv'
<1>1. phase = "read"
  BY DEF IInv
<1>2. file' = file \ {item} /\ UNCHANGED <<world, todo, phase, files>>
  BY DEF Handled
<1> DEFINE S == world \ (todo \cup file)
<1>3. world' \ (todo' \cup file') = S \cup {item}
  BY <1>2 DEF IInv
<1>4. ToSet(mem.addr_points) = AddrsOf(S)
  BY DEF IInv
<1>5. \A a : a \in AddrsOf(S \cup {item}) <=> a \in AddrsOf(S) \/ IsAddrOf(a, item)
  BY AddrsOfMember
<1> HIDE DEF S
<1>6. ToSet(mem'.addr_points) = AddrsOf(S \cup {item})
  BY <1>4, <1>5
<1>7. ToSet(mem'.addr_points) = AddrsOf(world' \ (todo' \cup file'))
  BY <1>3, <1>6
<1>8. /\ world' \in Worlds /\ phase' \in Phases /\ answer'.asked \in BOOLEAN
      /\ todo' \subseteq world' /\ file' \subseteq world' /\ todo' \cap file' = {}
  BY <1>2 DEF IInv
<1> QED
  BY <1>1, <1>2, <1>7, <1>8 DEF IInv

\* Opening a file moves objects from the unopened files to the open one.
LEMMA OpenFileOK ==
    ASSUME IInv, OpenFile, UNCHANGED answer
    PROVE  IInv'
<1>1. phase = "read" /\ file = {} /\ UNCHANGED <<world, phase, files>>
  BY DEF OpenFile
<1>2. file' \subseteq todo /\ todo' = todo \ file'
  BY DEF OpenFile
<1>3. \E x : mem' = [mem EXCEPT !.boundary_member_ways = x]
  BY DEF OpenFile
<1>4. PICK x : mem' = [mem EXCEPT !.boundary_member_ways = x]
  BY <1>3
<1>5. AllKept(mem, mem')
  BY <1>4 DEF IInv, MemOK, AllKept, AddrsKept, LinesKept, AdminKept, MemFields
<1>6. MemOK(mem') /\ mem'.addr_points = mem.addr_points
  BY <1>5, KeptOK DEF IInv
<1>7. world' \ (todo' \cup file') = world \ (todo \cup file)
  BY <1>1, <1>2
<1>8. ToSet(mem'.addr_points) = AddrsOf(world' \ (todo' \cup file'))
  BY <1>6, <1>7 DEF IInv
<1>9. /\ world' \in Worlds /\ phase' \in Phases /\ answer'.asked \in BOOLEAN
      /\ todo' \subseteq world' /\ file' \subseteq world' /\ todo' \cap file' = {}
  BY <1>1, <1>2 DEF IInv
<1> QED
  BY <1>1, <1>6, <1>8, <1>9 DEF IInv

\* The node handler keeps the invariant.
LEMMA HandleNodeOK ==
    ASSUME IInv, HandleNode, UNCHANGED answer
    PROVE  IInv'
<1>1. PICK n \in {x \in file : x.kind = "node"} :
          /\ mem' = AddAddress(AddPoi(AddPlace(mem, n.pos, n.place, n.name),
                                      n.pos, n.poi, n.name), n.pos, n.addr)
          /\ Handled(n)
  BY DEF HandleNode
<1>2. n \in file /\ n.kind = "node" /\ n.pos \in Int
  BY WorldsAssumption DEF IInv
<1>3. MemOK(mem)
  BY DEF IInv
<1>4. /\ MemOK(mem')
      /\ ToSet(mem'.addr_points) = ToSet(mem.addr_points)
             \cup (IF HasAddress(n.addr) THEN {AddressOf(n.pos, n.addr)} ELSE {})
  BY <1>1, <1>2, <1>3, NodeOK
<1>5. \A a : IsAddrOf(a, n) <=> HasAddress(n.addr) /\ a = AddressOf(n.pos, n.addr)
  BY <1>2 DEF IsAddrOf
<1>6. \A a : a \in ToSet(mem'.addr_points) <=> a \in ToSet(mem.addr_points) \/ IsAddrOf(a, n)
  BY <1>4, <1>5
<1> QED
  BY <1>1, <1>2, <1>4, <1>6, HandledOK

\* The way handler keeps the invariant, for interpolation ways and for others.
LEMMA HandleWayOK ==
    ASSUME IInv, HandleWay, UNCHANGED answer
    PROVE  IInv'
<1>1. PICK w \in {x \in file : x.kind = "way"} :
          /\ mem' = IF w.interpolation # "" THEN AddInterpolation(mem, w)
                    ELSE AddStreet(AddPoi(AddPlace(AddAddress(mem, Centroid(w.nodes), w.addr),
                                                   Centroid(w.nodes), w.place, w.name),
                                          Centroid(w.nodes), w.poi, w.name), w)
          /\ Handled(w)
  BY DEF HandleWay
<1>2. w \in file /\ w.kind = "way" /\ w.nodes \in Seq(Int) \ {<<>>}
  BY WorldsAssumption DEF IInv
<1>3. MemOK(mem)
  BY DEF IInv
<1>4. PICK c \in Int : c = Centroid(w.nodes)
  BY <1>2, CentroidType
<1>5. /\ MemOK(mem')
      /\ \A a : a \in ToSet(mem'.addr_points) <=> a \in ToSet(mem.addr_points) \/ IsAddrOf(a, w)
  <2>1. CASE w.interpolation # ""
    <3>1. mem' = AddInterpolation(mem, w)
      BY <1>1, <2>1
    <3>2. MemOK(mem') /\ mem'.addr_points = mem.addr_points
      BY <1>2, <1>3, <3>1, InterpolationOK
    <3>3. \A a : ~IsAddrOf(a, w)
      BY <1>2, <2>1 DEF IsAddrOf
    <3> QED
      BY <3>2, <3>3
  <2>2. CASE w.interpolation = ""
    <3>1. mem' = AddStreet(AddPoi(AddPlace(AddAddress(mem, c, w.addr),
                                           c, w.place, w.name), c, w.poi, w.name), w)
      BY <1>1, <1>4, <2>2
    <3>2. /\ MemOK(mem')
          /\ ToSet(mem'.addr_points) = ToSet(mem.addr_points)
                 \cup (IF HasAddress(w.addr) THEN {AddressOf(c, w.addr)} ELSE {})
      BY <1>2, <1>3, <3>1, WayOK
    <3>3. \A a : IsAddrOf(a, w) <=> HasAddress(w.addr) /\ a = AddressOf(c, w.addr)
      BY <1>2, <1>4, <2>2 DEF IsAddrOf
    <3> QED
      BY <3>2, <3>3
  <2> QED
    BY <2>1, <2>2
<1> QED
  BY <1>1, <1>2, <1>5, HandledOK

\* The area handler keeps the invariant.
LEMMA HandleAreaOK ==
    ASSUME IInv, HandleArea, UNCHANGED answer
    PROVE  IInv'
<1>1. PICK a \in {x \in file : x.kind = "area"} :
          /\ mem' = AddAreaPolygons(AddPlace(AddPoi(mem, a.centroid, a.poi, a.name),
                                             a.centroid, a.place, a.name), a)
          /\ Handled(a)
  BY DEF HandleArea
<1>2. a \in file /\ a.kind = "area" /\ a.rings \in Seq(ToSet(a.rings))
  BY WorldsAssumption DEF IInv
<1>3. MemOK(mem)
  BY DEF IInv
<1>4. MemOK(mem') /\ mem'.addr_points = mem.addr_points
  BY <1>1, <1>2, <1>3, AreaOK
<1>5. \A e : e \in ToSet(mem'.addr_points) <=> e \in ToSet(mem.addr_points) \/ IsAddrOf(e, a)
  BY <1>2, <1>4 DEF IsAddrOf
<1> QED
  BY <1>1, <1>2, <1>4, <1>5, HandledOK

\* A later phase that leaves the same addresses keeps the invariant.
LEMMA AdvancedOK ==
    ASSUME IInv, NEW from, NEW to \in Phases \ {"read"}, Advance(from, to), todo = {}, file = {},
           MemOK(mem'), ToSet(mem'.addr_points) = ToSet(mem.addr_points),
           to = "dedup" => Deduplicated(mem'.cell_to_addrs),
           to \in {"written", "loaded"} => files' = Written(mem'),
           UNCHANGED answer
    PROVE  IInv'
<1>1. phase' = to /\ UNCHANGED <<world, todo, file>>
  BY DEF Advance
<1>2. ToSet(mem'.addr_points) = AddrsOf(world' \ (todo' \cup file'))
  BY <1>1 DEF IInv
<1>3. /\ world' \in Worlds /\ phase' \in Phases /\ answer'.asked \in BOOLEAN
      /\ todo' \subseteq world' /\ file' \subseteq world' /\ todo' \cap file' = {}
      /\ todo' = {} /\ file' = {}
  BY <1>1 DEF IInv
<1>4. /\ phase' = "dedup" => Deduplicated(mem'.cell_to_addrs)
      /\ phase' \in {"written", "loaded"} => files' = Written(mem')
  BY <1>1
<1> QED
  BY <1>2, <1>3, <1>4 DEF IInv

\* finalize_admin_holes keeps the invariant.
LEMMA FinalizeAdminHolesOK ==
    ASSUME IInv, FinalizeAdminHoles, UNCHANGED answer
    PROVE  IInv'
<1> DEFINE r == Finalized(mem, mem.pending_admin_holes)
<1>1. todo = {} /\ file = {} /\ Advance("read", "holes")
  BY DEF FinalizeAdminHoles
<1>2. mem' = [r EXCEPT !.pending_admin_holes = <<>>]
  BY DEF FinalizeAdminHoles
<1>3. MemOK(mem)
  BY DEF IInv
<1>4. AdminStep(mem, r)
  BY <1>3, HolesFinalized DEF MemOK
<1> HIDE DEF r
<1>5. /\ DOMAIN mem' = MemFields /\ AddrsKept(mem, mem') /\ LinesKept(mem, mem')
      /\ mem'.admin_polygons = r.admin_polygons /\ mem'.cell_to_admin = r.cell_to_admin
      /\ mem'.pending_admin_holes = <<>>
  BY <1>2, <1>4 DEF AdminStep, AddrsKept, LinesKept, MemFields
<1>6. \A n : PendingExist(n, <<>>)
  <2>1. <<>> \in Seq({}) /\ Len(<<>>) = 0
    OBVIOUS
  <2>2. IsSeq(<<>>)
    BY <2>1, SeqIsSeq
  <2> QED
    BY <2>1, <2>2 DEF PendingExist
<1>7. AdminOK(mem')
  BY <1>4, <1>5, <1>6 DEF AdminStep, AdminOK
<1>8. MemOK(mem') /\ mem'.addr_points = mem.addr_points
  BY <1>3, <1>5, <1>7 DEF MemOK, AddrsKept, LinesKept, AddrOK, LinesOK
<1>9. "holes" \in Phases \ {"read"} /\ "holes" # "dedup" /\ "holes" \notin {"written", "loaded"}
  BY DEF Phases
<1> QED
  BY <1>1, <1>8, <1>9, AdvancedOK

\* The addresses of objects have numbers.
LEMMA AddrNumbers ==
    ASSUME IInv, NEW a \in ToSet(mem.addr_points)
    PROVE  a.hn \in Nat
<1>1. PICK x \in world : IsAddrOf(a, x)
  BY AddrsOfMember DEF IInv
<1>2. x.kind \in {"node", "way"} => x.addr.hn \in Nat /\ x.addr.housename \in Nat
  BY WorldsAssumption DEF IInv
<1>3. \A pos : AddressOf(pos, x.addr).hn = IF x.addr.hn # 0 THEN x.addr.hn ELSE x.addr.housename
  BY DEF AddressOf
<1> QED
  BY <1>1, <1>2, <1>3 DEF IsAddrOf

\* A set of numbers up to n that is not empty has a greatest element.
LEMMA MaxExists ==
    ASSUME NEW n \in Nat, NEW S \in SUBSET (1..n), S # {}
    PROVE  Max(S) \in S /\ \A y \in S : y <= Max(S)
<1> DEFINE T == {n - i : i \in S}
<1>1. T \subseteq Nat /\ T # {}
  <2>1. \A i \in S : n - i \in Nat
    OBVIOUS
  <2>2. PICK i \in S : TRUE
    OBVIOUS
  <2>3. n - i \in T
    OBVIOUS
  <2> QED
    BY <2>1, <2>3
<1>2. PICK t \in T : \A y \in T : t <= y
  BY <1>1, NatLeast
<1>3. PICK x \in S : t = n - x
  BY <1>2
<1>4. \A y \in S : y <= x
  <2> SUFFICES ASSUME NEW y \in S PROVE y <= x
    OBVIOUS
  <2>1. n - y \in T
    OBVIOUS
  <2>2. x \in 1..n /\ y \in 1..n
    OBVIOUS
  <2>3. n - x <= n - y
    BY <1>2, <1>3, <2>1
  <2> QED
    BY <2>2, <2>3
<1> HIDE DEF T
<1>5. \E z \in S : \A y \in S : z >= y
  <2>1. \A y \in S : y \in Int
    OBVIOUS
  <2> QED
    BY <1>4, <2>1
<1>6. Max(S) \in S /\ \A y \in S : Max(S) >= y
  BY <1>5, Zenon DEF Max
<1>7. \A y \in S : y \in Int
  OBVIOUS
<1> QED
  BY <1>6, <1>7

\* The number of the last address of a position is a number.
LEMMA NumberAtType ==
    ASSUME IInv, NEW pos
    PROVE  NumberAt(mem, pos) \in Nat
<1> DEFINE ids == {i \in DOMAIN mem.addr_points : mem.addr_points[i].pos = pos}
           N == Len(mem.addr_points)
<1>1. N \in Nat /\ DOMAIN mem.addr_points = 1..N
  BY DEF IInv, MemOK, AddrOK, IsSeq
<1>2. /\ ids = {} => NumberAt(mem, pos) = 0
      /\ ids # {} => \/ NumberAt(mem, pos) = mem.addr_points[Max(ids)].hn
                     \/ \E n \in DOMAIN LeadingDigits : NumberAt(mem, pos) = LeadingDigits[n]
                     \/ NumberAt(mem, pos) = 0
  BY DEF NumberAt
<1>3. ids # {} => Max(ids) \in ids
  <2>1. ids \in SUBSET (1..N)
    BY <1>1
  <2> HIDE DEF ids, N
  <2> QED
    BY <1>1, <2>1, MaxExists
<1>4. ids # {} => mem.addr_points[Max(ids)] \in ToSet(mem.addr_points)
  BY <1>3 DEF ToSet
<1>5. ids # {} => mem.addr_points[Max(ids)].hn \in Nat
  BY <1>4, AddrNumbers
<1> HIDE DEF ids
<1> QED
  BY <1>2, <1>5, DigitsAssumption

\* The numbers of the ends are numbers.
LEMMA NumberedInterp ==
    ASSUME IInv, NEW w, IsInterp(w)
    PROVE  IsInterp(WithNumbers(mem, w))
<1> DEFINE s == NumberAt(mem, Head(w.nodes))
           e == NumberAt(mem, Last(w.nodes))
<1>1. s \in Nat /\ e \in Nat
  BY NumberAtType
<1>2. WithNumbers(mem, w) = [w EXCEPT !.start_number = s, !.end_number = e]
  BY DEF WithNumbers
<1> HIDE DEF s, e
<1> QED
  BY <1>1, <1>2 DEF IsInterp

\* resolve_interpolation_endpoints keeps the invariant.
LEMMA ResolveInterpolationOK ==
    ASSUME IInv, ResolveInterpolation, UNCHANGED answer
    PROVE  IInv'
<1> DEFINE w == [i \in DOMAIN mem.interp_ways |-> WithNumbers(mem, mem.interp_ways[i])]
<1>1. Advance("holes", "resolved") /\ mem' = [mem EXCEPT !.interp_ways = w]
  BY DEF ResolveInterpolation
<1>2. MemOK(mem) /\ IsSeq(mem.interp_ways)
  BY DEF IInv, MemOK, LinesOK
<1> DEFINE n == Len(mem.interp_ways)
<1>3. /\ n \in Nat /\ DOMAIN mem.interp_ways = 1..n
      /\ \A i \in 1..n : IsInterp(mem.interp_ways[i])
      /\ IdsBelow(n, mem.cell_to_interps)
  BY <1>2 DEF IsSeq, MemOK, LinesOK
<1>4. IsSeq(w) /\ Len(w) = n
  <2>1. w = [i \in 1..n |-> w[i]]
    BY <1>3
  <2> HIDE DEF w
  <2> QED
    BY <1>3, <2>1, FunIsSeq
<1>5. \A i \in 1..n : IsInterp(w[i])
  <2> SUFFICES ASSUME NEW i \in 1..n PROVE IsInterp(w[i])
    OBVIOUS
  <2>1. w[i] = WithNumbers(mem, mem.interp_ways[i])
    BY <1>3
  <2> QED
    BY <1>3, <2>1, NumberedInterp
<1> HIDE DEF w
<1>6. /\ DOMAIN mem' = MemFields /\ AddrsKept(mem, mem') /\ AdminKept(mem, mem')
      /\ mem'.interp_ways = w /\ mem'.ways = mem.ways
      /\ mem'.cell_to_ways = mem.cell_to_ways /\ mem'.cell_to_interps = mem.cell_to_interps
  BY <1>1, <1>2 DEF MemOK, AddrsKept, AdminKept, MemFields
<1>7. MemOK(mem') /\ mem'.addr_points = mem.addr_points
  <2>1. LinesOK(mem')
    BY <1>2, <1>3, <1>4, <1>5, <1>6 DEF MemOK, LinesOK
  <2> QED
    BY <1>2, <1>6, <2>1 DEF MemOK, AddrsKept, AdminKept, AddrOK, AdminOK
<1>8. todo = {} /\ file = {}
  BY <1>1 DEF IInv, Advance
<1>9. /\ "resolved" \in Phases \ {"read"} /\ "resolved" # "dedup"
      /\ "resolved" \notin {"written", "loaded"}
  BY DEF Phases
<1> QED
  BY <1>1, <1>7, <1>8, <1>9, AdvancedOK

\* Deduplicated lists are still lists of ids.
LEMMA DeduplicateCellMap ==
    ASSUME NEW map, IsCellMap(map)
    PROVE  IsCellMap(Deduplicate(map))
BY DeduplicateIs DEF IsCellMap

\* deduplicate keeps the ids of every cell and makes its list ascending.
LEMMA DeduplicateAddrs ==
    ASSUME NEW points, NEW map, IsCellMap(map), AddrsIndexed(points, map)
    PROVE  AddrsIndexed(points, Deduplicate(map)) /\ Deduplicated(Deduplicate(map))
<1>1. /\ DOMAIN Deduplicate(map) = DOMAIN map
      /\ \A c \in DOMAIN map : /\ ToSet(Deduplicate(map)[c]) = ToSet(map[c])
                               /\ Deduplicate(map)[c] = Ascending(ToSet(map[c]))
  BY DeduplicateIs DEF IsCellMap
<1> QED
  BY <1>1 DEF AddrsIndexed, Deduplicated

\* deduplicate keeps the polygons that the admin cells name.
LEMMA DeduplicateAdmins ==
    ASSUME NEW n, NEW map, AdminsIndexed(n, map)
    PROVE  AdminsIndexed(n, Deduplicate(map))
<1>1. /\ DOMAIN Deduplicate(map) = DOMAIN map
      /\ Deduplicate(map) \in [DOMAIN map -> Seq(Nat)]
      /\ \A c \in DOMAIN map : ToSet(Deduplicate(map)[c]) = ToSet(map[c])
  BY DeduplicateIs DEF AdminsIndexed
<1> QED
  BY <1>1 DEF AdminsIndexed

\* deduplicate adds no id.
LEMMA DeduplicateBelow ==
    ASSUME NEW n, NEW map, IsCellMap(map), IdsBelow(n, map)
    PROVE  IdsBelow(n, Deduplicate(map))
<1>1. /\ DOMAIN Deduplicate(map) = DOMAIN map
      /\ \A c \in DOMAIN map : ToSet(Deduplicate(map)[c]) = ToSet(map[c])
  BY DeduplicateIs DEF IsCellMap
<1> QED
  BY <1>1 DEF IdsBelow

\* deduplicate keeps the invariant.
LEMMA DeduplicateAllOK ==
    ASSUME IInv, DeduplicateAll, UNCHANGED answer
    PROVE  IInv'
<1> DEFINE ways == Deduplicate(mem.cell_to_ways)
           addrs == Deduplicate(mem.cell_to_addrs)
           interps == Deduplicate(mem.cell_to_interps)
           admin == Deduplicate(mem.cell_to_admin)
           places == Deduplicate(mem.cell_to_places)
<1>1. /\ Advance("resolved", "dedup")
      /\ mem' = [mem EXCEPT !.cell_to_ways = ways, !.cell_to_addrs = addrs,
                            !.cell_to_interps = interps, !.cell_to_admin = admin,
                            !.cell_to_places = places]
  BY DEF DeduplicateAll
<1>2. DOMAIN mem = MemFields /\ AddrOK(mem) /\ LinesOK(mem) /\ AdminOK(mem)
  BY DEF IInv, MemOK
<1>3. IsCellMap(ways) /\ IsCellMap(interps) /\ IsCellMap(addrs)
  BY <1>2, DeduplicateCellMap DEF AddrOK, LinesOK
<1>4. AddrsIndexed(mem.addr_points, addrs) /\ Deduplicated(addrs)
  BY <1>2, DeduplicateAddrs DEF AddrOK
<1>5. AdminsIndexed(Len(mem.admin_polygons), admin)
  BY <1>2, DeduplicateAdmins DEF AdminOK
<1>6. IdsBelow(Len(mem.interp_ways), interps)
  BY <1>2, DeduplicateBelow DEF LinesOK
<1> HIDE DEF ways, addrs, interps, admin, places
<1>7. /\ DOMAIN mem' = MemFields
      /\ mem'.cell_to_ways = ways /\ mem'.cell_to_addrs = addrs
      /\ mem'.cell_to_interps = interps /\ mem'.cell_to_admin = admin
      /\ mem'.addr_points = mem.addr_points /\ mem'.ways = mem.ways
      /\ mem'.interp_ways = mem.interp_ways /\ mem'.admin_polygons = mem.admin_polygons
      /\ mem'.pending_admin_holes = mem.pending_admin_holes
  BY <1>1, <1>2 DEF MemFields
<1>8. AddrOK(mem')
  BY <1>2, <1>3, <1>4, <1>7 DEF AddrOK
<1>9. LinesOK(mem')
  BY <1>2, <1>3, <1>6, <1>7 DEF LinesOK
<1>10. AdminOK(mem')
  BY <1>2, <1>5, <1>7 DEF AdminOK
<1>11. MemOK(mem')
  BY <1>7, <1>8, <1>9, <1>10 DEF MemOK
<1>12. todo = {} /\ file = {}
  BY <1>1 DEF IInv, Advance
<1>13. "dedup" \in Phases \ {"read"} /\ "dedup" \notin {"written", "loaded"}
  BY DEF Phases
<1>14. Deduplicated(mem'.cell_to_addrs) /\ ToSet(mem'.addr_points) = ToSet(mem.addr_points)
  BY <1>4, <1>7
<1> QED
  BY <1>1, <1>11, <1>12, <1>13, <1>14, AdvancedOK

\* sort_addr_points_by_cell keeps the invariant: points and lists are
\* renumbered alike.
LEMMA SortAddrPointsOK ==
    ASSUME IInv, SortAddrPoints, UNCHANGED answer
    PROVE  IInv'
<1> DEFINE points == PointsByCell(mem.addr_points, mem.cell_to_addrs)
           map == CellsByNewId(mem.cell_to_addrs)
<1>1. Advance("dedup", "sorted") /\ mem' = SortAddrPointsByCell(mem)
  BY DEF SortAddrPoints
<1>2. Remap(mem) = NewIds(mem.cell_to_addrs)
  BY DEF Remap, NewIds, AddrOrder
<1>3. mem' = [mem EXCEPT !.addr_points = points, !.cell_to_addrs = map]
  <2> DEFINE Points(z) == [i \in DOMAIN mem.addr_points |->
                 mem.addr_points[1 + CHOOSE old \in DOMAIN z : z[old] = i - 1]]
             Cells(z) == [c \in DOMAIN mem.cell_to_addrs |->
                 Ascending({z[id] : id \in ToSet(mem.cell_to_addrs[c])})]
             Result(z) == [mem EXCEPT !.addr_points = Points(z), !.cell_to_addrs = Cells(z)]
  <2>1. SortAddrPointsByCell(mem) = Result(Remap(mem))
    BY DEF SortAddrPointsByCell
  <2>2. Result(NewIds(mem.cell_to_addrs)) = [mem EXCEPT !.addr_points = points, !.cell_to_addrs = map]
    BY Zenon DEF PointsByCell, CellsByNewId
  <2> HIDE DEF Result
  <2>3. SortAddrPointsByCell(mem) = Result(NewIds(mem.cell_to_addrs))
    BY <1>2, <2>1
  <2> QED
    BY <1>1, <2>2, <2>3
<1>4. phase = "dedup" /\ todo = {} /\ file = {}
  BY <1>1 DEF Advance, IInv
<1>5. /\ DOMAIN mem = MemFields /\ AddrOK(mem) /\ LinesOK(mem) /\ AdminOK(mem)
      /\ Deduplicated(mem.cell_to_addrs)
  BY <1>4 DEF IInv, MemOK
<1>6. /\ IsSeq(points) /\ ToSet(points) = ToSet(mem.addr_points)
      /\ IsCellMap(map) /\ AddrsIndexed(points, map)
  BY <1>5, SortKeepsIndex DEF AddrOK, Deduplicated
<1> HIDE DEF points, map
<1>7. /\ DOMAIN mem' = MemFields /\ LinesKept(mem, mem') /\ AdminKept(mem, mem')
      /\ mem'.addr_points = points /\ mem'.cell_to_addrs = map
  BY <1>3, <1>5 DEF LinesKept, AdminKept, MemFields
<1>8. AddrOK(mem') /\ LinesOK(mem') /\ AdminOK(mem')
  BY <1>5, <1>6, <1>7 DEF AddrOK, LinesOK, AdminOK, LinesKept, AdminKept
<1>9. MemOK(mem') /\ ToSet(mem'.addr_points) = ToSet(mem.addr_points)
  BY <1>6, <1>7, <1>8 DEF MemOK
<1>10. "sorted" \in Phases \ {"read"} /\ "sorted" # "dedup" /\ "sorted" \notin {"written", "loaded"}
  BY DEF Phases
<1> QED
  BY <1>1, <1>4, <1>9, <1>10, AdvancedOK

\* Writing the files, or failing for an offset that does not fit, keeps the
\* invariant.
LEMMA WriteIndexOK ==
    ASSUME IInv, WriteIndex, UNCHANGED answer
    PROVE  IInv'
<1>1. \/ Advance("sorted", "written") /\ files' = Written(mem)
      \/ Advance("sorted", "failed")
  BY DEF WriteIndex
<1>2. mem' = mem
  BY DEF WriteIndex
<1>3. todo = {} /\ file = {}
  BY <1>1 DEF Advance, IInv
<1>4. MemOK(mem') /\ ToSet(mem'.addr_points) = ToSet(mem.addr_points)
  BY <1>2 DEF IInv
<1>5. /\ "written" \in Phases \ {"read"} /\ "failed" \in Phases \ {"read"}
      /\ "written" # "dedup" /\ "failed" # "dedup" /\ "failed" \notin {"written", "loaded"}
  BY DEF Phases
<1>6. CASE Advance("sorted", "written") /\ files' = Written(mem)
  <2>1. files' = Written(mem')
    BY <1>2, <1>6
  <2> QED
    BY <1>3, <1>4, <1>5, <1>6, <2>1, AdvancedOK
<1>7. CASE Advance("sorted", "failed")
  BY <1>3, <1>4, <1>5, <1>7, AdvancedOK
<1> QED
  BY <1>1, <1>6, <1>7

\* Loading the index changes nothing the invariant is about.
LEMMA LoadOK ==
    ASSUME IInv, Load
    PROVE  IInv'
<1>1. phase = "written" /\ phase' = "loaded" /\ UNCHANGED <<world, todo, file, mem, files, answer>>
  BY DEF Load
<1> QED
  BY <1>1 DEF IInv, Phases

\* Neither does a query.
LEMMA QueryOK ==
    ASSUME IInv, Query
    PROVE  IInv'
<1>1. UNCHANGED buildVars /\ answer'.asked \in BOOLEAN
  <2>1. PICK p \in Positions : answer' = Answered(p, QueryAndAdmin(p))
    BY DEF Query
  <2>2. answer'.asked = TRUE
    BY <2>1, Zenon DEF Answered
  <2> QED
    BY <2>2 DEF Query
<1> QED
  BY <1>1 DEF IInv, buildVars

\* The invariant holds when nothing has been read.
LEMMA InitOK ==
    ASSUME InitAll
    PROVE  IInv
<1>1. /\ world \in Worlds /\ todo = world /\ file = {} /\ mem = EmptyMem /\ phase = "read"
      /\ answer = NoAnswer
  BY DEF InitAll, Init
<1>2. DOMAIN EmptyMem = MemFields
  BY DEF EmptyMem, MemFields
<1>3. IsSeq(<<>>) /\ Len(<<>>) = 0 /\ ToSet(<<>>) = {} /\ DOMAIN <<>> = {}
  <2>1. <<>> \in Seq({}) /\ Len(<<>>) = 0
    OBVIOUS
  <2>2. IsSeq(<<>>)
    BY <2>1, SeqIsSeq
  <2> QED
    BY <2>1, <2>2 DEF ToSet
<1>4. IsCellMap(EmptyMap)
  <2>1. EmptyMap = <<>>
    BY DEF EmptyMap
  <2>2. IsFiniteSet({})
    BY FS_EmptySet
  <2>3. <<>> \in [{} -> Seq(Nat)]
    OBVIOUS
  <2> QED
    BY <1>3, <2>1, <2>2, <2>3 DEF IsCellMap
<1>5. AddrsIndexed(<<>>, EmptyMap)
  BY <1>3 DEF AddrsIndexed, EmptyMap
<1>6. AdminsIndexed(0, EmptyMap) /\ PendingExist(0, <<>>) /\ IdsBelow(0, EmptyMap)
  BY <1>3, <1>4 DEF AdminsIndexed, PendingExist, IsCellMap, EmptyMap, IdsBelow
<1>7. /\ EmptyMem.addr_points = <<>> /\ EmptyMem.cell_to_addrs = EmptyMap
      /\ EmptyMem.ways = <<>> /\ EmptyMem.cell_to_ways = EmptyMap
      /\ EmptyMem.interp_ways = <<>> /\ EmptyMem.cell_to_interps = EmptyMap
      /\ EmptyMem.admin_polygons = <<>> /\ EmptyMem.cell_to_admin = EmptyMap
      /\ EmptyMem.pending_admin_holes = <<>>
  BY DEF EmptyMem
<1>8. MemOK(mem)
  <2>1. \A i \in 1..Len(<<>>) : IsInterp(<<>>[i])
    BY <1>3
  <2> QED
    BY <1>1, <1>2, <1>3, <1>4, <1>5, <1>6, <1>7, <2>1 DEF MemOK, AddrOK, LinesOK, AdminOK
<1>9. ToSet(mem.addr_points) = AddrsOf(world \ (todo \cup file))
  <2>1. world \ (todo \cup file) = {}
    BY <1>1
  <2>2. AddrsOf({}) = {}
    BY AddrsOfMember
  <2> QED
    BY <1>1, <1>3, <1>7, <2>1, <2>2
<1>10. answer.asked \in BOOLEAN
  BY <1>1 DEF NoAnswer
<1> QED
  BY <1>1, <1>8, <1>9, <1>10 DEF IInv, Phases

\* Every step of the builder, the load and a query keep the invariant.
THEOREM Invariance == Spec => []IInv
<1>1. InitAll => IInv
  BY InitOK
<1>2. IInv /\ [Next]_vars => IInv'
  <2> SUFFICES ASSUME IInv, [Next]_vars PROVE IInv'
    OBVIOUS
  <2>1. CASE BuildNext /\ UNCHANGED <<side, answer>>
    <3>1. UNCHANGED answer
      BY <2>1
    <3>2. CASE OpenFile
      BY <3>1, <3>2, OpenFileOK
    <3>3. CASE HandleNode
      BY <3>1, <3>3, HandleNodeOK
    <3>4. CASE HandleWay
      BY <3>1, <3>4, HandleWayOK
    <3>5. CASE HandleArea
      BY <3>1, <3>5, HandleAreaOK
    <3>6. CASE FinalizeAdminHoles
      BY <3>1, <3>6, FinalizeAdminHolesOK
    <3>7. CASE ResolveInterpolation
      BY <3>1, <3>7, ResolveInterpolationOK
    <3>8. CASE DeduplicateAll
      BY <3>1, <3>8, DeduplicateAllOK
    <3>9. CASE SortAddrPoints
      BY <3>1, <3>9, SortAddrPointsOK
    <3>10. CASE WriteIndex
      BY <3>1, <3>10, WriteIndexOK
    <3> QED
      BY <2>1, <3>2, <3>3, <3>4, <3>5, <3>6, <3>7, <3>8, <3>9, <3>10 DEF BuildNext
  <2>2. CASE Load
    BY <2>2, LoadOK
  <2>3. CASE Query
    BY <2>3, QueryOK
  <2>4. CASE UNCHANGED vars
    BY <2>4 DEF IInv, vars, buildVars
  <2> QED
    BY <2>1, <2>2, <2>3, <2>4 DEF Next
<1> QED
  BY <1>1, <1>2, PTL DEF Spec

\* Addresses have positions.
LEMMA AddrPositions ==
    ASSUME IInv, NEW a \in WorldAddrs
    PROVE  a.pos \in Int
<1>1. PICK x \in world : IsAddrOf(a, x)
  BY WorldAddrsIs, AddrsOfMember
<1>2. x.kind = "node" => x.pos \in Int
  BY WorldsAssumption DEF IInv
<1>3. x.kind = "way" => Centroid(x.nodes) \in Int
  BY WorldsAssumption, CentroidType DEF IInv
<1>4. CASE x.kind = "node" /\ a = AddressOf(x.pos, x.addr)
  BY <1>2, <1>4 DEF AddressOf
<1>5. CASE x.kind = "way" /\ a = AddressOf(Centroid(x.nodes), x.addr)
  BY <1>3, <1>5 DEF AddressOf
<1> QED
  BY <1>1, <1>4, <1>5 DEF IsAddrOf

\* The ids read in a cell are those of the given addresses there, up to the cap.
CellRead(points, all, ids, c) ==
    LET here == {b \in all : StreetCell(b.pos) = c}
        read == {At(points, ids[i]) : i \in DOMAIN ids}
    IN  /\ \A i \in DOMAIN ids : ids[i] < Len(points)
        /\ read \subseteq here
        /\ Len(ids) <= CountCap
        /\ Len(ids) < CountCap => read = here

\* What ReadBack gives for the cell of an address are the points of that cell,
\* up to the cap.
LEMMA CellReadsBack ==
    ASSUME NEW points, IsSeq(points), NEW map, IsCellMap(map), AddrsIndexed(points, map),
           NEW a \in ToSet(points), NEW c, c = StreetCell(a.pos), NEW ids, ids = ReadBack(map, c)
    PROVE  CellRead(points, ToSet(points), ids, c)
<1> DEFINE l == map[c]
           n == Counted(l)
           N == Len(points)
           here == {b \in ToSet(points) : StreetCell(b.pos) = c}
           read == {At(points, ids[i]) : i \in DOMAIN ids}
<1>1. N \in Nat /\ DOMAIN points = 1..N
  BY DEF IsSeq
<1>2. \A b : b \in ToSet(points) <=> \E k \in 1..N : b = points[k]
  BY <1>1 DEF ToSet
<1>3. \A k \in 1..N : k - 1 \in 0..N - 1 /\ (k - 1) + 1 = k
  BY <1>1
<1>4. c \in DOMAIN map
  <2>1. PICK k \in 1..N : a = points[k]
    BY <1>2
  <2>2. PICK i \in 0..N - 1 : i + 1 = k
    BY <1>3
  <2> QED
    BY <2>1, <2>2 DEF AddrsIndexed
<1>5. l \in Seq(Nat) /\ ToSet(l) = IdsIn(points, c)
  BY <1>4 DEF AddrsIndexed, IsCellMap
<1>6. ids = [i \in 1..n |-> l[i]]
  BY <1>4 DEF ReadBack
<1>7. Len(l) \in Nat /\ n \in 0..Len(l) /\ n <= CountCap
  BY <1>5, CountedType
<1>8. n < CountCap => n = Len(l)
  <2>1. CountCap \in Nat
    BY CapsAssumption
  <2>2. n = IF Len(l) <= CountCap THEN Len(l) ELSE CountCap
    BY <1>7, <2>1, MinOfTwo DEF Counted
  <2> QED
    BY <1>7, <2>1, <2>2
<1>9. \A v : v \in ToSet(l) <=> \E j \in 1..Len(l) : v = l[j]
  BY <1>5 DEF ToSet
<1> HIDE DEF l, n, N
<1>10. Len(ids) = n /\ DOMAIN ids = 1..n
  BY <1>6, <1>7
<1>11. ASSUME NEW i \in DOMAIN ids
       PROVE  ids[i] \in 0..N - 1 /\ At(points, ids[i]) \in here
  <2>1. i \in 1..Len(l) /\ ids[i] = l[i]
    BY <1>6, <1>7, <1>10
  <2>2. ids[i] \in IdsIn(points, c)
    BY <1>5, <1>9, <2>1
  <2>3. ids[i] \in 0..N - 1 /\ StreetCell(points[ids[i] + 1].pos) = c
    BY <2>2 DEF IdsIn, N
  <2>4. ids[i] + 1 \in 1..N
    BY <1>1, <2>3
  <2>5. points[ids[i] + 1] \in ToSet(points)
    BY <1>2, <2>4
  <2> QED
    BY <2>3, <2>5 DEF At
<1>12. ASSUME n < CountCap, NEW b \in here PROVE b \in read
  <2>1. PICK k \in 1..N : b = points[k]
    BY <1>2
  <2>2. PICK v \in 0..N - 1 : v + 1 = k
    BY <1>3
  <2>3. v \in IdsIn(points, c)
    BY <2>1, <2>2 DEF IdsIn, N
  <2>4. PICK j \in 1..Len(l) : v = l[j]
    BY <1>5, <1>9, <2>3
  <2>5. j \in DOMAIN ids /\ ids[j] = v
    BY <1>6, <1>8, <1>10, <1>12, <2>4
  <2>6. At(points, ids[j]) = b
    BY <2>1, <2>2, <2>5 DEF At
  <2> QED
    BY <2>5, <2>6
<1>13. \A i \in DOMAIN ids : ids[i] < Len(points)
  BY <1>1, <1>11 DEF N
<1>14. read \subseteq here
  BY <1>11
<1>15. n < CountCap => read = here
  <2> HIDE DEF here, read
  <2> QED
    BY <1>12, <1>14
<1>16. Len(ids) <= CountCap /\ (Len(ids) < CountCap => read = here)
  BY <1>7, <1>10, <1>15
<1> HIDE DEF here, read
<1>17. /\ \A i \in DOMAIN ids : ids[i] < Len(points)
       /\ read \subseteq here
       /\ Len(ids) <= CountCap
       /\ Len(ids) < CountCap => read = here
  BY <1>13, <1>14, <1>16
<1> QED
  BY <1>17, Zenon DEF CellRead, here, read

\* What a reader of the written files finds in a cell is what was imported there,
\* and every id is one of its array: for any input, read in any number of files,
\* in any order of handling, and for any caps (FilesReadBack).
THEOREM FilesReadBackHolds == Spec => []FilesReadBack
<1>1. IInv => FilesReadBack
  <2> SUFFICES ASSUME IInv PROVE FilesReadBack
    OBVIOUS
  <2>1. MemOK(mem) /\ AddrOK(mem) /\ LinesOK(mem) /\ AdminOK(mem)
    BY DEF IInv, MemOK
  <2>2. TypeOK
    <3>1. phase \in {"read", "holes", "resolved", "dedup", "sorted", "written", "loaded", "failed"}
          /\ todo \subseteq world /\ file \subseteq world /\ answer.asked \in BOOLEAN
      BY DEF IInv, Phases
    <3>2. \A c \in DOMAIN mem.cell_to_addrs :
              ToSet(mem.cell_to_addrs[c]) \subseteq 0..Len(mem.addr_points) - 1
      BY <2>1 DEF AddrOK, AddrsIndexed, IdsIn
    <3>3. \A c \in DOMAIN mem.cell_to_admin :
              {id % INTERIOR_FLAG : id \in ToSet(mem.cell_to_admin[c])}
                  \subseteq 0..Len(mem.admin_polygons) - 1
      BY <2>1 DEF AdminOK, AdminsIndexed
    <3> QED
      BY <3>1, <3>2, <3>3 DEF TypeOK
  <2>3. ASSUME phase \in {"written", "loaded"}, NEW a \in WorldAddrs, NEW c, c = StreetCell(a.pos)
        PROVE  CellRead(files.addr_points, WorldAddrs, AddrIds(c), c)
    <3> DEFINE points == mem.addr_points
               map == mem.cell_to_addrs
               ids == AddrIds(c)
    <3>1. /\ files.addr_entries = EntriesFile(map)
          /\ files.geo_cells = GeoCells(mem.cell_to_ways, map, mem.cell_to_interps)
          /\ files.addr_points = points
      BY <2>3 DEF IInv, Written
    <3>2. /\ IsSeq(points) /\ IsCellMap(map) /\ AddrsIndexed(points, map)
          /\ IsCellMap(mem.cell_to_ways) /\ IsCellMap(mem.cell_to_interps)
      BY <2>1 DEF AddrOK, LinesOK
    <3>3. c \in Int
      BY <2>3, AddrPositions, StreetCellType
    <3>4. WorldAddrs = ToSet(points)
      <4>1. world \ (todo \cup file) = world
        BY <2>3 DEF IInv
      <4>2. ToSet(points) = AddrsOf(world)
        BY <4>1 DEF IInv
      <4> QED
        BY <4>2, WorldAddrsIs
    <3>5. ids = ReadBack(map, c)
      <4>1. ForEachEntry(EntriesFile(map),
                LookupGeoCell(GeoCells(mem.cell_to_ways, map, mem.cell_to_interps), c).addr)
            = ReadBack(map, c)
        BY <3>2, <3>3, GeoCellsReadBack
      <4> QED
        BY <3>1, <4>1 DEF AddrIds
    <3> HIDE DEF points, map, ids
    <3>6. CellRead(points, ToSet(points), ids, c)
      <4>1. a \in ToSet(points) /\ c = StreetCell(a.pos)
        BY <2>3, <3>4
      <4> QED
        BY <3>2, <3>5, <4>1, CellReadsBack
    <3> QED
      BY <3>1, <3>4, <3>6 DEF ids
  <2>4. CellsReadBack
    <3> SUFFICES ASSUME phase \in {"written", "loaded"},
                        NEW c \in {StreetCell(a.pos) : a \in WorldAddrs}
                 PROVE  CellRead(files.addr_points, WorldAddrs, AddrIds(c), c)
      BY Zenon DEF CellsReadBack, CellRead
    <3>1. PICK a \in WorldAddrs : c = StreetCell(a.pos)
      OBVIOUS
    <3> QED
      BY <2>3, <3>1
  <2> QED
    BY <2>2, <2>4 DEF FilesReadBack
<1> QED
  BY <1>1, Invariance, PTL

-----------------------------------------------------------------------------
(* The answer: what a scan of cells meets, the nearest of it, the areas and
   the ladder that decides, up to AddressIsRight.                            *)

\* A set of numbers that is not empty has its Min.
LEMMA MinExists ==
    ASSUME NEW S, S \subseteq Nat, S # {}
    PROVE  Min(S) \in S /\ \A y \in S : Min(S) <= y
<1>1. \E x \in S : \A y \in S : x <= y
  BY NatLeast
<1> QED
  BY <1>1, Zenon DEF Min

\* The distance of two positions.
LEMMA DistIs ==
    ASSUME NEW a \in Int, NEW b \in Int
    PROVE  Dist(a, b) \in Nat /\ Dist(a, b) = IF a <= b THEN b - a ELSE a - b
<1>1. Min({a, b}) = IF a <= b THEN a ELSE b
  BY MinOfTwo
<1>2. Max({a, b}) = IF a <= b THEN b ELSE a
  BY DEF Max
<1> QED
  BY <1>1, <1>2 DEF Dist

\* The first of the least of finitely many numbers exists.
LEMMA FirstLeast ==
    ASSUME NEW n \in Nat, n # 0, NEW keys, NEW f, f \in [1..n -> Nat],
           keys = {f[i] : i \in 1..n}, NEW at, at = {i \in 1..n : f[i] = Min(keys)}
    PROVE  Min(at) \in 1..n /\ \A i \in 1..n : f[Min(at)] <= f[i]
<1>1. keys \subseteq Nat /\ keys # {}
  <2>1. f[1] \in keys
    OBVIOUS
  <2> QED
    BY <2>1
<1>2. Min(keys) \in keys /\ \A y \in keys : Min(keys) <= y
  BY <1>1, MinExists
<1>3. at # {} /\ at \subseteq Nat
  BY <1>2
<1>4. Min(at) \in at
  BY <1>3, MinExists
<1> QED
  BY <1>2, <1>4

\* query_geo and find_nearest keep a candidate that none is nearer than.
LEMMA NearestIs ==
    ASSUME NEW p \in Int, NEW n \in Nat, NEW points, DOMAIN points = 1..n, IsSeq(points),
           \A i \in 1..n : points[i].pos \in Int
    PROVE  /\ n = 0 => Nearest(p, points) = <<>>
           /\ n # 0 => \E k \in 1..n :
                  /\ Nearest(p, points) = <<points[k]>>
                  /\ \A i \in 1..n : Dist(p, points[k].pos) <= Dist(p, points[i].pos)
<1>1. Len(points) = n /\ (n = 0 <=> points = <<>>)
  BY DEF IsSeq
<1>2. CASE n = 0
  BY <1>1, <1>2 DEF Nearest, First
<1>3. CASE n # 0
  <2> DEFINE f == [i \in 1..n |-> Dist(p, points[i].pos)]
             keys == {Dist(p, points[i].pos) : i \in DOMAIN points}
             at == {i \in DOMAIN points : Dist(p, points[i].pos) = Min(keys)}
             k == Min(at)
  <2>1. Nearest(p, points) = <<points[k]>>
    BY <1>1, <1>3 DEF Nearest, First, FirstMin
  <2>2. f \in [1..n -> Nat]
    BY DistIs
  <2>3. keys = {f[i] : i \in 1..n}
    OBVIOUS
  <2>4. at = {i \in 1..n : f[i] = Min(keys)}
    OBVIOUS
  <2>5. \A i \in 1..n : f[i] = Dist(p, points[i].pos)
    OBVIOUS
  <2> HIDE DEF f, keys, at
  <2>6. k \in 1..n /\ \A i \in 1..n : f[k] <= f[i]
    BY <1>3, <2>2, <2>3, <2>4, FirstLeast
  <2> QED
    BY <1>3, <2>1, <2>5, <2>6
<1> QED
  BY <1>2, <1>3

\* Positions at most one cell's width apart are in the same cell or in two that
\* are next to each other.
LEMMA ReachedCell ==
    ASSUME NEW p \in Int, NEW q \in Int, Dist(p, q) <= StreetWidth
    PROVE  StreetCell(q) \in {StreetCell(p), StreetCell(p) - 1, StreetCell(p) + 1}
<1> DEFINE W == StreetWidth
<1>1. W \in Nat /\ W > 0
  BY WidthsAssumption
<1>2. p - q <= W /\ q - p <= W
  <2>1. Dist(p, q) = IF p <= q THEN q - p ELSE p - q
    BY DistIs
  <2> QED
    BY <1>1, <2>1
<1> HIDE DEF W
<1>3. PICK c \in Int : c = p \div W
  BY <1>1
<1>4. PICK d \in Int : d = q \div W
  BY <1>1
<1>5. p - W * c \in 0..W - 1
  BY <1>1, <1>3
<1>6. q - W * d \in 0..W - 1
  BY <1>1, <1>4
<1>7. d - c <= 1
  <2> SUFFICES ASSUME d - c >= 2 PROVE FALSE
    BY <1>3, <1>4
  <2>1. W * (d - c) >= W * 2
    BY <1>1
  <2>2. W * d - W * c = W * (d - c)
    BY <1>1
  <2>3. PICK x \in Int : x = W * d
    BY <1>1
  <2>4. PICK y \in Int : y = W * c
    BY <1>1
  <2>5. x - y >= W * 2
    BY <1>1, <2>1, <2>2, <2>3, <2>4
  <2> QED
    BY <1>1, <1>2, <1>5, <1>6, <2>3, <2>4, <2>5
<1>8. c - d <= 1
  <2> SUFFICES ASSUME c - d >= 2 PROVE FALSE
    BY <1>3, <1>4
  <2>1. W * (c - d) >= W * 2
    BY <1>1
  <2>2. W * c - W * d = W * (c - d)
    BY <1>1
  <2>3. PICK x \in Int : x = W * d
    BY <1>1
  <2>4. PICK y \in Int : y = W * c
    BY <1>1
  <2>5. y - x >= W * 2
    BY <1>1, <2>1, <2>2, <2>3, <2>4
  <2> QED
    BY <1>1, <1>2, <1>5, <1>6, <2>3, <2>4, <2>5
<1>9. d = c \/ d = c - 1 \/ d = c + 1
  BY <1>3, <1>4, <1>7, <1>8
<1> QED
  BY <1>3, <1>4, <1>9 DEF StreetCell, W

\* Lists one after the other hold what each of them holds.
LEMMA FlattenHolds ==
    ASSUME NEW T, NEW s \in Seq(Seq(T))
    PROVE  /\ FlattenSeq(s) \in Seq(T)
           /\ \A x \in 1..Len(FlattenSeq(s)) :
                  \E k \in 1..Len(s) : \E j \in 1..Len(s[k]) : FlattenSeq(s)[x] = s[k][j]
           /\ \A k \in 1..Len(s) : \A j \in 1..Len(s[k]) :
                  \E x \in 1..Len(FlattenSeq(s)) : FlattenSeq(s)[x] = s[k][j]
<1> DEFINE n == Len(s)
<1>1. PICK g : ArePrefixes(g, s, T)
  BY PrefixesExist
<1>2. n \in Nat /\ n \in 0..Len(s) /\ s = [i \in 1..n |-> s[i]]
  OBVIOUS
<1> HIDE DEF n
<1>3. FlattenSeq([i \in 1..n |-> s[i]]) = g[n]
  BY <1>1, <1>2, FlattenIs, ZenonT(40)
<1>4. FlattenSeq(s) = g[n]
  BY <1>2, <1>3
<1>5. g[n] \in Seq(T) /\ Len(g[n]) \in Nat
  BY <1>1, <1>2 DEF ArePrefixes
<1>6. \A k \in 1..n : /\ Len(g[k - 1]) \in Nat /\ Len(s[k]) \in Nat
                      /\ Len(g[k - 1]) + Len(s[k]) <= Len(g[n])
                      /\ StandsAt(g[n], Len(g[k - 1]), s[k])
  <2> SUFFICES ASSUME NEW k \in 1..n
               PROVE  /\ Len(g[k - 1]) \in Nat /\ Len(s[k]) \in Nat
                      /\ Len(g[k - 1]) + Len(s[k]) <= Len(g[n])
                      /\ StandsAt(g[n], Len(g[k - 1]), s[k])
    OBVIOUS
  <2>1. k \in 1..Len(s) /\ k <= n
    BY <1>2 DEF n
  <2> QED
    BY <1>1, <1>2, <2>1, PrefixAt
<1>7. ASSUME NEW x \in 1..Len(g[n])
      PROVE  \E k \in 1..n : \E j \in 1..Len(s[k]) : g[n][x] = s[k][j]
  <2>1. PICK k \in 1..n : WithinPart(x, Len(g[k - 1]), s[k])
    BY <1>1, <1>2, PrefixWhere
  <2>2. PICK j \in 1..Len(s[k]) : x = Len(g[k - 1]) + j
    BY <2>1 DEF WithinPart
  <2>3. g[n][x] = s[k][j]
    BY <1>6, <2>2 DEF StandsAt
  <2> QED
    BY <2>3
<1>8. ASSUME NEW k \in 1..n, NEW j \in 1..Len(s[k])
      PROVE  \E x \in 1..Len(g[n]) : g[n][x] = s[k][j]
  <2>1. PICK o \in Nat : o = Len(g[k - 1])
    BY <1>6
  <2>2. g[n][o + j] = s[k][j] /\ o + Len(s[k]) <= Len(g[n]) /\ Len(s[k]) \in Nat
    BY <1>6, <2>1 DEF StandsAt
  <2>3. o + j \in 1..Len(g[n])
    BY <1>5, <2>2
  <2> QED
    BY <2>2, <2>3
<1> DEFINE F == FlattenSeq(s)
<1>9. F = g[n]
  BY <1>4
<1> HIDE DEF F
<1>10. /\ F \in Seq(T)
       /\ \A x \in 1..Len(F) : \E k \in 1..n : \E j \in 1..Len(s[k]) : F[x] = s[k][j]
       /\ \A k \in 1..n : \A j \in 1..Len(s[k]) : \E x \in 1..Len(F) : F[x] = s[k][j]
  BY <1>5, <1>7, <1>8, <1>9
<1> QED
  BY <1>10 DEF F, n

\* What is read in a cell are ids of its list, and all of them unless the count
\* is capped.
LEMMA ReadBackHas ==
    ASSUME NEW n \in Nat, NEW map, IsCellMap(map), IdsBelow(n, map), NEW c
    PROVE  /\ ReadBack(map, c) \in Seq(0..n - 1)
           /\ (c \in DOMAIN map /\ Len(map[c]) <= CountCap) => ReadBack(map, c) = map[c]
<1>1. CASE c \notin DOMAIN map
  BY <1>1 DEF ReadBack
<1>2. CASE c \in DOMAIN map
  <2> DEFINE l == map[c]
             k == Counted(l)
  <2>1. l \in Seq(Nat) /\ ReadBack(map, c) = [i \in 1..k |-> l[i]]
    BY <1>2 DEF IsCellMap, ReadBack
  <2>2. Len(l) \in Nat /\ k \in 0..Len(l)
    BY <2>1, CountedType
  <2>3. \A i \in 1..Len(l) : l[i] \in 0..n - 1
    BY <1>2, <2>1 DEF IdsBelow, ToSet
  <2>4. CountCap \in Nat
    BY CapsAssumption
  <2>5. Len(l) <= CountCap => k = Len(l)
    BY <2>2, <2>4, MinOfTwo DEF Counted
  <2> HIDE DEF l, k
  <2>6. [i \in 1..k |-> l[i]] \in Seq(0..n - 1)
    BY <2>2, <2>3
  <2>7. k = Len(l) => [i \in 1..k |-> l[i]] = l
    BY <2>1
  <2> QED
    BY <2>1, <2>5, <2>6, <2>7 DEF l
<1> QED
  BY <1>1, <1>2

\* Fetching ids of an array gives elements of the array.
LEMMA FetchIs ==
    ASSUME NEW array, IsSeq(array), NEW n \in Nat, Len(array) = n, NEW ids \in Seq(0..n - 1)
    PROVE  /\ Len(ids) \in Nat /\ DOMAIN Fetch(array, ids) = 1..Len(ids)
           /\ IsSeq(Fetch(array, ids))
           /\ \A i \in 1..Len(ids) : /\ ids[i] + 1 \in 1..n
                                     /\ Fetch(array, ids)[i] = array[ids[i] + 1]
                                     /\ Fetch(array, ids)[i] \in ToSet(array)
<1> DEFINE f == Fetch(array, ids)
<1>1. Len(ids) \in Nat /\ DOMAIN ids = 1..Len(ids) /\ \A i \in 1..Len(ids) : ids[i] \in 0..n - 1
  OBVIOUS
<1>2. f = [i \in 1..Len(ids) |-> array[ids[i] + 1]]
  BY <1>1 DEF Fetch, At
<1>3. IsSeq(f)
  <2>1. f = [i \in 1..Len(ids) |-> f[i]]
    BY <1>2
  <2> HIDE DEF f
  <2> QED
    BY <1>1, <2>1, FunIsSeq
<1>4. DOMAIN array = 1..n
  BY DEF IsSeq
<1> HIDE DEF f
<1>5. \A i \in 1..Len(ids) : ids[i] + 1 \in 1..n /\ f[i] = array[ids[i] + 1]
  BY <1>1, <1>2
<1>6. \A i \in 1..Len(ids) : f[i] \in ToSet(array)
  BY <1>4, <1>5 DEF ToSet
<1> QED
  BY <1>1, <1>2, <1>3, <1>5, <1>6 DEF f

\* The three cells of a scan.
Near(c) == {c, c - 1, c + 1}

\* The lists f of the cells of a scan, one after the other.
ScanOf(c, f) == FlattenSeq([i \in DOMAIN Neighbourhood(c) |-> f[Neighbourhood(c)[i]]])

\* A scan meets the ids of its three cells.
LEMMA ScanHolds ==
    ASSUME NEW T, NEW c \in Int, NEW f, \A d \in Near(c) : f[d] \in Seq(T),
           NEW scan, scan = ScanOf(c, f)
    PROVE  /\ scan \in Seq(T)
           /\ \A d \in Near(c) : \A j \in 1..Len(f[d]) : \E x \in 1..Len(scan) : scan[x] = f[d][j]
<1> DEFINE cells == Neighbourhood(c)
           s == [i \in DOMAIN cells |-> f[cells[i]]]
<1>1. /\ DOMAIN cells = 1..3 /\ \A i \in 1..3 : cells[i] \in Near(c)
      /\ \A d \in Near(c) : \E i \in 1..3 : cells[i] = d
  BY DEF Neighbourhood, Near
<1> HIDE DEF cells
<1>2. s \in Seq(Seq(T)) /\ Len(s) = 3 /\ \A i \in 1..3 : s[i] = f[cells[i]]
  BY <1>1
<1>3. scan = FlattenSeq(s)
  BY DEF cells, ScanOf
<1> HIDE DEF s
<1>4. /\ scan \in Seq(T)
      /\ \A k \in 1..3 : \A j \in 1..Len(s[k]) : \E x \in 1..Len(scan) : scan[x] = s[k][j]
  <2>1. s \in Seq(Seq(T))
    BY <1>2
  <2> DEFINE F == FlattenSeq(s)
  <2>2. F \in Seq(T) /\ \A k \in 1..Len(s) : \A j \in 1..Len(s[k]) :
               \E x \in 1..Len(F) : F[x] = s[k][j]
    BY <2>1, FlattenHolds
  <2>3. scan = F
    BY <1>3
  <2> HIDE DEF F
  <2>4. Len(s) = 3
    BY <1>2
  <2>5. scan \in Seq(T)
    BY <2>2, <2>3
  <2>6. ASSUME NEW k \in 1..3, NEW j \in 1..Len(s[k])
        PROVE  \E x \in 1..Len(scan) : scan[x] = s[k][j]
    <3>1. k \in 1..Len(s)
      BY <2>4
    <3>2. \E x \in 1..Len(F) : F[x] = s[k][j]
      BY <2>2, <3>1
    <3> QED
      BY <2>3, <3>2
  <2> QED
    BY <2>5, <2>6
<1>5. ASSUME NEW d \in Near(c), NEW j \in 1..Len(f[d])
      PROVE  \E x \in 1..Len(scan) : scan[x] = f[d][j]
  <2>1. PICK k \in 1..3 : cells[k] = d
    BY <1>1
  <2>2. s[k] = f[d]
    BY <1>2, <2>1
  <2> QED
    BY <1>4, <2>2, SMTT(30)
<1> QED
  BY <1>4, <1>5

\* What a query reads in a cell of the address layer and of the interpolation
\* layer is what the builder listed there, up to the cap.
LEMMA IdsRead ==
    ASSUME IInv, phase \in {"written", "loaded"}, NEW c \in Int
    PROVE  /\ AddrIds(c) = ReadBack(mem.cell_to_addrs, c)
           /\ InterpIds(c) = ReadBack(mem.cell_to_interps, c)
<1>1. /\ files.addr_entries = EntriesFile(mem.cell_to_addrs)
      /\ files.interp_entries = EntriesFile(mem.cell_to_interps)
      /\ files.geo_cells = GeoCells(mem.cell_to_ways, mem.cell_to_addrs, mem.cell_to_interps)
  BY DEF IInv, Written
<1>2. /\ IsCellMap(mem.cell_to_addrs) /\ IsCellMap(mem.cell_to_ways)
      /\ IsCellMap(mem.cell_to_interps)
  BY DEF IInv, MemOK, AddrOK, LinesOK
<1> DEFINE found == LookupGeoCell(GeoCells(mem.cell_to_ways, mem.cell_to_addrs, mem.cell_to_interps), c)
<1>3. /\ ForEachEntry(EntriesFile(mem.cell_to_addrs), found.addr) = ReadBack(mem.cell_to_addrs, c)
      /\ ForEachEntry(EntriesFile(mem.cell_to_interps), found.interp) = ReadBack(mem.cell_to_interps, c)
  BY <1>2, GeoCellsReadBack
<1> QED
  BY <1>1, <1>3 DEF AddrIds, InterpIds

\* The address points that the written index lists are the addresses of the
\* input, each in the cell of its position.
LEMMA AddrListed ==
    ASSUME IInv, phase = "loaded"
    PROVE  /\ files.addr_points = mem.addr_points /\ IsSeq(mem.addr_points)
           /\ Len(mem.addr_points) \in Nat
           /\ ToSet(mem.addr_points) = WorldAddrs
           /\ \A b \in WorldAddrs : \E k \in 0..Len(mem.addr_points) - 1 :
                  /\ mem.addr_points[k + 1] = b
                  /\ StreetCell(b.pos) \in DOMAIN mem.cell_to_addrs
                  /\ k \in ToSet(mem.cell_to_addrs[StreetCell(b.pos)])
<1> DEFINE points == mem.addr_points
           map == mem.cell_to_addrs
           n == Len(points)
<1>1. files.addr_points = points
  BY DEF IInv, Written
<1>2. IsSeq(points) /\ IsCellMap(map) /\ AddrsIndexed(points, map)
  BY DEF IInv, MemOK, AddrOK
<1>3. n \in Nat /\ DOMAIN points = 1..n
  BY <1>2 DEF IsSeq
<1>4. ToSet(points) = WorldAddrs
  <2>1. world \ (todo \cup file) = world
    BY DEF IInv
  <2>2. ToSet(points) = AddrsOf(world)
    BY <2>1 DEF IInv
  <2> QED
    BY <2>2, WorldAddrsIs
<1>5. ASSUME NEW b \in WorldAddrs
      PROVE  \E k \in 0..n - 1 : /\ points[k + 1] = b /\ StreetCell(b.pos) \in DOMAIN map
                                 /\ k \in ToSet(map[StreetCell(b.pos)])
  <2>1. PICK x \in 1..n : points[x] = b
    BY <1>3, <1>4 DEF ToSet
  <2>2. PICK k \in 0..n - 1 : k = x - 1
    BY <1>3
  <2>3. k + 1 = x
    BY <1>3, <2>2
  <2>4. StreetCell(b.pos) \in DOMAIN map
    BY <1>2, <2>1, <2>3 DEF AddrsIndexed
  <2>5. k \in IdsIn(points, StreetCell(b.pos))
    BY <2>1, <2>3 DEF IdsIn
  <2>6. ToSet(map[StreetCell(b.pos)]) = IdsIn(points, StreetCell(b.pos))
    BY <1>2, <2>4 DEF AddrsIndexed
  <2> QED
    BY <2>1, <2>3, <2>4, <2>5, <2>6
<1> QED
  BY <1>1, <1>2, <1>3, <1>4, <1>5

\* The ids that a scan of the address layer meets.
LEMMA AddrScan ==
    ASSUME IInv, phase = "loaded", NEW c \in Int, NEW ids, ids = ScanCells(c, AddrIds)
    PROVE  /\ ids \in Seq(0..Len(mem.addr_points) - 1)
           /\ WithinCaps => \A d \in Near(c) \cap DOMAIN mem.cell_to_addrs :
                  \A id \in ToSet(mem.cell_to_addrs[d]) : \E x \in 1..Len(ids) : ids[x] = id
<1> DEFINE map == mem.cell_to_addrs
           n == Len(mem.addr_points)
           f == [d \in Near(c) |-> AddrIds(d)]
           cells == Neighbourhood(c)
<1>1. IsCellMap(map) /\ IdsBelow(n, map) /\ n \in Nat
  BY AddrListed DEF IInv, MemOK, AddrOK, AddrsIndexed, IdsIn, IdsBelow
<1>2. /\ \A d \in Near(c) : d \in Int /\ f[d] = ReadBack(map, d)
      /\ \A i \in DOMAIN cells : cells[i] \in Near(c)
  <2>1. \A d \in Near(c) : d \in Int
    BY DEF Near
  <2>2. \A d \in Near(c) : f[d] = AddrIds(d)
    OBVIOUS
  <2>3. \A d \in Near(c) : AddrIds(d) = ReadBack(map, d)
    BY <2>1, IdsRead
  <2>4. \A i \in DOMAIN cells : cells[i] \in Near(c)
    BY DEF Near, Neighbourhood
  <2> QED
    BY <2>1, <2>2, <2>3, <2>4
<1>3. ids = ScanOf(c, f)
  <2>1. [i \in DOMAIN cells |-> AddrIds(cells[i])] = [i \in DOMAIN cells |-> f[cells[i]]]
    BY <1>2
  <2>2. ids = FlattenSeq([i \in DOMAIN cells |-> AddrIds(cells[i])])
    BY DEF ScanCells
  <2> QED
    BY <2>1, <2>2 DEF ScanOf
<1> HIDE DEF f, cells, map, n
<1>4. \A d \in Near(c) : f[d] \in Seq(0..n - 1)
  BY <1>1, <1>2, ReadBackHas
<1>5. /\ ids \in Seq(0..n - 1)
      /\ \A d \in Near(c) : \A j \in 1..Len(f[d]) : \E x \in 1..Len(ids) : ids[x] = f[d][j]
  BY <1>3, <1>4, ScanHolds
<1>6. ASSUME WithinCaps, NEW d \in Near(c), d \in DOMAIN map, NEW id \in ToSet(map[d])
      PROVE  \E x \in 1..Len(ids) : ids[x] = id
  <2>1. Len(map[d]) <= CountCap
    BY <1>6 DEF WithinCaps, Layers, map
  <2>2. f[d] = map[d]
    BY <1>1, <1>2, <1>6, <2>1, ReadBackHas
  <2>3. map[d] \in Seq(Nat)
    BY <1>1, <1>6 DEF IsCellMap
  <2>4. PICK j \in 1..Len(map[d]) : map[d][j] = id
    BY <1>6, <2>3 DEF ToSet
  <2> QED
    BY <1>5, <2>2, <2>4
<1> QED
  BY <1>5, <1>6 DEF map, n

\* The nearest address is an address of the input, and none within a cell's
\* width is nearer.
LEMMA NearestAddrIs ==
    ASSUME IInv, phase = "loaded", NEW p \in Int
    PROVE  /\ NearestAddr(p) = <<>> \/ \E a \in WorldAddrs : NearestAddr(p) = <<a>>
           /\ WithinCaps => \A b \in WorldAddrs : Dist(p, b.pos) <= StreetWidth =>
                  \E a \in WorldAddrs : /\ NearestAddr(p) = <<a>>
                                        /\ Dist(p, a.pos) <= Dist(p, b.pos)
<1> DEFINE points == mem.addr_points
           n == Len(points)
           c == StreetCell(p)
           ids == ScanCells(c, AddrIds)
           met == Fetch(points, ids)
<1>1. /\ files.addr_points = points /\ IsSeq(points) /\ n \in Nat /\ ToSet(points) = WorldAddrs
      /\ \A b \in WorldAddrs : \E k \in 0..n - 1 :
             /\ points[k + 1] = b /\ StreetCell(b.pos) \in DOMAIN mem.cell_to_addrs
             /\ k \in ToSet(mem.cell_to_addrs[StreetCell(b.pos)])
  BY AddrListed
<1>2. c \in Int
  BY StreetCellType
<1>3. NearestAddr(p) = Nearest(p, met)
  BY <1>1 DEF NearestAddr
<1> HIDE DEF c
<1>4. /\ ids \in Seq(0..n - 1)
      /\ WithinCaps => \A d \in Near(c) \cap DOMAIN mem.cell_to_addrs :
             \A id \in ToSet(mem.cell_to_addrs[d]) : \E x \in 1..Len(ids) : ids[x] = id
  BY <1>2, AddrScan, ZenonT(40)
<1> HIDE DEF ids, n, points
<1>5. /\ Len(ids) \in Nat /\ DOMAIN met = 1..Len(ids) /\ IsSeq(met)
      /\ \A i \in 1..Len(ids) : met[i] = points[ids[i] + 1] /\ met[i] \in ToSet(points)
  BY <1>1, <1>4, FetchIs DEF n
<1> HIDE DEF met
<1>6. \A i \in 1..Len(ids) : met[i] \in WorldAddrs /\ met[i].pos \in Int
  BY <1>1, <1>5, AddrPositions
<1>7. /\ Len(ids) = 0 => Nearest(p, met) = <<>>
      /\ Len(ids) # 0 => \E k \in 1..Len(ids) :
             /\ Nearest(p, met) = <<met[k]>>
             /\ \A i \in 1..Len(ids) : Dist(p, met[k].pos) <= Dist(p, met[i].pos)
  BY <1>5, <1>6, NearestIs
<1>8. NearestAddr(p) = <<>> \/ \E a \in WorldAddrs : NearestAddr(p) = <<a>>
  BY <1>3, <1>6, <1>7
<1>9. ASSUME WithinCaps, NEW b \in WorldAddrs, Dist(p, b.pos) <= StreetWidth
      PROVE  \E a \in WorldAddrs : NearestAddr(p) = <<a>> /\ Dist(p, a.pos) <= Dist(p, b.pos)
  <2>1. StreetCell(b.pos) \in Near(c)
    BY <1>9, AddrPositions, ReachedCell DEF Near, c
  <2>2. PICK k \in 0..n - 1 : /\ points[k + 1] = b /\ StreetCell(b.pos) \in DOMAIN mem.cell_to_addrs
                              /\ k \in ToSet(mem.cell_to_addrs[StreetCell(b.pos)])
    BY <1>1
  <2>3. PICK x \in 1..Len(ids) : ids[x] = k
    BY <1>4, <1>9, <2>1, <2>2
  <2>4. met[x] = b
    BY <1>5, <2>2, <2>3
  <2>5. Len(ids) # 0
    BY <1>5, <2>3
  <2>6. PICK i \in 1..Len(ids) : /\ Nearest(p, met) = <<met[i]>>
                                 /\ \A j \in 1..Len(ids) : Dist(p, met[i].pos) <= Dist(p, met[j].pos)
    BY <1>7, <2>5
  <2> QED
    BY <1>3, <1>6, <2>4, <2>6
<1> QED
  BY <1>8, <1>9

\* The elements of a sequence at some positions, in order.
Picked(s, X) == [i \in DOMAIN Ascending(X) |-> s[Ascending(X)[i]]]

\* They are elements of the sequence.
LEMMA PickedIs ==
    ASSUME NEW T, NEW s \in Seq(T), NEW X, X \subseteq DOMAIN s
    PROVE  /\ Picked(s, X) \in Seq(T)
           /\ \A i \in 1..Len(Picked(s, X)) : \E x \in X : Picked(s, X)[i] = s[x]
<1> DEFINE at == Ascending(X)
           r == Picked(s, X)
<1>1. Len(s) \in Nat /\ DOMAIN s = 1..Len(s)
  OBVIOUS
<1>2. X \subseteq Int /\ IsFiniteSet(X)
  <2>1. IsFiniteSet(1..Len(s))
    BY <1>1, FS_Interval
  <2> QED
    BY <1>1, <2>1, FS_Subset
<1>3. at \in Seq(X)
  BY <1>2, AscendingSorted
<1>4. r = [i \in 1..Len(at) |-> s[at[i]]] /\ Len(at) \in Nat /\ \A i \in 1..Len(at) : at[i] \in X
  BY <1>3 DEF Picked
<1> HIDE DEF at, r
<1>5. \A i \in 1..Len(at) : s[at[i]] \in T
  BY <1>1, <1>4
<1>6. r \in Seq(T) /\ Len(r) = Len(at)
  BY <1>4, <1>5
<1>7. \A i \in 1..Len(r) : \E x \in X : r[i] = s[x]
  BY <1>4, <1>6
<1> QED
  BY <1>6, <1>7 DEF r

\* The cells of finitely many points are finitely many.
LEMMA CellsFinite ==
    ASSUME NEW points, IsSeq(points), \A o \in ToSet(points) : o.pos \in Int
    PROVE  LET cells == {StreetCell(points[i].pos) : i \in DOMAIN points}
           IN  cells \subseteq Int /\ IsFiniteSet(cells)
<1> DEFINE cells == {StreetCell(points[i].pos) : i \in DOMAIN points}
           f == [i \in DOMAIN points |-> StreetCell(points[i].pos)]
<1>1. Len(points) \in Nat /\ DOMAIN points = 1..Len(points)
  BY DEF IsSeq
<1>2. \A i \in DOMAIN points : points[i].pos \in Int
  BY DEF ToSet
<1>3. cells \subseteq Int
  BY <1>2, StreetCellType
<1>4. IsFiniteSet(DOMAIN points)
  BY <1>1, FS_Interval
<1>5. cells = {f[i] : i \in DOMAIN points}
  OBVIOUS
<1>6. f = [i \in DOMAIN points |-> f[i]]
  OBVIOUS
<1> HIDE DEF cells, f
<1>7. IsFiniteSet(cells)
  BY <1>4, <1>5, <1>6, FiniteImage
<1> QED
  BY <1>3, <1>7 DEF cells

\* Sorting the points of a side index by cell brings in no other point.
LEMMA SortByCellIs ==
    ASSUME NEW points, IsSeq(points), \A o \in ToSet(points) : o.pos \in Int
    PROVE  IsSeq(SortByCell(points)) /\ ToSet(SortByCell(points)) \subseteq ToSet(points)
<1> DEFINE T == ToSet(points)
           S == {StreetCell(points[i].pos) : i \in DOMAIN points}
           cells == Ascending(S)
           In(c) == {j \in DOMAIN points : StreetCell(points[j].pos) = c}
           s == [i \in DOMAIN cells |-> Picked(points, In(cells[i]))]
<1>1. points \in Seq(T)
  BY DEF IsSeq
<1>2. S \subseteq Int /\ IsFiniteSet(S)
  BY CellsFinite
<1>3. SortByCell(points) = FlattenSeq(s)
  BY DEF SortByCell, Filter, Picked
<1> HIDE DEF S
<1>4. cells \in Seq(S)
  BY <1>2, AscendingSorted
<1>5. DOMAIN cells = 1..Len(cells) /\ Len(cells) \in Nat
  BY <1>4
<1> HIDE DEF cells, T
<1>6. \A c : Picked(points, In(c)) \in Seq(T)
  <2> TAKE c
  <2>1. In(c) \subseteq DOMAIN points
    OBVIOUS
  <2> HIDE DEF In
  <2> QED
    BY <1>1, <2>1, PickedIs
<1> HIDE DEF In
<1>7. s \in Seq(Seq(T))
  BY <1>5, <1>6
<1> HIDE DEF s
<1>8. FlattenSeq(s) \in Seq(T)
  BY <1>7, FlattenHolds
<1> DEFINE r == FlattenSeq(s)
<1>9. r \in Seq(T)
  BY <1>8
<1> HIDE DEF r
<1>10. IsSeq(r) /\ ToSet(r) \subseteq T
  BY <1>9, SeqIsSeq DEF ToSet
<1> QED
  BY <1>3, <1>10 DEF r, T

\* The first elements of a sequence are a sequence of its type.
LEMMA PrefixType ==
    ASSUME NEW T, NEW a \in Seq(T), NEW k \in Nat, k <= Len(a)
    PROVE  SubSeq(a, 1, k) \in Seq(T)
OBVIOUS

\* The cell map of a side index lists ids of its points.
LEMMA CellsOfIs ==
    ASSUME NEW sorted, IsSeq(sorted), \A o \in ToSet(sorted) : o.pos \in Int
    PROVE  IsCellMap(CellsOf(sorted)) /\ IdsBelow(Len(sorted), CellsOf(sorted))
<1> DEFINE n == Len(sorted)
           D == {StreetCell(sorted[i].pos) : i \in DOMAIN sorted}
           Is(c) == {i - 1 : i \in {j \in DOMAIN sorted : StreetCell(sorted[j].pos) = c}}
           l(c) == SubSeq(Ascending(Is(c)), 1, Min({Len(Ascending(Is(c))), CountCap}))
           map == CellsOf(sorted)
<1>1. n \in Nat /\ DOMAIN sorted = 1..n
  BY DEF IsSeq
<1>2. D \subseteq Int /\ IsFiniteSet(D)
  BY CellsFinite
<1>3. map = [c \in D |-> l(c)]
  BY DEF CellsOf
<1>4. \A c : Is(c) \subseteq 0..n - 1
  BY <1>1
<1>5. IsFiniteSet(0..n - 1) /\ 0..n - 1 \subseteq Nat
  BY <1>1, FS_Interval
<1> HIDE DEF D, Is, n
<1>6. ASSUME NEW c PROVE l(c) \in Seq(0..n - 1)
  <2> DEFINE a == Ascending(Is(c))
             k == Min({Len(a), CountCap})
  <2>1. Is(c) \subseteq Int /\ IsFiniteSet(Is(c))
    <3>1. Is(c) \subseteq 0..n - 1
      BY <1>4
    <3>2. IsFiniteSet(Is(c))
      BY <1>5, <3>1, FS_Subset
    <3> QED
      BY <1>5, <3>1, <3>2
  <2>2. a \in Seq(Is(c))
    BY <2>1, AscendingSorted
  <2>3. a \in Seq(0..n - 1)
    BY <1>4, <2>2, SeqMono
  <2>4. Len(a) \in Nat /\ CountCap \in Nat
    BY <2>2, CapsAssumption
  <2>5. k \in Nat /\ k <= Len(a)
    BY <2>4, MinOfTwo
  <2> HIDE DEF a, k
  <2>6. SubSeq(a, 1, k) \in Seq(0..n - 1)
    BY <2>3, <2>5, PrefixType
  <2> QED
    BY <2>6 DEF a, k
<1> HIDE DEF l
<1>7. \A c \in D : map[c] = l(c)
  BY <1>3
<1>8. DOMAIN map = D
  BY <1>3
<1>9. map \in [D -> Seq(Nat)]
  <2>1. \A c : l(c) \in Seq(Nat)
    BY <1>5, <1>6, SeqMono
  <2> QED
    BY <1>3, <2>1
<1> HIDE DEF map
<1>10. \A c \in D : \A id \in ToSet(map[c]) : id \in 0..n - 1
  <2> SUFFICES ASSUME NEW c \in D, NEW id \in ToSet(map[c]) PROVE id \in 0..n - 1
    OBVIOUS
  <2>1. map[c] \in Seq(0..n - 1)
    BY <1>6, <1>7
  <2> QED
    BY <2>1, ToSetFinite
<1>11. IsCellMap(map)
  BY <1>2, <1>8, <1>9 DEF IsCellMap
<1>12. IdsBelow(n, map)
  BY <1>8, <1>10 DEF IdsBelow
<1> QED
  BY <1>11, <1>12 DEF map, n

\* What find_nearest answers is a point of the index it searches.
LEMMA FindNearestIs ==
    ASSUME NEW p \in Int, NEW points, IsSeq(points), \A o \in ToSet(points) : o.pos \in Int
    PROVE  FindNearest(points, p) = <<>> \/ \E o \in ToSet(points) : FindNearest(points, p) = <<o>>
<1> DEFINE sorted == SortByCell(points)
           map == CellsOf(sorted)
           n == Len(sorted)
           c == StreetCell(p)
           Ids(d) == ForEachEntry(EntriesFile(map), LookupCell(CellIndex(map), d))
           f == [d \in Near(c) |-> Ids(d)]
           cells == Neighbourhood(c)
           ids == FlattenSeq([i \in DOMAIN cells |-> Ids(cells[i])])
           met == Fetch(sorted, ids)
<1>1. FindNearest(points, p) = Nearest(p, met)
  BY DEF FindNearest, NearestIn, ScanCells
<1>2. IsSeq(sorted) /\ ToSet(sorted) \subseteq ToSet(points)
  BY SortByCellIs
<1> HIDE DEF sorted
<1>3. IsCellMap(map) /\ IdsBelow(n, map)
  BY <1>2, CellsOfIs
<1>4. n \in Nat
  BY <1>2 DEF IsSeq
<1>5. c \in Int
  BY StreetCellType
<1> HIDE DEF map, c
<1>6. \A d \in Near(c) : Ids(d) = ReadBack(map, d)
  <2>1. \A d \in Near(c) : d \in Int
    BY <1>5 DEF Near
  <2> QED
    BY <1>3, <2>1, CellIndexReadsBack
<1>7. \A i \in DOMAIN cells : cells[i] \in Near(c)
  BY DEF Near, Neighbourhood
<1> HIDE DEF Ids
<1>8. ids = ScanOf(c, f)
  <2>1. [i \in DOMAIN cells |-> Ids(cells[i])] = [i \in DOMAIN cells |-> f[cells[i]]]
    BY <1>7
  <2> QED
    BY <2>1 DEF ScanOf
<1>9. \A d \in Near(c) : f[d] = ReadBack(map, d)
  BY <1>6
<1> HIDE DEF f, cells, n, ids
<1>10. \A d \in Near(c) : f[d] \in Seq(0..n - 1)
  BY <1>3, <1>4, <1>9, ReadBackHas
<1>11. ids \in Seq(0..n - 1)
  BY <1>5, <1>8, <1>10, ScanHolds
<1>12. /\ Len(ids) \in Nat /\ DOMAIN met = 1..Len(ids) /\ IsSeq(met)
       /\ \A i \in 1..Len(ids) : met[i] \in ToSet(sorted)
  BY <1>2, <1>4, <1>11, FetchIs DEF n
<1> HIDE DEF met
<1>13. \A i \in 1..Len(ids) : met[i] \in ToSet(points) /\ met[i].pos \in Int
  BY <1>2, <1>12
<1>14. /\ Len(ids) = 0 => Nearest(p, met) = <<>>
       /\ Len(ids) # 0 => \E k \in 1..Len(ids) : Nearest(p, met) = <<met[k]>>
  BY <1>12, <1>13, NearestIs
<1> QED
  BY <1>1, <1>13, <1>14

\* The first k natural numbers of a list sum up to no more than all of them.
LEMMA TotalGrows ==
    ASSUME NEW s \in Seq(Nat), NEW k \in 0..Len(s)
    PROVE  /\ Total(s, k) \in Nat /\ Total(s, Len(s)) \in Nat
           /\ Total(s, k) <= Total(s, Len(s))
<1> DEFINE n == Len(s)
           Bad == {i \in 0..n : ~(Total(s, i) \in Nat)}
<1>1. n \in Nat /\ 0 \in Nat /\ 0 + 1 = 1
  OBVIOUS
<1>2. ASSUME Bad # {} PROVE FALSE
  <2>1. 0 \notin Bad
    BY <1>1, TotalStep
  <2>2. Bad \in SUBSET (0..n)
    OBVIOUS
  <2>3. PICK i \in Bad : i \in 1..n /\ i - 1 \in 0..n /\ i - 1 \notin Bad
    <3> HIDE DEF Bad, n
    <3> QED
      BY <1>1, <1>2, <2>1, <2>2, FirstFailure
  <2>4. PICK j \in Nat : j = i - 1
    BY <2>3
  <2>5. Total(s, j + 1) = Total(s, j) + s[j + 1] /\ j + 1 = i
    <3>1. j + 1 = i
      BY <1>1, <2>3, <2>4
    <3>2. Total(s, j + 1) = Total(s, j) + s[j + 1]
      BY TotalStep
    <3> QED
      BY <3>1, <3>2
  <2>6. s[i] \in Nat /\ Total(s, j) \in Nat
    BY <2>3, <2>4
  <2> QED
    BY <2>3, <2>5, <2>6
<1>3. \A i \in 0..n : Total(s, i) \in Nat
  BY <1>2
<1> DEFINE Low == {i \in k..n : ~(Total(s, k) <= Total(s, i))}
<1>4. ASSUME Low # {} PROVE FALSE
  <2>1. k \notin Low
    BY <1>3
  <2>2. Low \in SUBSET (k..n)
    OBVIOUS
  <2>3. PICK i \in Low : i \in k + 1..n /\ i - 1 \in k..n /\ i - 1 \notin Low
    <3>1. k \in Nat
      BY <1>1
    <3> HIDE DEF Low, n
    <3> QED
      BY <1>1, <1>4, <2>1, <2>2, <3>1, FirstFailure
  <2>4. PICK j \in Nat : j = i - 1
    BY <1>1, <2>3
  <2>5. Total(s, j + 1) = Total(s, j) + s[j + 1] /\ j + 1 = i
    <3>1. j + 1 = i
      BY <1>1, <2>3, <2>4
    <3>2. Total(s, j + 1) = Total(s, j) + s[j + 1]
      BY TotalStep
    <3> QED
      BY <3>1, <3>2
  <2>6. s[i] \in Nat /\ Total(s, j) \in Nat /\ Total(s, k) \in Nat /\ Total(s, k) <= Total(s, j)
    BY <1>1, <1>3, <2>3, <2>4
  <2> QED
    BY <2>3, <2>5, <2>6
<1>5. n \in k..n
  BY <1>1
<1>6. Total(s, k) <= Total(s, n)
  BY <1>4, <1>5
<1> QED
  BY <1>1, <1>3, <1>6

\* A position between two others is no further from one of them than the other.
LEMMA FootIs ==
    ASSUME NEW p \in Int, NEW a \in Int, NEW b \in Int
    PROVE  /\ SegmentDist(p, a, b) \in Nat
           /\ \E x \in Between(a, b) : Dist(p, x) = SegmentDist(p, a, b)
           /\ \A x \in Between(a, b) : Dist(a, x) \in Nat /\ Dist(a, x) <= Dist(a, b)
<1>1. Between(a, b) = IF a <= b THEN a..b ELSE b..a
  <2>1. Min({a, b}) = IF a <= b THEN a ELSE b
    BY MinOfTwo
  <2>2. Max({a, b}) = IF a <= b THEN b ELSE a
    BY DEF Max
  <2> QED
    BY <2>1, <2>2 DEF Between
<1>2. a \in Between(a, b) /\ b \in Between(a, b)
  BY <1>1
<1>3. ASSUME NEW x \in Between(a, b) PROVE Dist(a, x) \in Nat /\ Dist(a, x) <= Dist(a, b)
  <2>1. x \in Int
    BY <1>1
  <2>2. /\ Dist(a, x) \in Nat /\ Dist(a, x) = IF a <= x THEN x - a ELSE a - x
        /\ Dist(a, b) = IF a <= b THEN b - a ELSE a - b
    BY <2>1, DistIs
  <2> QED
    BY <1>1, <2>1, <2>2
<1>4. CASE p \in Between(a, b)
  <2>1. SegmentDist(p, a, b) = 0
    BY <1>4 DEF SegmentDist
  <2>2. Dist(p, p) = 0
    BY DistIs
  <2> QED
    BY <1>3, <1>4, <2>1, <2>2
<1>5. CASE p \notin Between(a, b)
  <2>1. SegmentDist(p, a, b) = Min({Dist(p, a), Dist(p, b)})
    BY <1>5 DEF SegmentDist
  <2>2. Dist(p, a) \in Nat /\ Dist(p, b) \in Nat
    BY DistIs
  <2>3. Min({Dist(p, a), Dist(p, b)}) \in {Dist(p, a), Dist(p, b)}
    BY <2>2, MinOfTwo
  <2> QED
    BY <1>2, <1>3, <2>1, <2>2, <2>3
<1> QED
  BY <1>4, <1>5

\* The distance of a position from a way is a number.
LEMMA WayDistType ==
    ASSUME NEW p \in Int, NEW nodes \in Seq(Int), Len(nodes) >= 2
    PROVE  WayDist(p, nodes) \in Nat
<1> DEFINE S == {SegmentDist(p, nodes[i], nodes[i + 1]) : i \in 1..Len(nodes) - 1}
<1>1. \A i \in 1..Len(nodes) - 1 : nodes[i] \in Int /\ nodes[i + 1] \in Int
  OBVIOUS
<1>2. S \subseteq Nat
  BY <1>1, FootIs
<1>3. 1 \in 1..Len(nodes) - 1
  OBVIOUS
<1>4. S # {}
  BY <1>3
<1> HIDE DEF S
<1>5. Min(S) \in S
  BY <1>2, <1>4, MinExists
<1> QED
  BY <1>2, <1>5 DEF WayDist, S

\* The nearest point of a way is on it: no further along than the way is long.
LEMMA AlongIs ==
    ASSUME NEW p \in Int, NEW nodes \in Seq(Int), Len(nodes) >= 2
    PROVE  /\ Along(p, nodes).at \in Nat /\ Along(p, nodes).total \in Nat
           /\ Along(p, nodes).at <= Along(p, nodes).total
<1> DEFINE n == Len(nodes) - 1
           segs == [i \in 1..n |-> i]
           d == [i \in 1..n |-> SegmentDist(p, nodes[i], nodes[i + 1])]
           keys == {SegmentDist(p, nodes[segs[i]], nodes[segs[i] + 1]) : i \in DOMAIN segs}
           at == {i \in DOMAIN segs : SegmentDist(p, nodes[segs[i]], nodes[segs[i] + 1]) = Min(keys)}
           best == segs[Min(at)]
           foot == CHOOSE x \in Between(nodes[best], nodes[best + 1]) :
                       Dist(p, x) = SegmentDist(p, nodes[best], nodes[best + 1])
           lens == [i \in 1..n |-> Dist(nodes[i], nodes[i + 1])]
<1>1. /\ Along(p, nodes).at = Total(lens, best - 1) + Dist(nodes[best], foot)
      /\ Along(p, nodes).total = Total(lens, Len(lens))
  BY DEF Along, FirstMin
<1>2. n \in Nat /\ n # 0 /\ \A i \in 1..n : nodes[i] \in Int /\ nodes[i + 1] \in Int
  OBVIOUS
<1>3. DOMAIN segs = 1..n /\ \A i \in 1..n : segs[i] = i
  OBVIOUS
<1> HIDE DEF segs
<1>4. d \in [1..n -> Nat] /\ \A i \in 1..n : d[i] = SegmentDist(p, nodes[segs[i]], nodes[segs[i] + 1])
  BY <1>2, <1>3, FootIs
<1> HIDE DEF d, n
<1>5. keys = {d[i] : i \in 1..n}
  BY <1>3, <1>4, SMTT(30)
<1> HIDE DEF keys
<1>6. at = {i \in 1..n : d[i] = Min(keys)}
  BY <1>3, <1>4
<1> HIDE DEF at
<1>7. Min(at) \in 1..n
  <2>1. d \in [1..n -> Nat] /\ n \in Nat /\ n # 0
    BY <1>2, <1>4
  <2> QED
    BY <1>5, <1>6, <2>1, FirstLeast
<1>8. best \in 1..n
  BY <1>3, <1>7
<1> HIDE DEF best
<1>9. \E x \in Between(nodes[best], nodes[best + 1]) :
          Dist(p, x) = SegmentDist(p, nodes[best], nodes[best + 1])
  BY <1>2, <1>8, FootIs
<1>10. foot \in Between(nodes[best], nodes[best + 1])
  BY <1>9, Zenon
<1> HIDE DEF foot
<1>11. /\ Dist(nodes[best], foot) \in Nat
       /\ Dist(nodes[best], foot) <= Dist(nodes[best], nodes[best + 1])
  BY <1>2, <1>8, <1>10, FootIs
<1>12. /\ lens \in Seq(Nat) /\ Len(lens) = n
       /\ \A i \in 1..n : lens[i] = Dist(nodes[i], nodes[i + 1])
  <2>1. \A i \in 1..n : Dist(nodes[i], nodes[i + 1]) \in Nat
    BY <1>2, DistIs
  <2> QED
    BY <1>2, <2>1
<1> HIDE DEF lens
<1>13. PICK b \in Nat : b = best - 1 /\ b + 1 = best
  BY <1>2, <1>8
<1>14. Total(lens, b + 1) = Total(lens, b) + lens[b + 1]
  BY <1>13, TotalStep
<1>15. /\ Total(lens, best) \in Nat /\ Total(lens, n) \in Nat /\ Total(lens, best) <= Total(lens, n)
  <2>1. best \in 0..Len(lens)
    BY <1>2, <1>8, <1>12
  <2> QED
    BY <1>12, <2>1, TotalGrows
<1>16. Total(lens, b) \in Nat
  <2>1. b \in 0..Len(lens)
    BY <1>2, <1>8, <1>12, <1>13
  <2> QED
    BY <1>12, <2>1, TotalGrows
<1>17. lens[best] = Dist(nodes[best], nodes[best + 1]) /\ lens[best] \in Nat
  BY <1>8, <1>12
<1> QED
  <2>1. Along(p, nodes).total = Total(lens, n)
    BY <1>1, <1>12
  <2>2. Along(p, nodes).at = Total(lens, b) + Dist(nodes[best], foot)
    BY <1>1, <1>13
  <2>3. Total(lens, best) = Total(lens, b) + Dist(nodes[best], nodes[best + 1])
    BY <1>13, <1>14, <1>17
  <2> QED
    BY <1>11, <1>15, <1>16, <1>17, <2>1, <2>2, <2>3

\* Rounding a positive fraction that is at least one gives a positive number.
LEMMA RoundedIs ==
    ASSUME NEW n \in Int, NEW d \in Nat, d > 0
    PROVE  RoundToU32(n, d) \in Nat /\ (n >= d => RoundToU32(n, d) >= 1)
<1>1. CASE n <= 0
  BY <1>1 DEF RoundToU32
<1>2. CASE n > 0
  <2>1. PICK e \in Nat : e = 2 * d /\ e > 0
    OBVIOUS
  <2>2. PICK x \in Nat : x = 2 * n + d
    BY <1>2
  <2>3. x \div e \in Nat
    BY <2>1, <2>2
  <2>4. x >= e => x \div e >= 1
    BY <2>1, <2>2
  <2>5. RoundToU32(n, d) = x \div e
    BY <1>2, <2>1, <2>2 DEF RoundToU32
  <2> QED
    BY <2>1, <2>2, <2>3, <2>4, <2>5
<1> QED
  BY <1>1, <1>2

\* A number interpolated between two house numbers is never 0.
LEMMA InterpolatedIs ==
    ASSUME NEW iw, iw.start_number \in Nat \ {0}, iw.end_number \in Nat \ {0},
           NEW t, t.at \in Nat, t.total \in Nat \ {0}, t.at <= t.total
    PROVE  InterpolatedNumber(iw, t) \in Nat \ {0}
<1>1. PICK s \in Nat, e \in Nat, a \in Nat, m \in Nat :
          /\ s = iw.start_number /\ e = iw.end_number /\ a = t.at /\ m = t.total
          /\ s > 0 /\ e > 0 /\ m > 0 /\ a <= m
  OBVIOUS
<1>2. CASE iw.interpolation \in {1, 2}
  <2>1. InterpolatedNumber(iw, t) = s + 2 * RoundToU32(a * (e - s), 2 * m)
    BY <1>1, <1>2 DEF InterpolatedNumber
  <2>2. a * (e - s) \in Int /\ 2 * m \in Nat /\ 2 * m > 0
    BY <1>1
  <2>3. RoundToU32(a * (e - s), 2 * m) \in Nat
    BY <2>2, RoundedIs
  <2> QED
    BY <1>1, <2>1, <2>3
<1>3. CASE ~(iw.interpolation \in {1, 2})
  <2> DEFINE n == s * m + a * (e - s)
  <2>1. InterpolatedNumber(iw, t) = RoundToU32(n, m)
    BY <1>1, <1>3 DEF InterpolatedNumber
  <2>2. n \in Int
    OBVIOUS
  <2>3. n >= m
    <3>1. PICK r \in Nat : r = m - a
      BY <1>1
    <3>2. n = s * r + a * e
      <4>1. s * m = s * r + s * a
        BY <1>1, <3>1
      <4>2. a * (e - s) = a * e - s * a
        OBVIOUS
      <4>3. s * a \in Int /\ a * e \in Int /\ s * r \in Int
        OBVIOUS
      <4> QED
        BY <4>1, <4>2, <4>3
    <3>3. s * r >= r
      BY <1>1
    <3>4. a * e >= a
      BY <1>1
    <3>5. s * r \in Nat /\ a * e \in Nat
      OBVIOUS
    <3> HIDE DEF n
    <3> QED
      BY <1>1, <3>1, <3>2, <3>3, <3>4, <3>5
  <2> HIDE DEF n
  <2>4. RoundToU32(n, m) \in Nat /\ RoundToU32(n, m) >= 1
    BY <1>1, <2>2, <2>3, RoundedIs
  <2> QED
    BY <2>1, <2>4
<1> QED
  BY <1>2, <1>3

\* The nearest interpolation way is one with a segment, and with a number at
\* both ends; a position on it has a number.
LEMMA NearestInterpIs ==
    ASSUME IInv, phase = "loaded", NEW p \in Int
    PROVE  \/ NearestInterp(p) = <<>>
           \/ \E w : /\ NearestInterp(p) = <<w>>
                     /\ InterpolatedNumber(w, Along(p, w.nodes)) \in Nat \ {0}
<1> DEFINE ways == mem.interp_ways
           map == mem.cell_to_interps
           n == Len(ways)
           c == StreetCell(p)
           f == [d \in Near(c) |-> InterpIds(d)]
           cells == Neighbourhood(c)
           ids == ScanCells(c, InterpIds)
           met == Fetch(ways, ids)
           Fit(w) == w.start_number # 0 /\ w.end_number # 0 /\ Along(p, w.nodes).total # 0
           X == {i \in DOMAIN met : Fit(met[i])}
           kept == Picked(met, X)
           S == {w \in ToSet(met) : Fit(w)}
<1>1. files.interp_ways = ways
  BY DEF IInv, Written
<1>2. /\ IsSeq(ways) /\ n \in Nat /\ \A i \in 1..n : IsInterp(ways[i])
      /\ IsCellMap(map) /\ IdsBelow(n, map)
  BY DEF IInv, MemOK, LinesOK, IsSeq
<1>3. NearestInterp(p) = First(kept, LAMBDA w : WayDist(p, w.nodes))
  BY <1>1 DEF NearestInterp, Filter, Picked
<1>4. c \in Int
  BY StreetCellType
<1> HIDE DEF c
<1>5. /\ \A d \in Near(c) : f[d] = ReadBack(map, d)
      /\ \A i \in DOMAIN cells : cells[i] \in Near(c)
  <2>1. \A d \in Near(c) : d \in Int
    BY <1>4 DEF Near
  <2>2. \A d \in Near(c) : f[d] = InterpIds(d)
    OBVIOUS
  <2>3. \A d \in Near(c) : InterpIds(d) = ReadBack(map, d)
    BY <2>1, IdsRead
  <2>4. \A i \in DOMAIN cells : cells[i] \in Near(c)
    BY DEF Near, Neighbourhood
  <2> QED
    BY <2>2, <2>3, <2>4
<1>6. ids = ScanOf(c, f)
  <2>1. [i \in DOMAIN cells |-> InterpIds(cells[i])] = [i \in DOMAIN cells |-> f[cells[i]]]
    BY <1>5
  <2>2. ids = FlattenSeq([i \in DOMAIN cells |-> InterpIds(cells[i])])
    BY DEF ScanCells
  <2> QED
    BY <2>1, <2>2 DEF ScanOf
<1> HIDE DEF f, cells, map, n, ids, ways
<1>7. \A d \in Near(c) : f[d] \in Seq(0..n - 1)
  BY <1>2, <1>5, ReadBackHas
<1>8. ids \in Seq(0..n - 1)
  BY <1>4, <1>6, <1>7, ScanHolds
<1>9. /\ Len(ids) \in Nat /\ DOMAIN met = 1..Len(ids) /\ IsSeq(met)
      /\ \A i \in 1..Len(ids) : ids[i] + 1 \in 1..n /\ met[i] = ways[ids[i] + 1]
  BY <1>2, <1>8, FetchIs DEF n
<1> HIDE DEF met
<1>10. \A w \in ToSet(met) : IsInterp(w)
  BY <1>2, <1>9 DEF ToSet
<1>11. met \in Seq(ToSet(met)) /\ X \subseteq DOMAIN met
  BY <1>9 DEF IsSeq
<1>12. \A x \in X : met[x] \in S
  BY DEF ToSet
<1>13. /\ kept \in Seq(ToSet(met))
       /\ \A i \in 1..Len(kept) : \E x \in X : kept[i] = met[x]
  <2> HIDE DEF X
  <2> QED
    BY <1>11, PickedIs
<1> HIDE DEF kept, X
<1>14. \A i \in 1..Len(kept) : kept[i] \in S
  BY <1>12, <1>13
<1>15. Len(kept) \in Nat /\ DOMAIN kept = 1..Len(kept)
  BY <1>13
<1>16. CASE kept = <<>>
  BY <1>3, <1>16 DEF First
<1>17. CASE kept # <<>>
  <2> DEFINE k == Len(kept)
             g == [i \in 1..k |-> WayDist(p, kept[i].nodes)]
             keys == {WayDist(p, kept[i].nodes) : i \in DOMAIN kept}
             at == {i \in DOMAIN kept : WayDist(p, kept[i].nodes) = Min(keys)}
             w == kept[Min(at)]
  <2>1. NearestInterp(p) = <<w>>
    BY <1>3, <1>17 DEF First, FirstMin
  <2>2. k \in Nat /\ k # 0
    BY <1>13, <1>15, <1>17
  <2>3. g \in [1..k -> Nat]
    <3>1. \A i \in 1..k : IsInterp(kept[i])
      BY <1>10, <1>14
    <3>2. \A i \in 1..k : WayDist(p, kept[i].nodes) \in Nat
      BY <3>1, WayDistType DEF IsInterp
    <3> QED
      BY <3>2
  <2>4. keys = {g[i] : i \in 1..k}
    BY <1>15
  <2>5. at = {i \in 1..k : g[i] = Min(keys)}
    BY <1>15
  <2> HIDE DEF g, keys, at
  <2>6. Min(at) \in 1..k
    BY <2>2, <2>3, <2>4, <2>5, FirstLeast
  <2>7. w \in S
    BY <1>14, <2>6
  <2> HIDE DEF w
  <2>8. IsInterp(w) /\ Fit(w)
    BY <1>10, <2>7
  <2>9. /\ Along(p, w.nodes).at \in Nat /\ Along(p, w.nodes).total \in Nat
        /\ Along(p, w.nodes).at <= Along(p, w.nodes).total
    BY <2>8, AlongIs DEF IsInterp
  <2>10. w.start_number \in Nat \ {0} /\ w.end_number \in Nat \ {0}
    BY <2>8 DEF IsInterp
  <2> DEFINE t == Along(p, w.nodes)
  <2>11. t.total \in Nat \ {0} /\ t.at \in Nat /\ t.at <= t.total
    BY <2>8, <2>9
  <2> HIDE DEF t
  <2>12. InterpolatedNumber(w, t) \in Nat \ {0}
    BY <2>10, <2>11, InterpolatedIs
  <2> QED
    BY <2>1, <2>12 DEF t
<1> QED
  BY <1>16, <1>17

-----------------------------------------------------------------------------
(* The admin result and the ladder. *)

AdminFields == {"country", "state", "county", "city", "postcode", "cc", "polys"}

\* One level of find_admin's mapping sets fields of the admin result.
LEMMA ApplyLevelIs ==
    ASSUME NEW r, DOMAIN r = AdminFields, NEW id
    PROVE  DOMAIN ApplyLevel(r, id) = AdminFields
<1>1. ASSUME NEW field PROVE DOMAIN SetField(r, field, id) = AdminFields
  <2> DEFINE name == At(files.admin_polygons, id).name
  <2>1. CASE field = "state"
    BY <2>1 DEF SetField
  <2>2. CASE field = "county"
    BY <2>2 DEF SetField
  <2>3. CASE field = "city"
    BY <2>3 DEF SetField
  <2>4. CASE field = "postcode"
    BY <2>4 DEF SetField
  <2>5. CASE field \notin {"state", "county", "city", "postcode"}
    BY <2>5 DEF SetField
  <2> QED
    BY <2>1, <2>2, <2>3, <2>4, <2>5
<1> DEFINE poly == At(files.admin_polygons, id)
           entry == AdminLookup(r.cc, poly.level)
           big == entry.max_area # 0 /\ poly.area > entry.max_area
<1>2. ApplyLevel(r, id) =
          IF big THEN r
          ELSE CASE entry.field = "county_if_empty" ->
                        IF r.county = "" THEN SetField(r, "county", id) ELSE r
                 [] entry.field = "city_if_empty" ->
                        IF r.city = "" THEN SetField(r, "city", id) ELSE r
                 [] OTHER -> SetField(r, entry.field, id)
  BY DEF ApplyLevel
<1> HIDE DEF big, entry
<1>3. CASE big
  BY <1>2, <1>3
<1>4. CASE ~big /\ entry.field = "county_if_empty"
  BY <1>1, <1>2, <1>4
<1>5. CASE ~big /\ entry.field = "city_if_empty"
  BY <1>1, <1>2, <1>5
<1>6. CASE ~big /\ entry.field \notin {"county_if_empty", "city_if_empty"}
  BY <1>1, <1>2, <1>6
<1> QED
  BY <1>3, <1>4, <1>5, <1>6

\* What a level makes of the result of the levels before it.
LevelStep(hits, r, level) ==
    IF BestAtLevel(hits, level) = <<>> THEN r
    ELSE ApplyLevel(r, BestAtLevel(hits, level)[1])

\* The results of the levels up to k.
AreLevels(f, hits, country, k) ==
    f = [level \in 2..k |-> IF level = 2 THEN country ELSE LevelStep(hits, f[level - 1], level)]

\* They exist, by induction on the level.
LEMMA LevelsExist ==
    ASSUME NEW hits, NEW country
    PROVE  \E f : AreLevels(f, hits, country, 11)
<1> DEFINE Bad == {k \in 2..11 : ~\E f : AreLevels(f, hits, country, k)}
<1>1. ASSUME Bad # {} PROVE FALSE
  <2>1. 2 \notin Bad
    <3> DEFINE z == [level \in 2..2 |-> country]
    <3>1. AreLevels(z, hits, country, 2)
      BY DEF AreLevels
    <3> QED
      BY <3>1
  <2>2. Bad \in SUBSET (2..11)
    OBVIOUS
  <2>3. PICK k \in Bad : k \in 3..11 /\ k - 1 \in 2..11 /\ k - 1 \notin Bad
    <3>1. 2 \in Nat /\ 11 \in Nat /\ 2 + 1 = 3
      OBVIOUS
    <3> HIDE DEF Bad
    <3> QED
      BY <1>1, <2>1, <2>2, <3>1, FirstFailure
  <2>4. PICK f : AreLevels(f, hits, country, k - 1)
    BY <2>3
  <2> DEFINE h == [i \in 2..k |-> IF i = k THEN LevelStep(hits, f[k - 1], k) ELSE f[i]]
  <2>5. ASSUME NEW i \in 2..k
        PROVE  h[i] = IF i = 2 THEN country ELSE LevelStep(hits, h[i - 1], i)
    <3>1. i = 2 \/ i - 1 \in 2..k - 1
      BY <2>3
    <3>2. i - 1 \in 2..k - 1 => h[i - 1] = f[i - 1]
      BY <2>3
    <3>3. i \in 2..k - 1 =>
              h[i] = f[i] /\ f[i] = IF i = 2 THEN country ELSE LevelStep(hits, f[i - 1], i)
      BY <2>3, <2>4 DEF AreLevels
    <3>4. i = k \/ i \in 2..k - 1
      BY <2>3
    <3>5. k # 2
      BY <2>3
    <3> QED
      BY <3>1, <3>2, <3>3, <3>4, <3>5
  <2>6. AreLevels(h, hits, country, k)
    <3> DEFINE e == [i \in 2..k |-> IF i = 2 THEN country ELSE LevelStep(hits, h[i - 1], i)]
    <3>1. \A i \in 2..k : h[i] = e[i]
      BY <2>5
    <3>2. h = [i \in 2..k |-> h[i]]
      OBVIOUS
    <3> HIDE DEF h
    <3>3. h = e
      BY <3>1, <3>2
    <3> QED
      BY <3>3 DEF AreLevels
  <2> QED
    BY <2>3, <2>6
<1>2. 11 \in 2..11 /\ 11 \notin Bad
  BY <1>1
<1> QED
  BY <1>2

\* The levels set fields of the admin result.
LEMMA MapLevelsIs ==
    ASSUME NEW hits, NEW country, DOMAIN country = AdminFields
    PROVE  DOMAIN MapLevels(hits, country) = AdminFields
<1> DEFINE Is(f) == f = [level \in 2..11 |-> IF level = 2 THEN country ELSE LevelStep(hits, f[level - 1], level)]
           F == CHOOSE f : Is(f)
<1>1. MapLevels(hits, country) = F[11]
  <2> DEFINE Was(f) == f = [level \in 2..11 |->
                 IF level = 2 THEN country
                 ELSE IF BestAtLevel(hits, level) = <<>> THEN f[level - 1]
                 ELSE ApplyLevel(f[level - 1], BestAtLevel(hits, level)[1])]
  <2>1. MapLevels(hits, country) = (CHOOSE f : Was(f))[11]
    BY DEF MapLevels
  <2>2. \A f : Was(f) <=> Is(f)
    BY DEF LevelStep
  <2> HIDE DEF Was, Is
  <2>3. (CHOOSE f : Was(f)) = (CHOOSE f : Is(f))
    BY <2>2
  <2> QED
    BY <2>1, <2>3
<1>2. \E f : Is(f)
  <2>1. PICK f : AreLevels(f, hits, country, 11)
    BY LevelsExist
  <2> QED
    BY <2>1 DEF AreLevels
<1>3. Is(F)
  BY <1>2, Zenon
<1> HIDE DEF F
<1> DEFINE Bad == {k \in 2..11 : DOMAIN F[k] # AdminFields}
<1>4. ASSUME Bad # {} PROVE FALSE
  <2>1. 2 \notin Bad
    BY <1>3
  <2>2. Bad \in SUBSET (2..11)
    OBVIOUS
  <2>3. PICK k \in Bad : k \in 3..11 /\ k - 1 \in 2..11 /\ k - 1 \notin Bad
    <3>1. 2 \in Nat /\ 11 \in Nat /\ 2 + 1 = 3
      OBVIOUS
    <3> HIDE DEF Bad
    <3> QED
      BY <1>4, <2>1, <2>2, <3>1, FirstFailure
  <2>4. F[k] = LevelStep(hits, F[k - 1], k)
    BY <1>3, <2>3
  <2>5. DOMAIN F[k - 1] = AdminFields
    BY <2>3
  <2>6. DOMAIN LevelStep(hits, F[k - 1], k) = AdminFields
    BY <2>5, ApplyLevelIs DEF LevelStep
  <2> QED
    BY <2>3, <2>4, <2>6
<1>5. DOMAIN F[11] = AdminFields
  BY <1>4
<1> QED
  BY <1>1, <1>5

\* The admin result has its fields, whatever was found.
LEMMA FindAdminIs ==
    ASSUME NEW p
    PROVE  DOMAIN FindAdminWithPlace(p) = AdminFields
<1>1. DOMAIN NoAdmin = AdminFields
  BY DEF NoAdmin, AdminFields
<1>2. ASSUME NEW national, NEW wof PROVE DOMAIN Country(national, wof) = AdminFields
  <2> DEFINE poly == At(files.admin_polygons, national[1])
             osm == IF national = <<>> THEN NoAdmin
                    ELSE [NoAdmin EXCEPT !.country = poly.name, !.cc = poly.cc,
                                         !.polys["country"] = national[1]]
  <2>1. DOMAIN osm = AdminFields
    BY <1>1
  <2>2. Country(national, wof) =
            IF osm.cc # "" \/ wof = <<>> THEN osm
            ELSE [osm EXCEPT !.cc = wof[1].cc,
                             !.country = IF @ = "" THEN wof[1].name ELSE @]
    BY DEF Country
  <2> HIDE DEF osm
  <2> QED
    BY <2>1, <2>2
<1>3. DOMAIN FindAdmin(p) = AdminFields
  BY <1>2, MapLevelsIs DEF FindAdmin, AdminOf
<1>4. ASSUME NEW admin, DOMAIN admin = AdminFields, NEW place
      PROVE  DOMAIN WithPlace(admin, place) = AdminFields
  BY <1>4 DEF WithPlace
<1> QED
  BY <1>3, <1>4 DEF FindAdminWithPlace

\* The postcode ladder changes the postcode only.
LEMMA WithPostcodeIs ==
    ASSUME NEW admin, DOMAIN admin = AdminFields, NEW gnaf, NEW oa
    PROVE  LET q == WithPostcode(admin, gnaf, oa)
           IN  DOMAIN q = AdminFields /\ q.cc = admin.cc
<1> DEFINE Ok(q) == DOMAIN q = AdminFields /\ q.cc = admin.cc
           known(match) == match # <<>> /\ match[1].postcode # ""
           modal == {m \in side.modal : admin.cc = "AU" /\ m.state = admin.state /\ m.city = admin.city}
           q == WithPostcode(admin, gnaf, oa)
<1>1. Ok(admin)
  OBVIOUS
<1>2. ASSUME NEW x PROVE Ok([admin EXCEPT !.postcode = x])
  BY DEF AdminFields
<1>3. q = CASE admin.postcode # "" -> admin
            [] admin.postcode = "" /\ known(gnaf) -> [admin EXCEPT !.postcode = gnaf[1].postcode]
            [] admin.postcode = "" /\ ~known(gnaf) /\ known(oa) ->
                   [admin EXCEPT !.postcode = oa[1].postcode]
            [] OTHER -> IF modal = {} THEN admin
                        ELSE [admin EXCEPT !.postcode = (CHOOSE m \in modal : TRUE).postcode]
  BY DEF WithPostcode
<1> HIDE DEF q, known, modal, Ok
<1>4. CASE admin.postcode # ""
  BY <1>1, <1>3, <1>4 DEF q, Ok
<1>5. CASE admin.postcode = "" /\ known(gnaf)
  BY <1>2, <1>3, <1>5 DEF q, Ok
<1>6. CASE admin.postcode = "" /\ ~known(gnaf) /\ known(oa)
  BY <1>2, <1>3, <1>6 DEF q, Ok
<1>7. CASE admin.postcode = "" /\ ~known(gnaf) /\ ~known(oa)
  BY <1>1, <1>2, <1>3, <1>7 DEF q, Ok
<1> QED
  BY <1>4, <1>5, <1>6, <1>7

\* An OpenAddresses point answers, or an address in reach, or neither.
FromOaCase(oa, r) ==
    r.hn = oa[1].hn /\ r.road = oa[1].street /\ r.confidence = "exact" /\ r.road # "" /\ r.hn # 0

FromAddrCase(a, r) ==
    /\ r.hn = a.hn /\ r.road = (IF a.isPlace THEN "" ELSE a.primary) /\ r.confidence = "exact"
    /\ r.road = "" => r.admin.city # ""

\* An address as the handlers make it: a name and a number.
IsAddr(a) == a.primary # "" /\ a.hn # 0 /\ a.isPlace \in BOOLEAN

InReach(p, addr) == addr # <<>> /\ Dist(p, addr[1].pos) < MaxDist

Found(r) == DOMAIN r = {"hn", "road", "confidence", "admin"}

\* What is answered from the nearest address, before a road is looked for.
NearestCases(r, p, admin, oa, addr) ==
    /\ Found(r) /\ r.admin.cc = admin.cc
    /\ OaAnswers(p, oa, addr) => FromOaCase(oa, r)
    /\ ~OaAnswers(p, oa, addr) /\ InReach(p, addr) => FromAddrCase(addr[1], r)
    /\ ~OaAnswers(p, oa, addr) /\ ~InReach(p, addr) =>
           r.hn = 0 /\ r.road = "" /\ r.confidence = ""

\* The nearest address in reach, with the code of the country that was found.
LEMMA FromNearestIs ==
    ASSUME NEW p, NEW admin, DOMAIN admin = AdminFields, NEW oa, NEW addr,
           addr # <<>> => IsAddr(addr[1])
    PROVE  NearestCases(FromNearest(p, admin, oa, addr), p, admin, oa, addr)
<1> DEFINE r == FromNearest(p, admin, oa, addr)
           A == OaAnswers(p, oa, addr)
           B == InReach(p, addr)
           Ok(x) == Found(x) /\ x.admin.cc = admin.cc
<1>1. CASE A
  <2>1. r = FromOa(admin, oa[1])
    BY <1>1 DEF FromNearest
  <2>2. oa[1].hn # 0 /\ oa[1].street # ""
    BY <1>1 DEF OaAnswers
  <2>3. Ok(FromOa(admin, oa[1])) /\ FromOaCase(oa, FromOa(admin, oa[1]))
    BY <2>2 DEF FromOa, FromOaCase, Found, AdminFields
  <2> QED
    BY <1>1, <2>1, <2>3 DEF NearestCases
<1>2. CASE ~A /\ B
  <2> DEFINE a == addr[1]
  <2>1. r = FromAddr(admin, a)
    BY <1>2 DEF FromNearest, InReach
  <2>2. IsAddr(a)
    BY <1>2 DEF InReach
  <2> HIDE DEF a
  <2>3. Ok(FromAddr(admin, a))
    BY DEF FromAddr, Found, AdminFields
  <2>4. /\ FromAddr(admin, a).hn = a.hn
        /\ FromAddr(admin, a).road = IF a.isPlace THEN "" ELSE a.primary
        /\ FromAddr(admin, a).confidence = "exact"
    BY DEF FromAddr
  <2>5. a.isPlace => FromAddr(admin, a).admin.city # ""
    <3> DEFINE city == CASE admin.city # "" -> admin.city
                         [] admin.city = "" /\ a.parent # "" -> a.parent
                         [] OTHER -> IF a.isPlace THEN a.primary ELSE ""
    <3>1. FromAddr(admin, a).admin.city = city
      BY DEF FromAddr, AdminFields
    <3>2. a.isPlace => city # ""
      BY <2>2 DEF IsAddr
    <3> QED
      BY <3>1, <3>2
  <2>6. FromAddrCase(a, FromAddr(admin, a))
    BY <2>2, <2>4, <2>5 DEF FromAddrCase, IsAddr
  <2> QED
    BY <1>2, <2>1, <2>3, <2>6 DEF a, NearestCases
<1>3. CASE ~A /\ ~B
  <2>1. r = [hn |-> 0, road |-> "", confidence |-> "", admin |-> admin]
    BY <1>3 DEF FromNearest, InReach
  <2> DEFINE none == [hn |-> 0, road |-> "", confidence |-> "", admin |-> admin]
  <2>2. Ok(none) /\ none.hn = 0 /\ none.road = "" /\ none.confidence = ""
    BY DEF Found
  <2> HIDE DEF none
  <2> QED
    BY <1>3, <2>1, <2>2 DEF none, NearestCases
<1> QED
  BY <1>1, <1>2, <1>3

\* What is answered once a road has been looked for.
RoadCases(r, found) ==
    /\ Found(r) /\ r.admin = found.admin
    /\ r.confidence = "exact" => r = found
    /\ found.hn # 0 => r.hn # 0
    /\ r.confidence = "" => r = found
    /\ r.confidence = "fallback" => r.hn = found.hn /\ (r = found \/ found.road = "")
    /\ r.road = "" => r.confidence \in {"fallback", "interpolated"} \/ r = found

\* A road is added to an answer without one; the number of an interpolation way
\* is never 0.
LEMMA WithRoadIs ==
    ASSUME NEW p, NEW found, Found(found), NEW interp, NEW street,
           interp # <<>> => InterpolatedNumber(interp[1], Along(p, interp[1].nodes)) # 0
    PROVE  RoadCases(WithRoad(p, found, interp, street), found)
<1> DEFINE r == WithRoad(p, found, interp, street)
           near(way) == way # <<>> /\ WayDist(p, way[1].nodes) < MaxDist
<1>1. RoadCases(found, found)
  BY DEF RoadCases
<1>2. r = CASE found.road # "" -> found
            [] found.road = "" /\ near(interp) ->
                 [found EXCEPT !.hn = InterpolatedNumber(interp[1], Along(p, interp[1].nodes)),
                               !.road = interp[1].street, !.confidence = "interpolated"]
            [] found.road = "" /\ ~near(interp) /\ near(street) ->
                 [found EXCEPT !.road = street[1].name, !.confidence = "fallback"]
            [] OTHER -> found
  BY DEF WithRoad
<1>3. ASSUME NEW n, n # 0, NEW s PROVE RoadCases([found EXCEPT !.hn = n, !.road = s, !.confidence = "interpolated"], found)
  BY <1>3 DEF Found, RoadCases
<1>4. ASSUME NEW s, found.road = "" PROVE RoadCases([found EXCEPT !.road = s, !.confidence = "fallback"], found)
  BY <1>4 DEF Found, RoadCases
<1>5. near(interp) => InterpolatedNumber(interp[1], Along(p, interp[1].nodes)) # 0
  OBVIOUS
<1> HIDE DEF r, near
<1>6. RoadCases(r, found)
  <2>1. CASE found.road # ""
    BY <1>1, <1>2, <2>1
  <2>2. CASE found.road = "" /\ near(interp)
    BY <1>2, <1>3, <1>5, <2>2
  <2>3. CASE found.road = "" /\ ~near(interp) /\ near(street)
    BY <1>2, <1>4, <2>3
  <2>4. CASE found.road = "" /\ ~near(interp) /\ ~near(street)
    BY <1>1, <1>2, <2>4
  <2> QED
    BY <2>1, <2>2, <2>3, <2>4
<1> QED
  BY <1>6 DEF r

\* The answer that is put together keeps number, road and area, unless it is
\* empty; one without confidence is a fallback.
LEMMA AssembledIs ==
    ASSUME NEW found, NEW poi
    PROVE  LET r == Assembled(found, poi)
               empty == found.road = "" /\ found.admin.city = ""
           IN  \/ empty /\ r.confidence = "" /\ r.hn = 0
               \/ /\ r.hn = found.hn /\ r.road = found.road /\ r.admin = found.admin
                  /\ r.confidence = IF found.confidence = "" THEN "fallback" ELSE found.confidence
<1> DEFINE nothing == /\ found.road = "" /\ poi = <<>>
                      /\ found.admin.country = "" /\ found.admin.city = ""
<1>1. CASE nothing
  BY <1>1 DEF Assembled
<1>2. CASE ~nothing
  BY <1>2 DEF Assembled
<1> QED
  BY <1>1, <1>2

\* What an assembled answer r says of the points it was made from.
LadderCases(r, p, admin, oa, addr) ==
    LET A == OaAnswers(p, oa, addr)
        B == InReach(p, addr)
    IN  /\ r.confidence = "exact" =>
               /\ r.admin.cc = admin.cc
               /\ \/ A /\ r.hn = oa[1].hn /\ r.road = oa[1].street
                  \/ /\ ~A /\ B /\ r.hn = addr[1].hn
                     /\ r.road = IF addr[1].isPlace THEN "" ELSE addr[1].primary
        /\ B => r.hn # 0
        /\ r.confidence = "fallback" /\ r.hn # 0 => B /\ addr[1].isPlace /\ r.hn = addr[1].hn

\* What the ladder answers: an exact answer is that of the OpenAddresses point or
\* of the address in reach, an address in reach always gives a number, and a
\* fallback with a number is an address of a place.
LEMMA LadderIs ==
    ASSUME NEW p, NEW admin, DOMAIN admin = AdminFields, NEW oa, NEW addr, NEW interp,
           NEW street, NEW poi, addr # <<>> => IsAddr(addr[1]),
           interp # <<>> => InterpolatedNumber(interp[1], Along(p, interp[1].nodes)) # 0
    PROVE  LadderCases(Assembled(WithRoad(p, FromNearest(p, admin, oa, addr), interp, street), poi),
                       p, admin, oa, addr)
<1> DEFINE x == FromNearest(p, admin, oa, addr)
           y == WithRoad(p, x, interp, street)
           r == Assembled(y, poi)
           A == OaAnswers(p, oa, addr)
           B == InReach(p, addr)
<1>1. /\ Found(x) /\ x.admin.cc = admin.cc
      /\ A => FromOaCase(oa, x)
      /\ ~A /\ B => FromAddrCase(addr[1], x)
      /\ ~A /\ ~B => x.hn = 0 /\ x.road = "" /\ x.confidence = ""
  <2>1. NearestCases(x, p, admin, oa, addr)
    BY FromNearestIs
  <2> HIDE DEF x
  <2> QED
    BY <2>1 DEF NearestCases
<1> HIDE DEF x
<1>2. /\ Found(y) /\ y.admin = x.admin
      /\ y.confidence = "exact" => y = x
      /\ x.hn # 0 => y.hn # 0
      /\ y.confidence = "" => y = x
      /\ y.confidence = "fallback" => y.hn = x.hn /\ (y = x \/ x.road = "")
      /\ y.road = "" => y.confidence \in {"fallback", "interpolated"} \/ y = x
  <2>1. RoadCases(y, x)
    BY <1>1, WithRoadIs
  <2> HIDE DEF y
  <2> QED
    BY <2>1 DEF RoadCases
<1>3. x.road # "" => y = x
  BY DEF WithRoad
<1> HIDE DEF y
<1>4. \/ y.road = "" /\ y.admin.city = "" /\ r.confidence = "" /\ r.hn = 0
      \/ /\ r.hn = y.hn /\ r.road = y.road /\ r.admin = y.admin
         /\ r.confidence = IF y.confidence = "" THEN "fallback" ELSE y.confidence
  BY AssembledIs
<1> HIDE DEF r, A, B
<1>5. B => addr[1].hn # 0 /\ addr[1].primary # "" /\ addr[1].isPlace \in BOOLEAN
  BY DEF B, InReach, IsAddr
<1>6. A => /\ x.hn = oa[1].hn /\ x.road = oa[1].street /\ x.confidence = "exact"
           /\ x.road # "" /\ x.hn # 0
  BY <1>1 DEF FromOaCase
<1>7. ~A /\ B => /\ x.hn = addr[1].hn /\ x.road = (IF addr[1].isPlace THEN "" ELSE addr[1].primary)
                 /\ x.confidence = "exact" /\ (x.road = "" => x.admin.city # "")
  BY <1>1 DEF FromAddrCase
<1>8. r.confidence = "exact" =>
          /\ r.admin.cc = admin.cc
          /\ \/ A /\ r.hn = oa[1].hn /\ r.road = oa[1].street
             \/ /\ ~A /\ B /\ r.hn = addr[1].hn
                /\ r.road = IF addr[1].isPlace THEN "" ELSE addr[1].primary
  <2> SUFFICES ASSUME r.confidence = "exact"
               PROVE  /\ r.admin.cc = admin.cc
                      /\ \/ A /\ r.hn = oa[1].hn /\ r.road = oa[1].street
                         \/ /\ ~A /\ B /\ r.hn = addr[1].hn
                            /\ r.road = IF addr[1].isPlace THEN "" ELSE addr[1].primary
    OBVIOUS
  <2>1. y.confidence = "exact" /\ r.hn = y.hn /\ r.road = y.road /\ r.admin = y.admin
    BY <1>4
  <2>2. y = x
    BY <1>2, <2>1
  <2>3. A \/ (~A /\ B)
    BY <1>1, <2>1, <2>2
  <2> QED
    BY <1>1, <1>6, <1>7, <2>1, <2>2, <2>3
<1>9. B => r.hn # 0
  <2> SUFFICES ASSUME B PROVE r.hn # 0
    OBVIOUS
  <2>1. x.hn # 0
    BY <1>5, <1>6, <1>7
  <2>2. y.hn # 0
    BY <1>2, <2>1
  <2>3. x.road = "" => x.admin.city # ""
    BY <1>6, <1>7
  <2>4. ~(y.road = "" /\ y.admin.city = "")
    BY <1>2, <1>3, <2>3
  <2> QED
    BY <1>4, <2>2, <2>4
<1>10. r.confidence = "fallback" /\ r.hn # 0 => B /\ addr[1].isPlace /\ r.hn = addr[1].hn
  <2> SUFFICES ASSUME r.confidence = "fallback", r.hn # 0
               PROVE  B /\ addr[1].isPlace /\ r.hn = addr[1].hn
    OBVIOUS
  <2>1. r.hn = y.hn /\ y.confidence \in {"", "fallback"}
    BY <1>4
  <2>2. y.hn = x.hn /\ x.hn # 0
    BY <1>2, <2>1
  <2>3. A \/ (~A /\ B)
    BY <1>1, <2>2
  <2>4. x.confidence = "exact"
    BY <1>6, <1>7, <2>3
  <2>5. y # x
    BY <2>1, <2>4
  <2>6. x.road = ""
    BY <1>3, <2>5
  <2>7. ~A /\ B
    BY <1>6, <2>3, <2>6
  <2>8. addr[1].isPlace
    BY <1>5, <1>7, <2>6, <2>7
  <2> QED
    BY <1>7, <2>1, <2>2, <2>7, <2>8
<1> QED
  BY <1>8, <1>9, <1>10 DEF r, y, x, A, B, LadderCases

\* The addresses of the input have a name and a number.
LEMMA AddrsAreAddrs ==
    ASSUME NEW a \in WorldAddrs
    PROVE  IsAddr(a)
<1>1. PICK x \in world : IsAddrOf(a, x)
  BY WorldAddrsIs, AddrsOfMember
<1>2. PICK pos : HasAddress(x.addr) /\ a = AddressOf(pos, x.addr)
  BY <1>1 DEF IsAddrOf
<1>3. AddressOf(0, x.addr).primary # "" /\ AddressOf(0, x.addr).hn # 0
  BY <1>2 DEF HasAddress
<1>4. /\ a.primary = AddressOf(0, x.addr).primary /\ a.hn = AddressOf(0, x.addr).hn
      /\ a.isPlace \in BOOLEAN
  BY <1>2 DEF AddressOf
<1> QED
  BY <1>3, <1>4 DEF IsAddr

\* The OpenAddresses point is one of the shard of the country that was found.
LEMMA OaMatchIs ==
    ASSUME side \in Sides, NEW p \in Int, NEW admin
    PROVE  \/ OaMatch(admin, p) = <<>>
           \/ /\ admin.cc \in DOMAIN side.oa
              /\ \E o \in ToSet(side.oa[admin.cc]) : OaMatch(admin, p) = <<o>>
<1>1. CASE admin.cc \notin DOMAIN side.oa
  BY <1>1 DEF OaMatch
<1>2. CASE admin.cc \in DOMAIN side.oa
  <2> DEFINE shard == side.oa[admin.cc]
  <2>1. shard \in Seq(ToSet(shard)) /\ \A o \in ToSet(shard) : o.pos \in Int
    BY <1>2, QueryAssumption
  <2>2. OaMatch(admin, p) = FindNearest(shard, p)
    BY <1>2 DEF OaMatch
  <2> HIDE DEF shard
  <2>3. IsSeq(shard)
    BY <2>1, SeqIsSeq
  <2>4. FindNearest(shard, p) = <<>> \/ \E o \in ToSet(shard) : FindNearest(shard, p) = <<o>>
    BY <2>1, <2>3, FindNearestIs
  <2> QED
    BY <1>2, <2>2, <2>4 DEF shard
<1> QED
  BY <1>1, <1>2

\* What AddressIsRight says of an answer, given the addresses and the shards.
NumberIsRight(ans, shards, addrs) ==
    LET p     == ans.pos
        shard == IF ans.admin.cc \in DOMAIN shards THEN shards[ans.admin.cc] ELSE <<>>
        oas   == {[pos |-> o.pos, hn |-> o.hn, road |-> o.street] : o \in ToSet(shard)}
        osm   == {[pos |-> a.pos, hn |-> a.hn,
                   road |-> IF a.isPlace THEN "" ELSE a.primary] : a \in addrs}
        reach == {a \in osm : Dist(p, a.pos) < MaxDist /\ Dist(p, a.pos) <= StreetWidth}
    IN  /\ reach # {} => ans.hn # 0
        /\ ans.confidence = "exact" =>
             \E a \in osm \cup oas :
                 /\ a.hn = ans.hn /\ a.road = ans.road
                 /\ \A b \in reach : Dist(p, a.pos) <= Dist(p, b.pos)

FallbackIsRight(ans, addrs) ==
    ans.confidence = "fallback" /\ ans.hn # 0 =>
        \E a \in addrs : a.isPlace /\ a.hn = ans.hn /\ Dist(ans.pos, a.pos) < MaxDist

\* What is not farther than a natural number below a bound is below the bound.
LEMMA BelowBound ==
    ASSUME NEW x \in Nat, NEW y \in Nat, NEW m \in Int, x <= y, y < m
    PROVE  x < m
OBVIOUS

\* What is nearer than a number is not farther than a larger one.
LEMMA NearerThan ==
    ASSUME NEW x \in Nat, NEW y \in Nat, NEW z \in Nat, x < y, y <= z
    PROVE  x <= z
OBVIOUS

\* Two sequences of one element are equal only if their elements are.
LEMMA OnlyElement ==
    ASSUME NEW a, NEW c, <<a>> = <<c>>
    PROVE  a = c
<1>1. <<a>>[1] = <<c>>[1]
  OBVIOUS
<1> QED
  BY <1>1

\* The point of the OpenAddresses shard or the address that gave an exact answer
\* is as near as every address in reach.
LEMMA AnswerOK ==
    ASSUME IInv, phase = "loaded", side \in Sides, NEW p \in Positions,
           NEW ans, ans = Answered(p, QueryAndAdmin(p))
    PROVE  /\ WithinCaps => NumberIsRight(ans, side.oa, WorldAddrs)
           /\ FallbackIsRight(ans, WorldAddrs)
<1> DEFINE admin == FindAdminWithPlace(p)
           oa == OaMatch(admin, p)
           addr == NearestAddr(p)
           interp == NearestInterp(p)
           q == WithPostcode(admin, GnafMatch(admin, p), oa)
           r == Assembled(WithRoad(p, FromNearest(p, q, oa, addr), interp, NearestStreet(p)),
                          FindPoi(p))
           A == OaAnswers(p, oa, addr)
           B == InReach(p, addr)
<1>1. p \in Int /\ MaxDist \in Int
  BY QueryAssumption
<1>2. QueryAndAdmin(p) = r
  BY DEF QueryAndAdmin, QueryInAdmin, Ladder
<1>3. DOMAIN q = AdminFields /\ q.cc = admin.cc
  <2>1. DOMAIN admin = AdminFields
    BY FindAdminIs
  <2> HIDE DEF admin, oa
  <2> QED
    BY <2>1, WithPostcodeIs
<1>4. \/ oa = <<>>
      \/ admin.cc \in DOMAIN side.oa /\ \E o \in ToSet(side.oa[admin.cc]) : oa = <<o>>
  BY <1>1, OaMatchIs
<1>5. /\ addr = <<>> \/ \E a \in WorldAddrs : addr = <<a>>
      /\ WithinCaps => \A b \in WorldAddrs : Dist(p, b.pos) <= StreetWidth =>
             \E a \in WorldAddrs : addr = <<a>> /\ Dist(p, a.pos) <= Dist(p, b.pos)
  BY <1>1, NearestAddrIs
<1>6. interp # <<>> => InterpolatedNumber(interp[1], Along(p, interp[1].nodes)) # 0
  <2>1. \/ interp = <<>>
        \/ \E w : interp = <<w>> /\ InterpolatedNumber(w, Along(p, w.nodes)) \in Nat \ {0}
    BY <1>1, NearestInterpIs
  <2> HIDE DEF interp
  <2> QED
    BY <2>1
<1> HIDE DEF admin, oa, addr, interp, q
<1>7. addr # <<>> => IsAddr(addr[1])
  BY <1>5, AddrsAreAddrs
<1>8. /\ r.confidence = "exact" =>
             /\ r.admin.cc = q.cc
             /\ \/ A /\ r.hn = oa[1].hn /\ r.road = oa[1].street
                \/ /\ ~A /\ B /\ r.hn = addr[1].hn
                   /\ r.road = IF addr[1].isPlace THEN "" ELSE addr[1].primary
      /\ B => r.hn # 0
      /\ r.confidence = "fallback" /\ r.hn # 0 => B /\ addr[1].isPlace /\ r.hn = addr[1].hn
  <2>1. LadderCases(r, p, q, oa, addr)
    BY <1>3, <1>6, <1>7, LadderIs
  <2> HIDE DEF r
  <2> QED
    BY <2>1 DEF LadderCases
<1> HIDE DEF r
<1>9. /\ ans.pos = p /\ ans.hn = r.hn /\ ans.road = r.road /\ ans.confidence = r.confidence
      /\ ans.admin = r.admin
  BY <1>2 DEF Answered
<1>10. ASSUME WithinCaps PROVE NumberIsRight(ans, side.oa, WorldAddrs)
  <2> DEFINE shard == IF ans.admin.cc \in DOMAIN side.oa THEN side.oa[ans.admin.cc] ELSE <<>>
             OaRec(o) == [pos |-> o.pos, hn |-> o.hn, road |-> o.street]
             Rec(a) == [pos |-> a.pos, hn |-> a.hn, road |-> IF a.isPlace THEN "" ELSE a.primary]
             oas == {OaRec(o) : o \in ToSet(shard)}
             osm == {Rec(a) : a \in WorldAddrs}
             reach == {a \in osm : Dist(p, a.pos) < MaxDist /\ Dist(p, a.pos) <= StreetWidth}
  <2>1. ASSUME NEW b \in reach
        PROVE  B /\ \E a \in WorldAddrs : addr = <<a>> /\ Dist(p, a.pos) <= Dist(p, b.pos)
    <3>1. PICK c \in WorldAddrs : b = Rec(c)
      OBVIOUS
    <3>2. b.pos = c.pos
      BY <3>1
    <3>3. Dist(p, c.pos) < MaxDist /\ Dist(p, c.pos) <= StreetWidth
      BY <3>2
    <3>4. PICK a \in WorldAddrs : addr = <<a>> /\ Dist(p, a.pos) <= Dist(p, c.pos)
      BY <1>5, <1>10, <3>3
    <3>5. a.pos \in Int /\ c.pos \in Int
      BY AddrPositions
    <3>6. Dist(p, a.pos) < MaxDist
      <4>1. Dist(p, a.pos) \in Nat /\ Dist(p, c.pos) \in Nat
        BY <1>1, <3>5, DistIs
      <4> HIDE DEF reach, osm, Rec
      <4> QED
        BY <1>1, <3>3, <3>4, <4>1, BelowBound
    <3> QED
      BY <3>2, <3>4, <3>6 DEF B, InReach
  <2>2. reach # {} => ans.hn # 0
    <3> HIDE DEF reach
    <3> QED
      BY <1>8, <1>9, <2>1
  <2>3. ASSUME ans.confidence = "exact"
        PROVE  \E a \in osm \cup oas : /\ a.hn = ans.hn /\ a.road = ans.road
                                       /\ \A b \in reach : Dist(p, a.pos) <= Dist(p, b.pos)
    <3>1. r.confidence = "exact"
      BY <1>9, <2>3
    <3>2. CASE A /\ r.hn = oa[1].hn /\ r.road = oa[1].street
      <4>1. oa # <<>> /\ (addr # <<>> => Dist(p, oa[1].pos) < Dist(p, addr[1].pos))
        BY <3>2 DEF OaAnswers
      <4>2. PICK o \in ToSet(side.oa[admin.cc]) : oa = <<o>> /\ admin.cc \in DOMAIN side.oa
        BY <1>4, <4>1
      <4>3. shard = side.oa[admin.cc]
        BY <1>3, <1>8, <1>9, <3>1, <4>2
      <4>4. OaRec(o) \in oas
        BY <4>3
      <4>5. OaRec(o).hn = ans.hn /\ OaRec(o).road = ans.road
        BY <1>9, <3>2, <4>2
      <4>6. ASSUME NEW b \in reach PROVE Dist(p, OaRec(o).pos) <= Dist(p, b.pos)
        <5>1. PICK a \in WorldAddrs : addr = <<a>> /\ Dist(p, a.pos) <= Dist(p, b.pos)
          BY <2>1
        <5>2. Dist(p, o.pos) < Dist(p, a.pos)
          BY <4>1, <4>2, <5>1
        <5>3. b.pos \in Int /\ a.pos \in Int /\ o.pos \in Int
          <6>1. PICK c \in WorldAddrs : b = Rec(c)
            OBVIOUS
          <6>2. b.pos = c.pos
            BY <6>1
          <6>3. o.pos \in Int
            BY <4>2, QueryAssumption
          <6> QED
            BY <6>2, <6>3, AddrPositions
        <5>4. Dist(p, o.pos) \in Nat /\ Dist(p, a.pos) \in Nat /\ Dist(p, b.pos) \in Nat
          BY <1>1, <5>3, DistIs
        <5>5. OaRec(o).pos = o.pos
          OBVIOUS
        <5> HIDE DEF reach, OaRec
        <5>6. Dist(p, o.pos) <= Dist(p, b.pos)
          BY <5>1, <5>2, <5>4, NearerThan
        <5> QED
          BY <5>5, <5>6
      <4> QED
        BY <4>4, <4>5, <4>6
    <3>3. CASE /\ ~A /\ B /\ r.hn = addr[1].hn
               /\ r.road = IF addr[1].isPlace THEN "" ELSE addr[1].primary
      <4>1. PICK a \in WorldAddrs : addr = <<a>>
        BY <1>5, <3>3 DEF InReach
      <4>2. Rec(a) \in osm
        OBVIOUS
      <4>3. Rec(a).hn = ans.hn /\ Rec(a).road = ans.road
        BY <1>9, <3>3, <4>1
      <4>4. ASSUME NEW b \in reach PROVE Dist(p, Rec(a).pos) <= Dist(p, b.pos)
        <5>1. PICK c \in WorldAddrs : addr = <<c>> /\ Dist(p, c.pos) <= Dist(p, b.pos)
          BY <2>1
        <5>2. c = a
          <6> HIDE DEF reach, Rec
          <6>1. <<c>> = <<a>>
            BY <4>1, <5>1
          <6> QED
            BY <6>1, OnlyElement
        <5>3. Rec(a).pos = a.pos
          OBVIOUS
        <5> QED
          BY <5>1, <5>2, <5>3
      <4> QED
        BY <4>2, <4>3, <4>4
    <3> QED
      BY <1>8, <3>1, <3>2, <3>3
  <2> HIDE DEF shard, oas, osm, reach
  <2>4. /\ reach # {} => ans.hn # 0
        /\ ans.confidence = "exact" =>
              \E a \in osm \cup oas : /\ a.hn = ans.hn /\ a.road = ans.road
                                      /\ \A b \in reach : Dist(p, a.pos) <= Dist(p, b.pos)
    BY <2>2, <2>3
  <2> DEFINE Says(z) ==
          LET near == {a \in osm : Dist(z, a.pos) < MaxDist /\ Dist(z, a.pos) <= StreetWidth}
          IN  /\ near # {} => ans.hn # 0
              /\ ans.confidence = "exact" =>
                    \E a \in osm \cup oas : /\ a.hn = ans.hn /\ a.road = ans.road
                                            /\ \A b \in near : Dist(z, a.pos) <= Dist(z, b.pos)
  <2>5. Says(p)
    BY <2>4, Zenon DEF reach
  <2>6. Says(ans.pos)
    <3> HIDE DEF Says
    <3> QED
      BY <1>9, <2>5
  <2> QED
    BY <2>6, Zenon DEF NumberIsRight, shard, oas, osm
<1>11. FallbackIsRight(ans, WorldAddrs)
  <2> SUFFICES ASSUME ans.confidence = "fallback", ans.hn # 0
               PROVE  \E a \in WorldAddrs : /\ a.isPlace /\ a.hn = ans.hn
                                            /\ Dist(ans.pos, a.pos) < MaxDist
    BY DEF FallbackIsRight
  <2>1. B /\ addr[1].isPlace /\ ans.hn = addr[1].hn
    BY <1>8, <1>9
  <2>2. addr # <<>> /\ Dist(p, addr[1].pos) < MaxDist
    BY <2>1 DEF InReach
  <2>3. PICK a \in WorldAddrs : addr = <<a>>
    BY <1>5, <2>2
  <2> QED
    BY <1>9, <2>1, <2>2, <2>3
<1> QED
  BY <1>10, <1>11

\* Besides IInv: a loaded index has a side index of Sides, there are answers of
\* loaded indexes only, and they are right.
AnswerInv ==
    /\ phase = "loaded" => side \in Sides
    /\ answer.asked => phase = "loaded"
    /\ answer.asked /\ WithinCaps => NumberIsRight(answer, side.oa, WorldAddrs)
    /\ answer.asked => FallbackIsRight(answer, WorldAddrs)

\* Once the index is loaded the builder does nothing any more.
LEMMA LoadedIsBuilt ==
    ASSUME IInv, phase = "loaded"
    PROVE  ~BuildNext
<1>1. file = {}
  BY DEF IInv
<1> QED
  BY <1>1 DEF BuildNext, OpenFile, HandleNode, HandleWay, HandleArea, FinalizeAdminHoles,
              ResolveInterpolation, DeduplicateAll, SortAddrPoints, WriteIndex, Advance

\* The builder, the load and a query keep answers right.
LEMMA AnswerInvKept ==
    ASSUME IInv, AnswerInv, [Next]_vars
    PROVE  AnswerInv'
<1>1. CASE BuildNext /\ UNCHANGED <<side, answer>>
  <2>1. phase # "loaded"
    BY <1>1, LoadedIsBuilt
  <2>2. phase' # "loaded"
    BY <1>1, <2>1 DEF BuildNext, OpenFile, HandleNode, HandleWay, HandleArea, FinalizeAdminHoles,
              ResolveInterpolation, DeduplicateAll, SortAddrPoints, WriteIndex, Advance, Handled
  <2>3. ~answer'.asked
    BY <1>1, <2>1 DEF AnswerInv
  <2> QED
    BY <2>2, <2>3 DEF AnswerInv
<1>2. CASE Load
  <2>1. side' \in Sides /\ answer' = answer /\ phase = "written"
    BY <1>2 DEF Load
  <2>2. ~answer'.asked
    BY <2>1 DEF AnswerInv
  <2> QED
    BY <2>1, <2>2 DEF AnswerInv
<1>3. CASE Query
  <2>1. phase = "loaded" /\ side \in Sides /\ UNCHANGED <<world, mem, phase, side>>
    BY <1>3 DEF Query, AnswerInv, buildVars
  <2>2. PICK p \in Positions : answer' = Answered(p, QueryAndAdmin(p))
    BY <1>3 DEF Query
  <2>3. /\ WithinCaps => NumberIsRight(answer', side.oa, WorldAddrs)
        /\ FallbackIsRight(answer', WorldAddrs)
    BY <2>1, <2>2, AnswerOK
  <2>4. WorldAddrs' = WorldAddrs
    BY <2>1 DEF WorldAddrs, Kinds
  <2>5. WithinCaps' = WithinCaps
    BY <2>1 DEF WithinCaps, Layers
  <2>6. /\ WithinCaps' => NumberIsRight(answer', side'.oa, WorldAddrs')
        /\ FallbackIsRight(answer', WorldAddrs')
    BY <2>1, <2>3, <2>4, <2>5
  <2> QED
    BY <2>1, <2>6 DEF AnswerInv
<1>4. CASE UNCHANGED vars
  <2>1. UNCHANGED <<world, mem, phase, side, answer>>
    BY <1>4 DEF vars, buildVars
  <2>2. WorldAddrs' = WorldAddrs
    BY <2>1 DEF WorldAddrs, Kinds
  <2>3. WithinCaps' = WithinCaps
    BY <2>1 DEF WithinCaps, Layers
  <2> QED
    BY <2>1, <2>2, <2>3 DEF AnswerInv
<1> QED
  BY <1>1, <1>2, <1>3, <1>4 DEF Next

\* The house number of an answer is the right one, for every input, every side
\* index and every position: an exact one is that of an address or OpenAddresses
\* point that no address within a cell's width is nearer than, an address in
\* reach is never passed over, and a fallback with a number is an address of a
\* place (AddressIsRight).
THEOREM AddressIsRightHolds == Spec => []AddressIsRight
<1>1. InitAll => AnswerInv
  <2> SUFFICES ASSUME InitAll PROVE AnswerInv
    OBVIOUS
  <2>1. phase = "read" /\ answer = NoAnswer
    BY DEF InitAll, Init
  <2> QED
    BY <2>1 DEF NoAnswer, AnswerInv
<1>2. AnswerInv => AddressIsRight
  <2> SUFFICES ASSUME AnswerInv PROVE AddressIsRight
    OBVIOUS
  <2>1. NearestAddressAnswers
    BY Zenon DEF AnswerInv, NumberIsRight, NearestAddressAnswers
  <2>2. FallbackNumberIsOfPlace
    BY DEF AnswerInv, FallbackIsRight, FallbackNumberIsOfPlace
  <2> QED
    BY <2>1, <2>2 DEF AddressIsRight
<1>3. IInv /\ AnswerInv /\ [Next]_vars => AnswerInv'
  BY AnswerInvKept
<1> QED
  BY <1>1, <1>2, <1>3, Invariance, PTL DEF Spec

-----------------------------------------------------------------------------
(* Areas: what the admin layer of the memory holds.                          *)

\* The positions of an admin cell.
CellPoints(c) == c * AdminWidth..(c + 1) * AdminWidth - 1

\* The holes of a ring that are not tiny.
BigHoles(r) == {h \in r.holes : h.size >= MinHole}

\* A ring r of an area a, as a polygon with some shape.
PolygonOf(a, r, shape) ==
    [level |-> a.level, name |-> a.name, cc |-> a.cc,
     area |-> Cardinality(r.outer), shape |-> shape]

\* The ring without the holes that no ring of its level fills.
CutShape(a, r, keys) ==
    r.outer \ CutHoles(r, {h \in BigHoles(r) : <<a.level, h.key>> \notin keys})

\* What a polygon is in the end, given the keys of all the rings.
FinalShape(a, r, keys) == IF BigHoles(r) = {} THEN r.outer ELSE CutShape(a, r, keys)

\* Polygon k is still to get its holes: it is in the list P from a position on.
Waiting(k, P, from) == \E j \in from..Len(P) : P[j].poly_id = k

\* Polygon k is that of ring r of area a.  It has no shape while it waits;
\* afterwards it has the final one, which counts on no key as long as there is
\* nothing to cut.
OfRing(m, P, from, cut, k, a, r) ==
    LET shape == m.admin_polygons[k + 1].shape
    IN  /\ m.admin_polygons[k + 1] = PolygonOf(a, r, shape)
        /\ IF Waiting(k, P, from)
           THEN /\ shape = {} /\ BigHoles(r) # {}
                /\ \E j \in from..Len(P) :
                       P[j] = [poly_id |-> k, ring |-> r, holes |-> BigHoles(r)]
           ELSE /\ shape = FinalShape(a, r, m.indexed_outer_ring_keys)
                /\ cut \/ BigHoles(r) = {}

\* An id in a cell is that of a polygon, or flagged and the whole cell is inside.
IsEntry(polys, c, x) ==
    \/ x \in 0..Len(polys) - 1
    \/ \E k \in 0..Len(polys) - 1 :
           x = k + INTERIOR_FLAG /\ CellPoints(c) \subseteq polys[k + 1].shape

\* A cell lists polygon k, with the flag or without.
Lists(map, c, k) ==
    c \in DOMAIN map /\ (k \in ToSet(map[c]) \/ k + INTERIOR_FLAG \in ToSet(map[c]))

\* The admin layer holds the rings R, pairs of an area and a ring.
Holds(m, R, P, from, cut) ==
    /\ IsCellMap(m.cell_to_admin)
    /\ \A c \in DOMAIN m.cell_to_admin : \A x \in ToSet(m.cell_to_admin[c]) :
           IsEntry(m.admin_polygons, c, x)
    /\ \A k \in 0..Len(m.admin_polygons) - 1 : \A p \in m.admin_polygons[k + 1].shape :
           Lists(m.cell_to_admin, AdminCell(p), k)
    /\ \A k \in 0..Len(m.admin_polygons) - 1 :
           \E s \in R : OfRing(m, P, from, cut, k, s[1], s[2])
    /\ \A s \in R : \E k \in 0..Len(m.admin_polygons) - 1 :
           OfRing(m, P, from, cut, k, s[1], s[2])
    /\ m.indexed_outer_ring_keys = {<<s[1].level, s[2].key>> : s \in R}
    /\ \A x \in m.i18n_names : \E k \in 0..Len(m.admin_polygons) - 1 : \E s \in R :
           x = <<k, s[1].local>> /\ m.admin_polygons[k + 1].name = s[1].name
    /\ \A i, j \in 1..Len(P) : i < j => P[i].poly_id < P[j].poly_id

\* An area of S that is indexed: it has a level and a name and is not a way that
\* a boundary relation stands for.
Emitted(a, S) ==
    /\ a.kind = "area" /\ a.level # 0 /\ a.name # ""
    /\ \A x \in S : x.kind = "area" /\ x.level = a.level /\ x.name = a.name => a.way \notin x.members

\* The rings of an area that have not collapsed.
RingsOf(a) == {<<a, r>> : r \in {x \in ToSet(a.rings) : x.outer # {}}}

\* The rings of the indexed areas among some of the objects.
EmittedRings(some, S) ==
    UNION {RingsOf(a) : a \in {x \in some : Emitted(x, S)}}

\* The member ways of the boundary relations among some of the objects.
Members(some) ==
    UNION {{<<w, x.level, x.name>> : w \in x.members} :
           x \in {y \in some : y.kind = "area" /\ y.level # 0}}

\* The invariant of the admin layer: it holds the rings of the handled areas, and
\* the relations of a way are in the files opened so far, so that
\* boundary_member_ways is complete for the ways that can come.
AreaInv ==
    /\ mem.boundary_member_ways = Members(world \ todo)
    /\ \A a, x \in world : a.kind = "area" /\ x.kind = "area" /\ a \notin todo /\ a.way \in x.members
                           => x \notin todo
    /\ Holds(mem, EmittedRings(world \ (todo \cup file), world), mem.pending_admin_holes, 1,
             phase # "read")
    /\ phase # "read" => mem.pending_admin_holes = <<>>

\* The polygons that an input makes, whatever files it comes in.
PolygonsOf(S) ==
    LET rings == EmittedRings(S, S)
        keys  == {<<s[1].level, s[2].key>> : s \in rings}
    IN  {PolygonOf(s[1], s[2], FinalShape(s[1], s[2], keys)) : s \in rings}

\* The admin polygons of a written index are those of the input.
PolygonsAreOfInput ==
    phase \in {"written", "loaded"} => ToSet(files.admin_polygons) = PolygonsOf(world)

\* A finite set of positions lies between its least and its greatest.
LEMMA Bounds ==
    ASSUME NEW S, S \subseteq Int, IsFiniteSet(S), S # {}
    PROVE  /\ Min(S) \in Int /\ Max(S) \in Int
           /\ \A x \in S : x \in Min(S)..Max(S)
<1> DEFINE a == Ascending(S)
           n == Len(a)
<1>1. /\ a \in Seq(S) /\ \A i, j \in 1..n : i < j => a[i] < a[j]
      /\ \A x \in S : \E i \in 1..n : a[i] = x
  BY AscendingSorted
<1> HIDE DEF a
<1>2. n \in Nat /\ \A i \in 1..n : a[i] \in S /\ a[i] \in Int
  <2>1. Len(a) \in Nat /\ \A i \in 1..Len(a) : a[i] \in S
    BY <1>1
  <2> QED
    BY <2>1
<1>3. n >= 1
  <2>1. PICK x \in S : TRUE
    OBVIOUS
  <2>2. PICK i \in 1..n : a[i] = x
    BY <1>1, <2>1
  <2> QED
    BY <1>2, <2>2
<1>4. ASSUME NEW x \in S PROVE a[1] <= x /\ x <= a[n]
  <2>1. PICK i \in 1..n : a[i] = x
    BY <1>1
  <2>2. 1 \in 1..n /\ n \in 1..n /\ (i = 1 \/ 1 < i) /\ (i = n \/ i < n)
    BY <1>2, <1>3
  <2> QED
    BY <1>1, <1>2, <2>1, <2>2
<1>5. a[1] \in S /\ a[n] \in S
  BY <1>2, <1>3
<1>6. /\ \E x \in S : \A y \in S : x <= y
      /\ \E x \in S : \A y \in S : x >= y
  <2>1. \A y \in S : a[1] <= y
    BY <1>4
  <2>2. \A y \in S : y \in Int /\ a[n] \in Int
    BY <1>5
  <2>3. \A y \in S : a[n] >= y
    BY <1>4, <2>2
  <2> QED
    BY <1>5, <2>1, <2>3
<1>7. Min(S) \in S /\ \A y \in S : Min(S) <= y
  BY <1>6, Zenon DEF Min
<1>8. Max(S) \in S /\ \A y \in S : Max(S) >= y
  BY <1>6, Zenon DEF Max
<1>9. \A y \in S : y \in Int
  OBVIOUS
<1> HIDE DEF n
<1>10. PICK lo \in Int : lo = Min(S)
  BY <1>7, <1>9
<1>11. PICK hi \in Int : hi = Max(S)
  BY <1>8, <1>9
<1>12. \A x \in S : lo <= x /\ x <= hi
  BY <1>7, <1>8, <1>9, <1>10, <1>11
<1>13. \A x \in S : x \in lo..hi
  BY <1>9, <1>12
<1> QED
  BY <1>10, <1>11, <1>13

\* An admin cell has positions, and those of a position's cell are around it.
LEMMA AdminCellType ==
    ASSUME NEW p \in Int
    PROVE  AdminCell(p) \in Int /\ p \in CellPoints(AdminCell(p))
<1> DEFINE W == AdminWidth
<1>1. W \in Nat /\ W > 0
  BY WidthsAssumption
<1> HIDE DEF W
<1>2. PICK c \in Int : c = p \div W
  BY <1>1
<1>3. p - W * c \in 0..W - 1
  BY <1>1, <1>2
<1>4. PICK x \in Int : x = W * c
  BY <1>1
<1>5. c * W = x /\ (c + 1) * W = x + W
  BY <1>1, <1>4
<1>6. p \in c * W..(c + 1) * W - 1
  BY <1>1, <1>3, <1>4, <1>5
<1> QED
  BY <1>2, <1>6 DEF AdminCell, CellPoints, W

\* A cell is never empty.
LEMMA CellHasPoints ==
    ASSUME NEW c \in Int
    PROVE  CellPoints(c) # {}
<1> DEFINE W == AdminWidth
<1>1. W \in Nat /\ W > 0
  BY WidthsAssumption
<1> HIDE DEF W
<1>2. PICK x \in Int : x = c * W
  BY <1>1
<1>3. (c + 1) * W = x + W
  BY <1>1, <1>2
<1>4. x \in c * W..(c + 1) * W - 1
  BY <1>1, <1>2, <1>3
<1> QED
  BY <1>4 DEF CellPoints, W

\* A ring that has not collapsed, as the assembler makes it.
IsRing(r) == r.outer \subseteq Int /\ IsFiniteSet(r.outer) /\ r.outer # {}

CoverCells(ring, shape) == {x.cell : x \in CoverPolygon(ring, shape)}
InsideCells(ring, shape) == {x.cell : x \in {y \in CoverPolygon(ring, shape) : y.interior}}

\* cover_polygon covers the shape by finitely many cells, and calls only those
\* inside that are.
LEMMA CoverIs ==
    ASSUME NEW ring, IsRing(ring), NEW shape, shape \subseteq ring.outer
    PROVE  /\ CoverCells(ring, shape) \subseteq Int /\ IsFiniteSet(CoverCells(ring, shape))
           /\ \A p \in shape : AdminCell(p) \in CoverCells(ring, shape)
           /\ InsideCells(ring, shape) \subseteq CoverCells(ring, shape)
           /\ \A c \in InsideCells(ring, shape) : CellPoints(c) \subseteq shape
<1> DEFINE C == CoverCells(ring, shape)
           I == InsideCells(ring, shape)
<1>1. ring.outer \subseteq Int /\ IsFiniteSet(ring.outer) /\ ring.outer # {}
  BY DEF IsRing
<1>2. shape \subseteq Int /\ IsFiniteSet(shape)
  BY <1>1, FS_Subset
<1>3. I \subseteq C
  BY DEF InsideCells, CoverCells
<1>4. CASE ring.valid
  <2> DEFINE f == [p \in shape |-> AdminCell(p)]
             Cell(c) == [cell |-> c, interior |-> \A p \in c * AdminWidth..(c + 1) * AdminWidth - 1 :
                                                      p \in shape]
             T == {f[p] : p \in shape}
  <2>1. CoverPolygon(ring, shape) = {Cell(c) : c \in {AdminCell(p) : p \in shape}}
    BY <1>4 DEF CoverPolygon
  <2>2. {AdminCell(p) : p \in shape} = T /\ f = [p \in shape |-> f[p]]
        /\ \A p \in shape : f[p] = AdminCell(p)
    OBVIOUS
  <2> HIDE DEF f
  <2>3. IsFiniteSet(T)
    BY <1>2, <2>2, FiniteImage
  <2>4. T \subseteq Int
    BY <1>2, <2>2, AdminCellType
  <2>5. \A p \in shape : AdminCell(p) \in T
    BY <2>2
  <2>6. \A c : Cell(c).cell = c /\ (Cell(c).interior <=> CellPoints(c) \subseteq shape)
    BY DEF CellPoints
  <2> HIDE DEF T, Cell
  <2>7. CoverPolygon(ring, shape) = {Cell(c) : c \in T}
    BY <2>1, <2>2
  <2>8. C = T
    BY <2>6, <2>7 DEF CoverCells
  <2>9. \A c \in I : CellPoints(c) \subseteq shape
    BY <2>6, <2>7 DEF InsideCells
  <2> QED
    BY <1>3, <2>3, <2>4, <2>5, <2>8, <2>9
<1>5. CASE ~ring.valid
  <2> DEFINE B == Min(ring.outer)..Max(ring.outer)
             f == [p \in B |-> AdminCell(p)]
             Cell(p) == [cell |-> AdminCell(p), interior |-> FALSE]
             T == {f[p] : p \in B}
  <2>1. CoverPolygon(ring, shape) = {Cell(p) : p \in B}
    BY <1>5 DEF CoverPolygon
  <2>2. /\ Min(ring.outer) \in Int /\ Max(ring.outer) \in Int
        /\ \A x \in ring.outer : x \in B
    BY <1>1, Bounds
  <2>3. B \subseteq Int /\ IsFiniteSet(B)
    BY <2>2, FS_Interval
  <2>4. f = [p \in B |-> f[p]] /\ \A p \in B : f[p] = AdminCell(p)
    OBVIOUS
  <2>5. \A p : Cell(p).cell = AdminCell(p) /\ ~Cell(p).interior
    OBVIOUS
  <2> HIDE DEF B, f, Cell
  <2>6. IsFiniteSet(T)
    BY <2>3, <2>4, FiniteImage
  <2>7. T \subseteq Int /\ \A p \in B : AdminCell(p) \in T
    BY <2>3, <2>4, AdminCellType
  <2>8. C = T
    BY <2>1, <2>4, <2>5 DEF CoverCells
  <2>9. I = {}
    BY <2>1, <2>5 DEF InsideCells
  <2>10. \A p \in shape : AdminCell(p) \in T
    BY <2>2, <2>7
  <2> QED
    BY <1>3, <2>6, <2>7, <2>8, <2>9, <2>10
<1> QED
  BY <1>4, <1>5

\* The fields of the memory that the areas are about.
AreaFieldsKept(m, n) ==
    /\ n.admin_polygons = m.admin_polygons /\ n.cell_to_admin = m.cell_to_admin
    /\ n.indexed_outer_ring_keys = m.indexed_outer_ring_keys /\ n.i18n_names = m.i18n_names
    /\ n.pending_admin_holes = m.pending_admin_holes
    /\ n.boundary_member_ways = m.boundary_member_ways

\* What the cells list once those of a shape are added for polygon id: what they
\* listed before, the polygon in every cell of the shape, and with the flag only
\* where the whole cell is inside.
CellsAdded(old, new, id, shape) ==
    /\ IsCellMap(new)
    /\ \A c \in DOMAIN old : c \in DOMAIN new /\ ToSet(old[c]) \subseteq ToSet(new[c])
    /\ \A p \in shape : Lists(new, AdminCell(p), id)
    /\ \A c \in DOMAIN new : \A x \in ToSet(new[c]) :
           \/ c \in DOMAIN old /\ x \in ToSet(old[c])
           \/ x = id
           \/ x = id + INTERIOR_FLAG /\ CellPoints(c) \subseteq shape

\* The cells of a shape are added, and nothing else is changed.
LEMMA CellsAreAdded ==
    ASSUME NEW m, DOMAIN m = MemFields, IsCellMap(m.cell_to_admin), NEW id \in Nat,
           NEW ring, IsRing(ring), NEW shape, shape \subseteq ring.outer
    PROVE  LET r == AddAdminCells(m, id, ring, shape)
           IN  /\ DOMAIN r = MemFields
               /\ AreaFieldsKept(m, [r EXCEPT !.cell_to_admin = m.cell_to_admin])
               /\ CellsAdded(m.cell_to_admin, r.cell_to_admin, id, shape)
<1> DEFINE C == CoverCells(ring, shape)
           I == InsideCells(ring, shape)
           old == m.cell_to_admin
           one == PushAll(old, C \ I, id)
           two == PushAll(one, I, id + INTERIOR_FLAG)
           r == AddAdminCells(m, id, ring, shape)
<1>1. r = [m EXCEPT !.cell_to_admin = two]
  BY Zenon DEF AddAdminCells, CoverCells, InsideCells
<1>2. /\ C \subseteq Int /\ IsFiniteSet(C) /\ I \subseteq C
      /\ \A p \in shape : AdminCell(p) \in C
      /\ \A c \in I : CellPoints(c) \subseteq shape
  BY CoverIs
<1>3. IsFiniteSet(C \ I) /\ IsFiniteSet(I) /\ C \ I \subseteq Int /\ I \subseteq Int
  BY <1>2, FS_Subset
<1>4. id + INTERIOR_FLAG \in Nat
  BY DEF INTERIOR_FLAG
<1> HIDE DEF C, I, r
<1>5. /\ IsCellMap(one) /\ DOMAIN one = DOMAIN old \cup (C \ I)
      /\ \A c \in DOMAIN old \cup (C \ I) : ToSet(one[c]) = Pushed(old, C \ I, id, c)
  BY <1>3, PushCellMap, PushIds DEF IsCellMap
<1> HIDE DEF one
<1>6. /\ IsCellMap(two) /\ DOMAIN two = DOMAIN one \cup I
      /\ \A c \in DOMAIN one \cup I : ToSet(two[c]) = Pushed(one, I, id + INTERIOR_FLAG, c)
  BY <1>3, <1>4, <1>5, PushCellMap, PushIds DEF IsCellMap
<1> HIDE DEF two, old
<1>7. \A c \in DOMAIN old : c \in DOMAIN two /\ ToSet(old[c]) \subseteq ToSet(two[c])
  BY <1>5, <1>6 DEF Pushed
<1>8. \A c \in C : Lists(two, c, id)
  <2> SUFFICES ASSUME NEW c \in C PROVE Lists(two, c, id)
    OBVIOUS
  <2>1. CASE c \in I
    BY <1>6, <2>1 DEF Lists, Pushed
  <2>2. CASE c \notin I
    <3>1. c \in DOMAIN one /\ id \in ToSet(one[c])
      BY <1>5, <2>2 DEF Pushed
    <3> QED
      BY <1>6, <3>1 DEF Lists, Pushed
  <2> QED
    BY <2>1, <2>2
<1>9. ASSUME NEW c \in DOMAIN two, NEW x \in ToSet(two[c])
      PROVE  \/ c \in DOMAIN old /\ x \in ToSet(old[c])
             \/ x = id
             \/ x = id + INTERIOR_FLAG /\ CellPoints(c) \subseteq shape
  <2>1. x \in Pushed(one, I, id + INTERIOR_FLAG, c) /\ c \in DOMAIN one \cup I
    BY <1>6
  <2>2. \/ c \in DOMAIN one /\ x \in ToSet(one[c])
        \/ c \in I /\ x = id + INTERIOR_FLAG
    BY <2>1 DEF Pushed
  <2>3. c \in DOMAIN one /\ x \in ToSet(one[c]) => x = id \/ (c \in DOMAIN old /\ x \in ToSet(old[c]))
    BY <1>5 DEF Pushed
  <2> QED
    BY <1>2, <2>2, <2>3
<1>10. CellsAdded(old, two, id, shape)
  BY <1>2, <1>6, <1>7, <1>8, <1>9 DEF CellsAdded
<1>11. /\ DOMAIN r = MemFields /\ r.cell_to_admin = two
       /\ AreaFieldsKept(m, [r EXCEPT !.cell_to_admin = m.cell_to_admin])
  BY <1>1 DEF AreaFieldsKept, MemFields
<1>12. /\ DOMAIN r = MemFields
       /\ AreaFieldsKept(m, [r EXCEPT !.cell_to_admin = m.cell_to_admin])
       /\ CellsAdded(m.cell_to_admin, r.cell_to_admin, id, shape)
  BY <1>10, <1>11 DEF old
<1> QED
  BY <1>12, Zenon DEF r

-----------------------------------------------------------------------------
(* A ring that is added. *)

\* What add_admin_polygon does for a ring that has not collapsed: a polygon, its
\* key and its translation; its cells, or an entry in the list of those that wait.
RingEffect(m, r, area, ring) ==
    LET id    == Len(m.admin_polygons)
        shape == IF BigHoles(ring) = {} THEN ring.outer ELSE {}
        entry == [poly_id |-> id, ring |-> ring, holes |-> BigHoles(ring)]
    IN  /\ r.admin_polygons = Append(m.admin_polygons, PolygonOf(area, ring, shape))
        /\ r.indexed_outer_ring_keys = m.indexed_outer_ring_keys \cup {<<area.level, ring.key>>}
        /\ r.i18n_names \subseteq m.i18n_names \cup {<<id, area.local>>}
        /\ r.boundary_member_ways = m.boundary_member_ways
        /\ CellsAdded(m.cell_to_admin, r.cell_to_admin, id, shape)
        /\ r.pending_admin_holes = IF BigHoles(ring) = {} THEN m.pending_admin_holes
                                   ELSE Append(m.pending_admin_holes, entry)

\* add_admin_polygon has this effect, with or without holes.
LEMMA RingHasEffect ==
    ASSUME NEW m, DOMAIN m = MemFields, Len(m.admin_polygons) \in Nat, IsCellMap(m.cell_to_admin),
           NEW area, NEW ring, IsRing(ring)
    PROVE  RingEffect(m, AddAdminPolygon(m, area, ring), area, ring)
<1> DEFINE id    == Len(m.admin_polygons)
           holes == {h \in ring.holes : h.size >= MinHole}
           shape == IF holes = {} THEN ring.outer ELSE {}
           polys == Append(m.admin_polygons, PolygonOf(area, ring, shape))
           keys  == m.indexed_outer_ring_keys \cup {<<area.level, ring.key>>}
           names == IF area.local = "" THEN m.i18n_names ELSE m.i18n_names \cup {<<id, area.local>>}
           added == [m EXCEPT !.admin_polygons = polys, !.indexed_outer_ring_keys = keys,
                              !.i18n_names = names]
           entry == [poly_id |-> id, ring |-> ring, holes |-> holes]
           wait  == Append(added.pending_admin_holes, entry)
           r     == AddAdminPolygon(m, area, ring)
           x     == AddAdminCells(added, id, ring, ring.outer)
           y     == [added EXCEPT !.pending_admin_holes = wait]
<1>1. r = CASE ring.outer = {} -> m
            [] ring.outer # {} /\ holes = {} -> x
            [] OTHER -> y
  BY Zenon DEF AddAdminPolygon, NextId, PolygonOf
<1>2. ring.outer # {}
  BY DEF IsRing
<1>3. holes = BigHoles(ring)
  BY DEF BigHoles
<1>4. names \subseteq m.i18n_names \cup {<<id, area.local>>}
  OBVIOUS
<1> HIDE DEF polys, keys, names, holes, r, x
<1>5. /\ DOMAIN added = MemFields
      /\ added.admin_polygons = polys /\ added.indexed_outer_ring_keys = keys
      /\ added.i18n_names = names /\ added.boundary_member_ways = m.boundary_member_ways
      /\ added.cell_to_admin = m.cell_to_admin
      /\ added.pending_admin_holes = m.pending_admin_holes
  BY DEF MemFields
<1> HIDE DEF added
<1>6. CASE holes = {}
  <2>1. r = x
    BY <1>1, <1>2, <1>6
  <2>2. /\ DOMAIN x = MemFields
        /\ AreaFieldsKept(added, [x EXCEPT !.cell_to_admin = added.cell_to_admin])
        /\ CellsAdded(added.cell_to_admin, x.cell_to_admin, id, ring.outer)
    BY <1>5, CellsAreAdded DEF x
  <2>3. /\ x.admin_polygons = added.admin_polygons
        /\ x.indexed_outer_ring_keys = added.indexed_outer_ring_keys
        /\ x.i18n_names = added.i18n_names
        /\ x.boundary_member_ways = added.boundary_member_ways
        /\ x.pending_admin_holes = added.pending_admin_holes
    BY <2>2 DEF AreaFieldsKept, MemFields
  <2>4. shape = ring.outer
    BY <1>6
  <2> HIDE DEF id, shape
  <2>5. RingEffect(m, x, area, ring)
    BY <1>3, <1>4, <1>5, <1>6, <2>2, <2>3, <2>4 DEF RingEffect, id, polys, keys, shape
  <2> QED
    BY <2>1, <2>5 DEF r
<1>7. CASE holes # {}
  <2>1. r = y
    BY <1>1, <1>2, <1>7
  <2>2. /\ y.admin_polygons = polys /\ y.indexed_outer_ring_keys = keys
        /\ y.i18n_names = names /\ y.boundary_member_ways = m.boundary_member_ways
        /\ y.cell_to_admin = m.cell_to_admin
        /\ y.pending_admin_holes = Append(m.pending_admin_holes, entry)
    BY <1>5 DEF MemFields
  <2>3. CellsAdded(m.cell_to_admin, m.cell_to_admin, id, {})
    BY DEF CellsAdded
  <2>4. shape = {}
    BY <1>7
  <2> HIDE DEF y, shape
  <2>5. CellsAdded(m.cell_to_admin, y.cell_to_admin, id, shape)
    BY <2>2, <2>3, <2>4
  <2> HIDE DEF id
  <2>6. RingEffect(m, y, area, ring)
    BY <1>3, <1>4, <1>7, <2>2, <2>5, Zenon DEF RingEffect, id, polys, keys, shape
  <2> QED
    BY <2>1, <2>6 DEF r
<1> QED
  BY <1>6, <1>7

\* The ring joins those that the admin layer holds.
LEMMA RingJoins ==
    ASSUME NEW m, AdminOK(m), NEW R, Holds(m, R, m.pending_admin_holes, 1, FALSE),
           NEW area, NEW ring, IsRing(ring), NEW r, RingEffect(m, r, area, ring)
    PROVE  Holds(r, R \cup {<<area, ring>>}, r.pending_admin_holes, 1, FALSE)
<1> DEFINE polys == m.admin_polygons
           polys2 == r.admin_polygons
           n == Len(polys)
           P == m.pending_admin_holes
           P2 == r.pending_admin_holes
           l == Len(P)
           shape == IF BigHoles(ring) = {} THEN ring.outer ELSE {}
           g == PolygonOf(area, ring, shape)
           entry == [poly_id |-> n, ring |-> ring, holes |-> BigHoles(ring)]
           S == R \cup {<<area, ring>>}
<1>1. /\ IsSeq(polys) /\ n \in Nat /\ IsSeq(P) /\ l \in Nat
      /\ \A j \in 1..l : P[j].poly_id \in 0..n - 1
  BY DEF AdminOK, PendingExist, IsSeq
<1>2. /\ Len(polys2) = n + 1 /\ polys2[n + 1] = g
      /\ \A i \in 1..n : polys2[i] = polys[i]
  <2>1. polys2 = Append(polys, g)
    BY Zenon DEF RingEffect
  <2> QED
    BY <1>1, <2>1, AppendIsSeq
<1>3. /\ r.indexed_outer_ring_keys = m.indexed_outer_ring_keys \cup {<<area.level, ring.key>>}
      /\ r.i18n_names \subseteq m.i18n_names \cup {<<n, area.local>>}
      /\ CellsAdded(m.cell_to_admin, r.cell_to_admin, n, shape)
      /\ P2 = IF BigHoles(ring) = {} THEN P ELSE Append(P, entry)
  BY Zenon DEF RingEffect
<1>4. /\ g.shape = shape /\ g.name = area.name /\ g = PolygonOf(area, ring, g.shape)
      /\ entry.poly_id = n
  BY DEF PolygonOf
<1>5. \A k \in 0..n - 1 : k + 1 \in 1..n /\ polys2[k + 1] = polys[k + 1]
  BY <1>1, <1>2
<1>6. /\ IsSeq(P2) /\ Len(P2) \in Nat
      /\ \A j \in 1..l : j \in 1..Len(P2) /\ P2[j] = P[j]
      /\ \A j \in 1..Len(P2) : j \in 1..l \/ (j = l + 1 /\ BigHoles(ring) # {} /\ P2[j] = entry)
      /\ BigHoles(ring) # {} => l + 1 \in 1..Len(P2) /\ P2[l + 1] = entry
  <2>1. CASE BigHoles(ring) = {}
    BY <1>1, <1>3, <2>1
  <2>2. CASE BigHoles(ring) # {}
    <3>1. P2 = Append(P, entry)
      BY <1>3, <2>2
    <3> HIDE DEF entry
    <3>2. /\ IsSeq(P2) /\ Len(P2) = l + 1 /\ P2[l + 1] = entry
          /\ \A j \in 1..l : P2[j] = P[j]
      BY <1>1, <3>1, AppendIsSeq
    <3> QED
      BY <1>1, <2>2, <3>2
  <2> QED
    BY <2>1, <2>2
<1> HIDE DEF polys2, P2, g, entry, shape, S
<1>7. \A k \in 0..n - 1 : Waiting(k, P2, 1) <=> Waiting(k, P, 1)
  <2> SUFFICES ASSUME NEW k \in 0..n - 1 PROVE Waiting(k, P2, 1) <=> Waiting(k, P, 1)
    OBVIOUS
  <2>1. k # n
    BY <1>1
  <2> QED
    BY <1>4, <1>6, <2>1 DEF Waiting
<1>8. Waiting(n, P2, 1) <=> BigHoles(ring) # {}
  <2>1. \A j \in 1..l : P[j].poly_id # n
    BY <1>1
  <2> QED
    BY <1>4, <1>6, <2>1 DEF Waiting
<1>9. ASSUME NEW k \in 0..n - 1, NEW a, NEW q, OfRing(m, P, 1, FALSE, k, a, q)
      PROVE  OfRing(r, P2, 1, FALSE, k, a, q)
  <2>1. polys2[k + 1] = polys[k + 1]
    BY <1>5
  <2>2. CASE Waiting(k, P, 1)
    <3>1. /\ polys[k + 1] = PolygonOf(a, q, polys[k + 1].shape)
          /\ polys[k + 1].shape = {} /\ BigHoles(q) # {}
      BY <1>9, <2>2 DEF OfRing
    <3>2. PICK j \in 1..l : P[j] = [poly_id |-> k, ring |-> q, holes |-> BigHoles(q)]
      BY <1>9, <2>2 DEF OfRing
    <3>3. j \in 1..Len(P2) /\ P2[j] = [poly_id |-> k, ring |-> q, holes |-> BigHoles(q)]
      BY <1>6, <3>2
    <3>4. Waiting(k, P2, 1)
      BY <1>7, <2>2
    <3> QED
      BY <2>1, <3>1, <3>3, <3>4 DEF OfRing, polys2
  <2>3. CASE ~Waiting(k, P, 1)
    <3>1. /\ polys[k + 1] = PolygonOf(a, q, polys[k + 1].shape)
          /\ polys[k + 1].shape = FinalShape(a, q, m.indexed_outer_ring_keys) /\ BigHoles(q) = {}
      BY <1>9, <2>3 DEF OfRing
    <3>2. FinalShape(a, q, m.indexed_outer_ring_keys) = FinalShape(a, q, r.indexed_outer_ring_keys)
      BY <3>1 DEF FinalShape
    <3>3. ~Waiting(k, P2, 1)
      BY <1>7, <2>3
    <3> QED
      BY <2>1, <3>1, <3>2, <3>3 DEF OfRing, polys2
  <2> QED
    BY <2>2, <2>3
<1>10. OfRing(r, P2, 1, FALSE, n, area, ring)
  <2>1. polys2[n + 1] = PolygonOf(area, ring, polys2[n + 1].shape) /\ polys2[n + 1].shape = shape
    BY <1>2, <1>4
  <2>2. CASE BigHoles(ring) # {}
    <3>1. Waiting(n, P2, 1) /\ shape = {}
      BY <1>8, <2>2 DEF shape
    <3>2. l + 1 \in 1..Len(P2) /\ P2[l + 1] = [poly_id |-> n, ring |-> ring, holes |-> BigHoles(ring)]
      BY <1>6, <2>2 DEF entry
    <3> QED
      BY <2>1, <2>2, <3>1, <3>2 DEF OfRing, polys2
  <2>3. CASE BigHoles(ring) = {}
    <3>1. ~Waiting(n, P2, 1) /\ shape = FinalShape(area, ring, r.indexed_outer_ring_keys)
      BY <1>8, <2>3 DEF shape, FinalShape
    <3> QED
      BY <2>1, <2>3, <3>1 DEF OfRing, polys2
  <2> QED
    BY <2>2, <2>3
<1>11. \A k \in 0..n : k \in 0..n - 1 \/ k = n
  BY <1>1
<1>12. Len(polys2) - 1 = n /\ 0..Len(polys2) - 1 = 0..n /\ n \in 0..n /\ \A k \in 0..n - 1 : k \in 0..n
  BY <1>1, <1>2
<1>13. /\ IsCellMap(r.cell_to_admin)
       /\ \A c \in DOMAIN r.cell_to_admin : \A x \in ToSet(r.cell_to_admin[c]) : IsEntry(polys2, c, x)
  <2>1. IsCellMap(r.cell_to_admin)
    BY <1>3 DEF CellsAdded
  <2>2. ASSUME NEW c \in DOMAIN r.cell_to_admin, NEW x \in ToSet(r.cell_to_admin[c])
        PROVE  IsEntry(polys2, c, x)
    <3>1. \/ c \in DOMAIN m.cell_to_admin /\ x \in ToSet(m.cell_to_admin[c])
          \/ x = n
          \/ x = n + INTERIOR_FLAG /\ CellPoints(c) \subseteq shape
      BY <1>3 DEF CellsAdded
    <3>2. CASE c \in DOMAIN m.cell_to_admin /\ x \in ToSet(m.cell_to_admin[c])
      <4>1. IsEntry(polys, c, x)
        BY <3>2 DEF Holds
      <4> QED
        BY <1>5, <1>12, <4>1 DEF IsEntry
    <3>3. CASE x = n
      BY <1>12, <3>3 DEF IsEntry
    <3>4. CASE x = n + INTERIOR_FLAG /\ CellPoints(c) \subseteq shape
      <4>1. CellPoints(c) \subseteq polys2[n + 1].shape
        BY <1>2, <1>4, <3>4
      <4> QED
        BY <1>12, <3>4, <4>1 DEF IsEntry
    <3> QED
      BY <3>1, <3>2, <3>3, <3>4
  <2> QED
    BY <2>1, <2>2
<1>14. ASSUME NEW k \in 0..n, NEW p \in polys2[k + 1].shape
       PROVE  Lists(r.cell_to_admin, AdminCell(p), k)
  <2>1. CASE k = n
    <3>1. p \in shape
      BY <1>2, <1>4, <2>1
    <3> QED
      BY <1>3, <2>1, <3>1 DEF CellsAdded
  <2>2. CASE k \in 0..n - 1
    <3>1. p \in polys[k + 1].shape
      BY <1>5, <2>2
    <3>2. Lists(m.cell_to_admin, AdminCell(p), k)
      BY <2>2, <3>1 DEF Holds
    <3> QED
      BY <1>3, <3>2 DEF CellsAdded, Lists
  <2> QED
    BY <1>11, <2>1, <2>2
<1>15. ASSUME NEW k \in 0..n
       PROVE  \E s \in S : OfRing(r, P2, 1, FALSE, k, s[1], s[2])
  <2>1. CASE k = n
    <3>1. <<area, ring>> \in S /\ OfRing(r, P2, 1, FALSE, k, <<area, ring>>[1], <<area, ring>>[2])
      BY <1>10, <2>1 DEF S
    <3> QED
      BY <3>1
  <2>2. CASE k \in 0..n - 1
    <3>1. PICK s \in R : OfRing(m, P, 1, FALSE, k, s[1], s[2])
      BY <2>2 DEF Holds
    <3>2. OfRing(r, P2, 1, FALSE, k, s[1], s[2])
      BY <1>9, <2>2, <3>1
    <3> QED
      BY <3>2 DEF S
  <2> QED
    BY <1>11, <2>1, <2>2
<1>16. ASSUME NEW s \in S
       PROVE  \E k \in 0..n : OfRing(r, P2, 1, FALSE, k, s[1], s[2])
  <2>1. CASE s \in R
    <3>1. PICK k \in 0..n - 1 : OfRing(m, P, 1, FALSE, k, s[1], s[2])
      BY <2>1 DEF Holds
    <3>2. OfRing(r, P2, 1, FALSE, k, s[1], s[2])
      BY <1>9, <3>1
    <3> QED
      BY <1>12, <3>2
  <2>2. CASE s = <<area, ring>>
    BY <1>10, <1>12, <2>2
  <2> QED
    BY <2>1, <2>2 DEF S
<1>17. r.indexed_outer_ring_keys = {<<s[1].level, s[2].key>> : s \in S}
  <2>1. m.indexed_outer_ring_keys = {<<s[1].level, s[2].key>> : s \in R}
    BY DEF Holds
  <2>2. {<<s[1].level, s[2].key>> : s \in S} = {<<s[1].level, s[2].key>> : s \in R} \cup {<<area.level, ring.key>>}
    <3> DEFINE Key(s) == <<s[1].level, s[2].key>>
    <3>1. Key(<<area, ring>>) = <<area.level, ring.key>>
      OBVIOUS
    <3> HIDE DEF Key
    <3>2. {Key(s) : s \in S} = {Key(s) : s \in R} \cup {Key(<<area, ring>>)}
      BY DEF S
    <3> QED
      BY <3>1, <3>2 DEF Key
  <2> QED
    BY <1>3, <2>1, <2>2
<1>18. ASSUME NEW x \in r.i18n_names
       PROVE  \E k \in 0..n : \E s \in S : x = <<k, s[1].local>> /\ polys2[k + 1].name = s[1].name
  <2>1. CASE x \in m.i18n_names
    <3>1. PICK k \in 0..n - 1, s \in R : x = <<k, s[1].local>> /\ polys[k + 1].name = s[1].name
      BY <2>1 DEF Holds
    <3>2. polys2[k + 1].name = s[1].name
      BY <1>5, <3>1
    <3> QED
      BY <1>12, <3>1, <3>2 DEF S
  <2>2. CASE x = <<n, area.local>>
    <3>1. <<area, ring>> \in S /\ polys2[n + 1].name = area.name
      BY <1>2, <1>4 DEF S
    <3> QED
      BY <1>12, <2>2, <3>1
  <2> QED
    BY <1>3, <2>1, <2>2
<1>19. \A i, j \in 1..Len(P2) : i < j => P2[i].poly_id < P2[j].poly_id
  <2> SUFFICES ASSUME NEW i \in 1..Len(P2), NEW j \in 1..Len(P2), i < j
               PROVE  P2[i].poly_id < P2[j].poly_id
    OBVIOUS
  <2>1. i \in 1..l
    BY <1>1, <1>6
  <2>2. P2[i] = P[i] /\ P[i].poly_id \in 0..n - 1
    BY <1>1, <1>6, <2>1
  <2>3. CASE j \in 1..l
    <3>1. P[i].poly_id < P[j].poly_id
      BY <2>1, <2>3 DEF Holds
    <3> QED
      BY <1>6, <2>2, <2>3, <3>1
  <2>4. CASE j = l + 1 /\ P2[j] = entry
    BY <1>1, <1>4, <2>2, <2>4
  <2> QED
    BY <1>6, <2>3, <2>4
<1> QED
  BY <1>12, <1>13, <1>14, <1>15, <1>16, <1>17, <1>18, <1>19 DEF Holds, polys2, P2, S

\* The rings of an area join those that the admin layer holds.
LEMMA AreaJoins ==
    ASSUME NEW m, DOMAIN m = MemFields, AdminOK(m), NEW R, Holds(m, R, m.pending_admin_holes, 1, FALSE),
           NEW area, area.rings \in Seq(ToSet(area.rings)),
           \A q \in ToSet(area.rings) : q.outer \subseteq Int /\ IsFiniteSet(q.outer),
           NEW r, r = AddAreaPolygons(m, area)
    PROVE  LET skip == area.level = 0 \/ area.name = "" \/ IsMemberWay(m, area)
           IN  /\ Holds(r, R \cup (IF skip THEN {} ELSE RingsOf(area)), r.pending_admin_holes, 1, FALSE)
               /\ r.boundary_member_ways = m.boundary_member_ways
<1> DEFINE n == Len(area.rings)
           skip == area.level = 0 \/ area.name = "" \/ IsMemberWay(m, area)
           Upto(k) == {<<area, area.rings[i]>> : i \in {j \in 1..k : area.rings[j].outer # {}}}
           Done(k, x) == /\ AdminStep(m, x) /\ x.boundary_member_ways = m.boundary_member_ways
                         /\ Holds(x, R \cup Upto(k), x.pending_admin_holes, 1, FALSE)
<1>1. PICK F : AreRings(F, m, area, n) /\ r = IF skip THEN m ELSE F[n]
  BY RingsExist
<1>2. /\ n \in Nat /\ 0 \in Nat /\ 0 + 1 = 1 /\ n \in 0..n /\ 0 \in 0..n
      /\ DOMAIN area.rings = 1..n /\ ToSet(area.rings) = {area.rings[i] : i \in 1..n}
  BY DEF ToSet
<1>3. F[0] = m /\ \A k \in 1..n : F[k] = AddAdminPolygon(F[k - 1], area, area.rings[k])
  <2>1. F = [i \in 0..n |-> IF i = 0 THEN m ELSE AddAdminPolygon(F[i - 1], area, area.rings[i])]
    BY <1>1 DEF AreRings
  <2>2. \A i \in 0..n : F[i] = IF i = 0 THEN m ELSE AddAdminPolygon(F[i - 1], area, area.rings[i])
    BY <2>1, Zenon
  <2> HIDE DEF n
  <2>3. \A k \in 1..n : k \in 0..n /\ k # 0
    BY <1>2
  <2> QED
    BY <1>2, <2>2, <2>3
<1> DEFINE Wrong == {k \in 0..n : ~Done(k, F[k])}
<1> HIDE DEF n, skip
<1>4. ASSUME Wrong # {} PROVE FALSE
  <2>1. 0 \notin Wrong
    <3>1. Upto(0) = {}
      OBVIOUS
    <3>2. AdminStep(m, m)
      BY AdminStepSelf
    <3> HIDE DEF Upto
    <3>3. R \cup Upto(0) = R
      BY <3>1
    <3> QED
      BY <1>3, <3>2, <3>3
  <2>2. Wrong \in SUBSET (0..n)
    OBVIOUS
  <2>3. PICK k \in Wrong : k \in 1..n /\ k - 1 \in 0..n /\ k - 1 \notin Wrong
    <3> HIDE DEF Wrong
    <3> QED
      BY <1>2, <1>4, <2>1, <2>2, FirstFailure
  <2> DEFINE x == F[k - 1]
             q == area.rings[k]
             y == F[k]
  <2>4. Done(k - 1, x) /\ ~Done(k, y)
    BY <2>3
  <2>5. y = AddAdminPolygon(x, area, q)
    BY <1>3, <2>3
  <2>6. q.outer \subseteq Int /\ IsFiniteSet(q.outer)
    BY <1>2, <2>3
  <2>7. q.outer # {} => Upto(k) = Upto(k - 1) \cup {<<area, q>>}
    BY <2>3
  <2>8. q.outer = {} => Upto(k) = Upto(k - 1)
    BY <2>3
  <2> HIDE DEF x, y, q, Upto, Wrong
  <2>9. /\ AdminStep(m, x) /\ x.boundary_member_ways = m.boundary_member_ways
        /\ Holds(x, R \cup Upto(k - 1), x.pending_admin_holes, 1, FALSE)
    BY <2>4
  <2>10. DOMAIN x = MemFields /\ AdminOK(x)
    BY <2>9 DEF AdminStep
  <2>11. AdminStep(m, y)
    <3>1. AdminStep(x, y)
      BY <2>5, <2>10, AddAdminPolygonOK
    <3> QED
      BY <2>9, <3>1, AdminStepTrans
  <2>12. CASE q.outer = {}
    <3>1. y = x
      BY <2>5, <2>12 DEF AddAdminPolygon
    <3>2. Done(k, y)
      BY <2>8, <2>9, <2>12, <3>1
    <3> QED
      BY <2>4, <3>2
  <2>13. CASE q.outer # {}
    <3>1. IsRing(q)
      BY <2>6, <2>13 DEF IsRing
    <3>2. Len(x.admin_polygons) \in Nat /\ IsCellMap(x.cell_to_admin)
      BY <2>9, <2>10 DEF AdminOK, IsSeq, Holds
    <3>3. RingEffect(x, y, area, q)
      BY <2>5, <2>10, <3>1, <3>2, RingHasEffect
    <3>4. Holds(y, (R \cup Upto(k - 1)) \cup {<<area, q>>}, y.pending_admin_holes, 1, FALSE)
      BY <2>9, <2>10, <3>1, <3>3, RingJoins
    <3>5. (R \cup Upto(k - 1)) \cup {<<area, q>>} = R \cup Upto(k)
      BY <2>7, <2>13
    <3>6. Holds(y, R \cup Upto(k), y.pending_admin_holes, 1, FALSE)
      BY <3>4, <3>5
    <3>7. y.boundary_member_ways = m.boundary_member_ways
      BY <2>9, <3>3, Zenon DEF RingEffect
    <3>8. Done(k, y)
      BY <2>11, <3>6, <3>7
    <3> QED
      BY <2>4, <3>8
  <2> QED
    BY <2>12, <2>13
<1>5. Done(n, F[n])
  BY <1>2, <1>4
<1>6. Upto(n) = RingsOf(area)
  BY <1>2 DEF RingsOf
<1>7. CASE skip
  <2>1. r = m /\ R \cup {} = R
    BY <1>1, <1>7
  <2> QED
    BY <1>7, <2>1 DEF skip
<1>8. CASE ~skip
  <2>1. r = F[n] /\ R \cup Upto(n) = R \cup RingsOf(area)
    BY <1>1, <1>6, <1>8
  <2> HIDE DEF Upto
  <2>2. Holds(r, R \cup RingsOf(area), r.pending_admin_holes, 1, FALSE)
        /\ r.boundary_member_ways = m.boundary_member_ways
    BY <1>5, <2>1
  <2> QED
    BY <1>8, <2>2 DEF skip
<1> QED
  BY <1>7, <1>8

-----------------------------------------------------------------------------
(* The holes that are cut at the end. *)

\* What finalize_admin_holes does for an entry: the polygon gets its shape, and
\* the shape its cells.
HoleEffect(m, r, k, shape) ==
    /\ r.admin_polygons = [m.admin_polygons EXCEPT ![k + 1].shape = shape]
    /\ r.indexed_outer_ring_keys = m.indexed_outer_ring_keys
    /\ r.i18n_names = m.i18n_names
    /\ CellsAdded(m.cell_to_admin, r.cell_to_admin, k, shape)

\* Cutting the holes of one polygon has this effect.
LEMMA HoleHasEffect ==
    ASSUME NEW m, DOMAIN m = MemFields, IsCellMap(m.cell_to_admin), NEW p, p.poly_id \in Nat,
           IsRing(p.ring)
    PROVE  HoleEffect(m, FinalizeHole(m, p), p.poly_id, p.ring.outer \ CutHoles(p.ring, OpenHoles(m, p)))
<1> DEFINE shape == p.ring.outer \ CutHoles(p.ring, OpenHoles(m, p))
           x == AddAdminCells(m, p.poly_id, p.ring, shape)
           polys == [x.admin_polygons EXCEPT ![p.poly_id + 1].shape = shape]
           r == FinalizeHole(m, p)
<1>1. r = [x EXCEPT !.admin_polygons = polys]
  BY DEF FinalizeHole
<1>2. shape \subseteq p.ring.outer
  OBVIOUS
<1> HIDE DEF shape, r
<1>3. /\ DOMAIN x = MemFields
      /\ AreaFieldsKept(m, [x EXCEPT !.cell_to_admin = m.cell_to_admin])
      /\ CellsAdded(m.cell_to_admin, x.cell_to_admin, p.poly_id, shape)
  BY <1>2, CellsAreAdded
<1> HIDE DEF x
<1>4. /\ x.admin_polygons = m.admin_polygons
      /\ x.indexed_outer_ring_keys = m.indexed_outer_ring_keys
      /\ x.i18n_names = m.i18n_names
  BY <1>3 DEF AreaFieldsKept, MemFields
<1>5. polys = [m.admin_polygons EXCEPT ![p.poly_id + 1].shape = shape]
  BY <1>4
<1> HIDE DEF polys
<1>6. /\ r.admin_polygons = polys /\ r.cell_to_admin = x.cell_to_admin
      /\ r.indexed_outer_ring_keys = x.indexed_outer_ring_keys
      /\ r.i18n_names = x.i18n_names
  BY <1>1, <1>3 DEF MemFields
<1>7. HoleEffect(m, r, p.poly_id, shape)
  BY <1>3, <1>4, <1>5, <1>6 DEF HoleEffect
<1> QED
  BY <1>7 DEF r, shape

\* The member ways stay.
LEMMA HoleKeepsMembers ==
    ASSUME NEW m, DOMAIN m = MemFields, NEW p
    PROVE  FinalizeHole(m, p).boundary_member_ways = m.boundary_member_ways
<1> DEFINE shape == p.ring.outer \ CutHoles(p.ring, OpenHoles(m, p))
           x == AddAdminCells(m, p.poly_id, p.ring, shape)
           polys == [x.admin_polygons EXCEPT ![p.poly_id + 1].shape = shape]
           r == FinalizeHole(m, p)
<1>1. r = [x EXCEPT !.admin_polygons = polys]
  BY DEF FinalizeHole
<1>2. PICK map : x = [m EXCEPT !.cell_to_admin = map]
  BY DEF AddAdminCells
<1> HIDE DEF x, r, polys
<1>3. r.boundary_member_ways = m.boundary_member_ways
  BY <1>1, <1>2 DEF MemFields
<1> QED
  BY <1>3 DEF r

\* The next polygon that waits gets its final shape; the others keep theirs.
LEMMA HoleJoins ==
    ASSUME NEW m, DOMAIN m = MemFields, AdminOK(m), NEW R, \A s \in R : IsRing(s[2]),
           NEW P, Len(P) \in Nat, \A j \in 1..Len(P) : P[j].poly_id \in 0..Len(m.admin_polygons) - 1,
           NEW i \in 1..Len(P), Holds(m, R, P, i, TRUE),
           NEW r, r = FinalizeHole(m, P[i])
    PROVE  Holds(r, R, P, i + 1, TRUE)
<1> DEFINE polys == m.admin_polygons
           polys2 == r.admin_polygons
           n == Len(polys)
           k == P[i].poly_id
           keys == m.indexed_outer_ring_keys
           shape == P[i].ring.outer \ CutHoles(P[i].ring, OpenHoles(m, P[i]))
<1>1. /\ IsSeq(polys) /\ n \in Nat /\ DOMAIN polys = 1..n
      /\ k \in 0..n - 1 /\ k \in Nat /\ k + 1 \in 1..n
  BY DEF AdminOK, IsSeq
<1>2. i \in i..Len(P) /\ Waiting(k, P, i)
  BY DEF Waiting
<1>3. \A j \in i..Len(P) : P[j].poly_id = k => j = i
  <2> SUFFICES ASSUME NEW j \in i..Len(P), P[j].poly_id = k, j # i PROVE FALSE
    OBVIOUS
  <2>1. j \in 1..Len(P) /\ i < j
    OBVIOUS
  <2>2. P[i].poly_id < P[j].poly_id
    BY <2>1 DEF Holds
  <2> QED
    BY <1>1, <2>2
<1>4. ASSUME NEW a, NEW q, OfRing(m, P, i, TRUE, k, a, q)
      PROVE  /\ polys[k + 1] = PolygonOf(a, q, {}) /\ polys[k + 1].shape = {}
             /\ P[i].ring = q /\ BigHoles(q) # {} /\ shape = FinalShape(a, q, keys)
  <2>1. /\ polys[k + 1] = PolygonOf(a, q, {}) /\ polys[k + 1].shape = {} /\ BigHoles(q) # {}
    BY <1>2, <1>4 DEF OfRing
  <2>2. PICK j \in i..Len(P) : P[j] = [poly_id |-> k, ring |-> q, holes |-> BigHoles(q)]
    BY <1>2, <1>4 DEF OfRing
  <2>3. j = i
    BY <1>3, <2>2
  <2>4. P[i].ring = q /\ P[i].holes = BigHoles(q)
    BY <2>2, <2>3
  <2>5. At(m.admin_polygons, P[i].poly_id).level = a.level
    BY <2>1 DEF At, PolygonOf
  <2>6. OpenHoles(m, P[i]) = {h \in BigHoles(q) : <<a.level, h.key>> \notin keys}
    BY <2>4, <2>5 DEF OpenHoles
  <2>7. shape = FinalShape(a, q, keys)
    BY <2>1, <2>4, <2>6 DEF FinalShape, CutShape
  <2> QED
    BY <2>1, <2>4, <2>7
<1>5. polys[k + 1].shape = {} /\ IsRing(P[i].ring)
  <2>1. PICK s \in R : OfRing(m, P, i, TRUE, k, s[1], s[2])
    BY <1>1 DEF Holds
  <2> QED
    BY <1>4, <2>1
<1>6. HoleEffect(m, r, k, shape)
  BY <1>1, <1>5, HoleHasEffect DEF Holds
<1> HIDE DEF shape
<1>7. /\ polys2 = [polys EXCEPT ![k + 1].shape = shape]
      /\ r.indexed_outer_ring_keys = keys /\ r.i18n_names = m.i18n_names
      /\ CellsAdded(m.cell_to_admin, r.cell_to_admin, k, shape)
  BY <1>6 DEF HoleEffect
<1> HIDE DEF polys, polys2, keys, k
<1>8. /\ DOMAIN polys2 = 1..n /\ Len(polys2) = n
      /\ polys2[k + 1] = [polys[k + 1] EXCEPT !.shape = shape]
      /\ \A x \in 0..n - 1 : x # k => polys2[x + 1] = polys[x + 1]
  <2>1. DOMAIN polys2 = 1..n /\ polys2 = [x \in 1..n |-> polys2[x]]
    BY <1>1, <1>7
  <2>2. Len(polys2) = n
    BY <1>1, <2>1, FunIsSeq
  <2> QED
    BY <1>1, <1>7, <2>1, <2>2
<1>9. polys2[k + 1].shape = shape /\ polys2[k + 1].name = polys[k + 1].name
  <2>1. PICK s \in R : OfRing(m, P, i, TRUE, k, s[1], s[2])
    BY <1>1 DEF Holds, polys, k
  <2>2. polys[k + 1] = PolygonOf(s[1], s[2], {})
    BY <1>4, <2>1 DEF k, polys
  <2> QED
    BY <1>8, <2>2 DEF PolygonOf
<1>10. \A x : Waiting(x, P, i + 1) <=> Waiting(x, P, i) /\ x # k
  <2>1. \A j : j \in i + 1..Len(P) <=> j \in i..Len(P) /\ j # i
    OBVIOUS
  <2>2. P[i].poly_id = k
    BY DEF k
  <2> QED
    BY <1>3, <2>1, <2>2 DEF Waiting
<1>11. ASSUME NEW x \in 0..n - 1, NEW a, NEW q, OfRing(m, P, i, TRUE, x, a, q)
       PROVE  OfRing(r, P, i + 1, TRUE, x, a, q)
  <2>1. CASE x = k
    <3>1. polys[k + 1] = PolygonOf(a, q, {}) /\ shape = FinalShape(a, q, keys)
      BY <1>4, <1>11, <2>1
    <3>2. polys2[k + 1] = PolygonOf(a, q, shape) /\ polys2[k + 1].shape = shape
      BY <1>8, <3>1 DEF PolygonOf
    <3>3. ~Waiting(k, P, i + 1)
      BY <1>10
    <3> QED
      BY <1>7, <2>1, <3>1, <3>2, <3>3 DEF OfRing, polys2, keys
  <2>2. CASE x # k
    <3>1. polys2[x + 1] = polys[x + 1] /\ (Waiting(x, P, i + 1) <=> Waiting(x, P, i))
      BY <1>8, <1>10, <2>2
    <3>2. CASE Waiting(x, P, i)
      <4>1. PICK j \in i..Len(P) : P[j] = [poly_id |-> x, ring |-> q, holes |-> BigHoles(q)]
        BY <1>11, <3>2 DEF OfRing
      <4>2. P[j].poly_id = x
        BY <4>1
      <4>3. j # i
        BY <2>2, <4>2 DEF k
      <4>4. j \in i + 1..Len(P)
        BY <4>3
      <4>5. /\ polys[x + 1] = PolygonOf(a, q, polys[x + 1].shape)
            /\ polys[x + 1].shape = {} /\ BigHoles(q) # {}
        BY <1>11, <3>2 DEF OfRing, polys
      <4> QED
        BY <3>1, <3>2, <4>1, <4>4, <4>5 DEF OfRing, polys2
    <3>3. CASE ~Waiting(x, P, i)
      <4>1. /\ polys[x + 1] = PolygonOf(a, q, polys[x + 1].shape)
            /\ polys[x + 1].shape = FinalShape(a, q, keys)
        BY <1>11, <3>3 DEF OfRing, polys, keys
      <4> QED
        BY <1>7, <3>1, <3>3, <4>1 DEF OfRing, polys2
    <3> QED
      BY <3>2, <3>3
  <2> QED
    BY <2>1, <2>2
<1>12. ASSUME NEW c \in DOMAIN r.cell_to_admin, NEW x \in ToSet(r.cell_to_admin[c])
       PROVE  IsEntry(polys2, c, x)
  <2>1. \/ c \in DOMAIN m.cell_to_admin /\ x \in ToSet(m.cell_to_admin[c])
        \/ x = k
        \/ x = k + INTERIOR_FLAG /\ CellPoints(c) \subseteq shape
    BY <1>7 DEF CellsAdded
  <2>2. CASE c \in DOMAIN m.cell_to_admin /\ x \in ToSet(m.cell_to_admin[c])
    <3>1. IsEntry(polys, c, x)
      BY <2>2 DEF Holds, polys
    <3>2. CellPoints(c) # {}
      BY <2>2, CellHasPoints DEF Holds, IsCellMap
    <3>3. CASE x \in 0..n - 1
      BY <1>8, <3>3 DEF IsEntry
    <3>4. CASE x \notin 0..n - 1
      <4>1. PICK y \in 0..n - 1 : x = y + INTERIOR_FLAG /\ CellPoints(c) \subseteq polys[y + 1].shape
        BY <3>1, <3>4 DEF IsEntry, n
      <4>2. y # k
        BY <1>5, <3>2, <4>1 DEF polys, k
      <4> QED
        BY <1>8, <4>1, <4>2 DEF IsEntry
    <3> QED
      BY <3>3, <3>4
  <2>3. CASE x = k
    BY <1>1, <1>8, <2>3 DEF IsEntry, k
  <2>4. CASE x = k + INTERIOR_FLAG /\ CellPoints(c) \subseteq shape
    BY <1>1, <1>8, <1>9, <2>4 DEF IsEntry, k
  <2> QED
    BY <2>1, <2>2, <2>3, <2>4
<1>13. ASSUME NEW x \in 0..n - 1, NEW p \in polys2[x + 1].shape
       PROVE  Lists(r.cell_to_admin, AdminCell(p), x)
  <2>1. CASE x = k
    BY <1>7, <1>9, <2>1 DEF CellsAdded
  <2>2. CASE x # k
    <3>1. Lists(m.cell_to_admin, AdminCell(p), x)
      BY <1>8, <2>2 DEF Holds, polys
    <3> QED
      BY <1>7, <3>1 DEF CellsAdded, Lists
  <2> QED
    BY <2>1, <2>2
<1>14. \A x \in 0..n - 1 : polys2[x + 1].name = polys[x + 1].name
  <2> SUFFICES ASSUME NEW x \in 0..n - 1 PROVE polys2[x + 1].name = polys[x + 1].name
    OBVIOUS
  <2>1. CASE x = k
    BY <1>9, <2>1
  <2>2. CASE x # k
    BY <1>8, <2>2
  <2> QED
    BY <2>1, <2>2
<1>15. \A x \in 0..n - 1 : \E s \in R : OfRing(r, P, i + 1, TRUE, x, s[1], s[2])
  <2> SUFFICES ASSUME NEW x \in 0..n - 1 PROVE \E s \in R : OfRing(r, P, i + 1, TRUE, x, s[1], s[2])
    OBVIOUS
  <2>1. PICK s \in R : OfRing(m, P, i, TRUE, x, s[1], s[2])
    BY DEF Holds, polys
  <2> QED
    BY <1>11, <2>1
<1>16. \A s \in R : \E x \in 0..n - 1 : OfRing(r, P, i + 1, TRUE, x, s[1], s[2])
  <2> SUFFICES ASSUME NEW s \in R PROVE \E x \in 0..n - 1 : OfRing(r, P, i + 1, TRUE, x, s[1], s[2])
    OBVIOUS
  <2>1. PICK x \in 0..n - 1 : OfRing(m, P, i, TRUE, x, s[1], s[2])
    BY DEF Holds, polys
  <2> QED
    BY <1>11, <2>1
<1>17. /\ r.indexed_outer_ring_keys = {<<s[1].level, s[2].key>> : s \in R}
       /\ \A x, y \in 1..Len(P) : x < y => P[x].poly_id < P[y].poly_id
  BY <1>7 DEF Holds, keys
<1>18. ASSUME NEW x \in r.i18n_names
       PROVE  \E y \in 0..n - 1 : \E s \in R : x = <<y, s[1].local>> /\ polys2[y + 1].name = s[1].name
  <2>1. PICK y \in 0..n - 1, s \in R : x = <<y, s[1].local>> /\ polys[y + 1].name = s[1].name
    BY <1>7 DEF Holds, polys
  <2> QED
    BY <1>14, <2>1
<1>19. IsCellMap(r.cell_to_admin)
  BY <1>7 DEF CellsAdded
<1>20. n = Len(r.admin_polygons)
  BY <1>8 DEF polys2
<1>21. \A c \in DOMAIN r.cell_to_admin : \A x \in ToSet(r.cell_to_admin[c]) :
           IsEntry(r.admin_polygons, c, x)
  BY <1>12 DEF polys2
<1>22. \A x \in 0..n - 1 : \A p \in r.admin_polygons[x + 1].shape :
           Lists(r.cell_to_admin, AdminCell(p), x)
  BY <1>13 DEF polys2
<1>23. \A x \in r.i18n_names : \E y \in 0..n - 1 : \E s \in R :
           x = <<y, s[1].local>> /\ r.admin_polygons[y + 1].name = s[1].name
  BY <1>18 DEF polys2
<1> HIDE DEF n
<1> QED
  BY <1>15, <1>16, <1>17, <1>19, <1>20, <1>21, <1>22, <1>23, Zenon DEF Holds

\* Once finalize_admin_holes is through, every polygon has its final shape.
LEMMA HolesAreCut ==
    ASSUME NEW m, DOMAIN m = MemFields, AdminOK(m), NEW R, \A s \in R : IsRing(s[2]),
           Holds(m, R, m.pending_admin_holes, 1, FALSE),
           NEW r, r = [Finalized(m, m.pending_admin_holes) EXCEPT !.pending_admin_holes = <<>>]
    PROVE  Holds(r, R, <<>>, 1, TRUE) /\ r.boundary_member_ways = m.boundary_member_ways
<1> DEFINE P == m.pending_admin_holes
           n == Len(P)
           N == Len(m.admin_polygons)
           Done(k, x) == /\ HoleStep(m, x) /\ x.boundary_member_ways = m.boundary_member_ways
                         /\ Holds(x, R, P, k + 1, TRUE)
<1>1. n \in Nat /\ 0 \in Nat /\ 0 + 1 = 1 /\ \A j \in 1..n : P[j].poly_id \in 0..N - 1
  BY DEF AdminOK, PendingExist, IsSeq
<1>2. PICK F : AreHoles(F, m, P, n) /\ Finalized(m, P) = F[n]
  BY <1>1, HolesExist
<1>3. F[0] = m /\ \A k \in 1..n : F[k] = FinalizeHole(F[k - 1], P[k])
  <2>1. \A i \in 0..n : F[i] = IF i = 0 THEN m ELSE FinalizeHole(F[i - 1], P[i])
    BY <1>2, Zenon DEF AreHoles
  <2> HIDE DEF n, P
  <2>2. 0 \in 0..n /\ \A k \in 1..n : k \in 0..n /\ k # 0
    BY <1>1
  <2> QED
    BY <2>1, <2>2
<1> DEFINE Wrong == {k \in 0..n : ~Done(k, F[k])}
<1>4. Done(0, m)
  <2>1. HoleStep(m, m)
    BY AdminStepSelf DEF HoleStep
  <2>2. \A k, a, q : OfRing(m, P, 1, FALSE, k, a, q) => OfRing(m, P, 1, TRUE, k, a, q)
    BY DEF OfRing
  <2>3. Holds(m, R, P, 1, TRUE)
    BY <2>2 DEF Holds
  <2> QED
    BY <1>1, <2>1, <2>3
<1> HIDE DEF P, n, N
<1>5. ASSUME Wrong # {} PROVE FALSE
  <2>1. 0 \notin Wrong
    BY <1>3, <1>4
  <2>2. Wrong \in SUBSET (0..n)
    OBVIOUS
  <2>3. PICK k \in Wrong : k \in 1..n /\ k - 1 \in 0..n /\ k - 1 \notin Wrong
    <3> HIDE DEF Wrong
    <3> QED
      BY <1>1, <1>5, <2>1, <2>2, FirstFailure
  <2> DEFINE u == F[k - 1]
             v == F[k]
  <2>4. Done(k - 1, u) /\ ~Done(k, v)
    BY <2>3
  <2>5. v = FinalizeHole(u, P[k]) /\ (k - 1) + 1 = k
    BY <1>3, <2>3
  <2> HIDE DEF u, v, Wrong
  <2>6. /\ HoleStep(m, u) /\ u.boundary_member_ways = m.boundary_member_ways
        /\ Holds(u, R, P, k, TRUE)
    BY <2>4, <2>5
  <2>7. DOMAIN u = MemFields /\ AdminOK(u) /\ Len(u.admin_polygons) = N
    BY <2>6 DEF HoleStep, AdminStep, N
  <2>8. P[k].poly_id \in 0..N - 1
    BY <1>1, <2>3
  <2>9. HoleStep(u, v)
    BY <2>5, <2>7, <2>8, FinalizeHoleOK
  <2>10. HoleStep(m, v)
    BY <2>6, <2>9, AdminStepTrans DEF HoleStep
  <2>11. Holds(v, R, P, k + 1, TRUE)
    <3>1. Len(P) \in Nat /\ \A j \in 1..Len(P) : P[j].poly_id \in 0..Len(u.admin_polygons) - 1
      BY <1>1, <2>7 DEF n
    <3>2. k \in 1..Len(P)
      BY <2>3 DEF n
    <3> QED
      BY <2>5, <2>6, <2>7, <3>1, <3>2, HoleJoins
  <2>12. v.boundary_member_ways = u.boundary_member_ways
    BY <2>5, <2>7, HoleKeepsMembers
  <2>13. Done(k, v)
    BY <2>6, <2>10, <2>11, <2>12
  <2> QED
    BY <2>4, <2>13
<1> DEFINE w == F[n]
<1>6. Done(n, w)
  <2> HIDE DEF Done
  <2>1. n \in 0..n /\ n \notin Wrong
    BY <1>1, <1>5
  <2> QED
    BY <2>1
<1>7. r = [w EXCEPT !.pending_admin_holes = <<>>]
  BY <1>2 DEF P
<1> HIDE DEF w
<1>8. /\ DOMAIN w = MemFields /\ w.boundary_member_ways = m.boundary_member_ways
      /\ Holds(w, R, P, n + 1, TRUE)
  BY <1>6 DEF HoleStep, AdminStep
<1>9. /\ r.admin_polygons = w.admin_polygons /\ r.cell_to_admin = w.cell_to_admin
      /\ r.indexed_outer_ring_keys = w.indexed_outer_ring_keys
      /\ r.i18n_names = w.i18n_names /\ r.boundary_member_ways = w.boundary_member_ways
  BY <1>7, <1>8 DEF MemFields
<1>10. /\ \A k : ~Waiting(k, P, n + 1) /\ ~Waiting(k, <<>>, 1)
       /\ 1..Len(<<>>) = {}
  BY <1>1 DEF Waiting, n
<1>11. \A k, a, q : OfRing(w, P, n + 1, TRUE, k, a, q) <=> OfRing(r, <<>>, 1, TRUE, k, a, q)
  BY <1>9, <1>10 DEF OfRing
<1>12. Holds(r, R, <<>>, 1, TRUE)
  <2> DEFINE e == <<>>
  <2>1. /\ \A k, a, q : OfRing(w, P, n + 1, TRUE, k, a, q) <=> OfRing(r, e, 1, TRUE, k, a, q)
        /\ 1..Len(e) = {}
    BY <1>10, <1>11
  <2> HIDE DEF e
  <2>2. \A i, j \in 1..Len(e) : i < j => e[i].poly_id < e[j].poly_id
    BY <2>1
  <2>3. /\ IsCellMap(r.cell_to_admin)
        /\ \A c \in DOMAIN r.cell_to_admin : \A y \in ToSet(r.cell_to_admin[c]) :
               IsEntry(r.admin_polygons, c, y)
        /\ \A k \in 0..Len(r.admin_polygons) - 1 : \A p \in r.admin_polygons[k + 1].shape :
               Lists(r.cell_to_admin, AdminCell(p), k)
    BY <1>8, <1>9, Zenon DEF Holds
  <2>4. /\ \A k \in 0..Len(r.admin_polygons) - 1 :
               \E s \in R : OfRing(r, e, 1, TRUE, k, s[1], s[2])
        /\ \A s \in R : \E k \in 0..Len(r.admin_polygons) - 1 :
               OfRing(r, e, 1, TRUE, k, s[1], s[2])
    BY <1>8, <1>9, <2>1, Zenon DEF Holds
  <2>5. r.indexed_outer_ring_keys = {<<s[1].level, s[2].key>> : s \in R}
    BY <1>8, <1>9 DEF Holds
  <2>6. \A y \in r.i18n_names : \E k \in 0..Len(r.admin_polygons) - 1 : \E s \in R :
               y = <<k, s[1].local>> /\ r.admin_polygons[k + 1].name = s[1].name
    <3>1. \A y \in w.i18n_names : \E k \in 0..Len(w.admin_polygons) - 1 : \E s \in R :
               y = <<k, s[1].local>> /\ w.admin_polygons[k + 1].name = s[1].name
      BY <1>8 DEF Holds
    <3> QED
      BY <1>9, <3>1
  <2>7. Holds(r, R, e, 1, TRUE)
    BY <2>2, <2>3, <2>4, <2>5, <2>6, Zenon DEF Holds
  <2> QED
    BY <2>7 DEF e
<1> QED
  BY <1>8, <1>9, <1>12

-----------------------------------------------------------------------------
(* Every step keeps the invariant of the admin layer. *)

\* The admin layer holds what it did when its four fields are the same.
LEMMA SameLayerHolds ==
    ASSUME NEW m, NEW n, NEW R, NEW P, NEW from, NEW cut, Holds(m, R, P, from, cut),
           n.admin_polygons = m.admin_polygons, n.cell_to_admin = m.cell_to_admin,
           n.indexed_outer_ring_keys = m.indexed_outer_ring_keys, n.i18n_names = m.i18n_names
    PROVE  Holds(n, R, P, from, cut)
<1>1. /\ n.admin_polygons = m.admin_polygons /\ n.cell_to_admin = m.cell_to_admin
      /\ n.indexed_outer_ring_keys = m.indexed_outer_ring_keys /\ n.i18n_names = m.i18n_names
  OBVIOUS
<1>2. \A k, a, q : OfRing(m, P, from, cut, k, a, q) <=> OfRing(n, P, from, cut, k, a, q)
  BY <1>1 DEF OfRing
<1>3. /\ IsCellMap(n.cell_to_admin)
      /\ \A c \in DOMAIN n.cell_to_admin : \A y \in ToSet(n.cell_to_admin[c]) :
             IsEntry(n.admin_polygons, c, y)
      /\ \A k \in 0..Len(n.admin_polygons) - 1 : \A p \in n.admin_polygons[k + 1].shape :
             Lists(n.cell_to_admin, AdminCell(p), k)
  BY <1>1, Zenon DEF Holds
<1>4. /\ \A k \in 0..Len(n.admin_polygons) - 1 :
             \E s \in R : OfRing(n, P, from, cut, k, s[1], s[2])
      /\ \A s \in R : \E k \in 0..Len(n.admin_polygons) - 1 :
             OfRing(n, P, from, cut, k, s[1], s[2])
  BY <1>1, <1>2, Zenon DEF Holds
<1>5. /\ n.indexed_outer_ring_keys = {<<s[1].level, s[2].key>> : s \in R}
      /\ \A i, j \in 1..Len(P) : i < j => P[i].poly_id < P[j].poly_id
  BY <1>1 DEF Holds
<1>6. \A y \in n.i18n_names : \E k \in 0..Len(n.admin_polygons) - 1 : \E s \in R :
          y = <<k, s[1].local>> /\ n.admin_polygons[k + 1].name = s[1].name
  <2>1. \A y \in m.i18n_names : \E k \in 0..Len(m.admin_polygons) - 1 : \E s \in R :
            y = <<k, s[1].local>> /\ m.admin_polygons[k + 1].name = s[1].name
    BY DEF Holds
  <2> QED
    BY <1>1, <2>1
<1> QED
  BY <1>3, <1>4, <1>5, <1>6, Zenon DEF Holds

\* What is about areas stays.
LEMMA FieldsKeptHold ==
    ASSUME NEW m, NEW n, AreaFieldsKept(m, n), NEW R, NEW P, NEW from, NEW cut,
           Holds(m, R, P, from, cut)
    PROVE  Holds(n, R, P, from, cut)
  BY SameLayerHolds DEF AreaFieldsKept

\* Points and lines leave the admin layer alone.
LEMMA PointsKeepAreas ==
    ASSUME NEW m, DOMAIN m = MemFields, NEW pos, NEW rank, NEW name, NEW tags
    PROVE  /\ AreaFieldsKept(m, AddPlace(m, pos, rank, name))
           /\ DOMAIN AddPlace(m, pos, rank, name) = MemFields
           /\ AreaFieldsKept(m, AddPoi(m, pos, rank, name))
           /\ DOMAIN AddPoi(m, pos, rank, name) = MemFields
           /\ AreaFieldsKept(m, AddAddress(m, pos, tags))
           /\ DOMAIN AddAddress(m, pos, tags) = MemFields
<1>1. AreaFieldsKept(m, m)
  BY DEF AreaFieldsKept
<1>2. ASSUME NEW x, NEW y
      PROVE  /\ AreaFieldsKept(m, [m EXCEPT !.place_points = x, !.cell_to_places = y])
             /\ DOMAIN [m EXCEPT !.place_points = x, !.cell_to_places = y] = MemFields
  BY DEF AreaFieldsKept, MemFields
<1>3. ASSUME NEW x, NEW y
      PROVE  /\ AreaFieldsKept(m, [m EXCEPT !.poi_points = x, !.cell_to_pois = y])
             /\ DOMAIN [m EXCEPT !.poi_points = x, !.cell_to_pois = y] = MemFields
  BY DEF AreaFieldsKept, MemFields
<1>4. ASSUME NEW x, NEW y
      PROVE  /\ AreaFieldsKept(m, [m EXCEPT !.addr_points = x, !.cell_to_addrs = y])
             /\ DOMAIN [m EXCEPT !.addr_points = x, !.cell_to_addrs = y] = MemFields
  BY DEF AreaFieldsKept, MemFields
<1>5. /\ AreaFieldsKept(m, AddPlace(m, pos, rank, name))
      /\ DOMAIN AddPlace(m, pos, rank, name) = MemFields
  BY <1>1, <1>2 DEF AddPlace
<1>6. /\ AreaFieldsKept(m, AddPoi(m, pos, rank, name))
      /\ DOMAIN AddPoi(m, pos, rank, name) = MemFields
  BY <1>1, <1>3 DEF AddPoi
<1>7. /\ AreaFieldsKept(m, AddAddress(m, pos, tags))
      /\ DOMAIN AddAddress(m, pos, tags) = MemFields
  BY <1>1, <1>4 DEF AddAddress
<1> QED
  BY <1>5, <1>6, <1>7

\* So do streets and interpolation ways.
LEMMA LinesKeepAreas ==
    ASSUME NEW m, DOMAIN m = MemFields, NEW way
    PROVE  AreaFieldsKept(m, AddStreet(m, way)) /\ AreaFieldsKept(m, AddInterpolation(m, way))
<1>1. AreaFieldsKept(m, m)
  BY DEF AreaFieldsKept
<1>2. ASSUME NEW x, NEW y PROVE AreaFieldsKept(m, [m EXCEPT !.ways = x, !.cell_to_ways = y])
  BY DEF AreaFieldsKept, MemFields
<1>3. ASSUME NEW x, NEW y
      PROVE  AreaFieldsKept(m, [m EXCEPT !.interp_ways = x, !.cell_to_interps = y])
  BY DEF AreaFieldsKept, MemFields
<1>4. AreaFieldsKept(m, AddStreet(m, way))
  BY <1>1, <1>2 DEF AddStreet
<1>5. AreaFieldsKept(m, AddInterpolation(m, way))
  BY <1>1, <1>3, Zenon DEF AddInterpolation
<1> QED
  BY <1>4, <1>5

\* What stays in two steps stays.
LEMMA FieldsKeptTwice ==
    ASSUME NEW m, NEW n, NEW r, AreaFieldsKept(m, n), AreaFieldsKept(n, r)
    PROVE  AreaFieldsKept(m, r)
BY DEF AreaFieldsKept

\* The rings of one more object.
LEMMA EmittedWith ==
    ASSUME NEW S, NEW a, NEW W
    PROVE  EmittedRings(S \cup {a}, W) =
               EmittedRings(S, W) \cup (IF Emitted(a, W) THEN RingsOf(a) ELSE {})
BY DEF EmittedRings

\* The rings that are held are rings.
LEMMA EmittedAreRings ==
    ASSUME world \in Worlds, NEW S, S \subseteq world, NEW s \in EmittedRings(S, world)
    PROVE  IsRing(s[2])
<1>1. PICK a \in S : a.kind = "area" /\ s \in RingsOf(a)
  BY DEF EmittedRings, Emitted
<1>2. PICK r \in ToSet(a.rings) : s = <<a, r>> /\ r.outer # {}
  BY <1>1 DEF RingsOf
<1>3. r.outer \subseteq Int /\ IsFiniteSet(r.outer)
  BY <1>1, WorldsAssumption
<1> QED
  BY <1>2, <1>3 DEF IsRing

\* A node or way that is handled changes nothing about areas.
LEMMA OthersKeepAreas ==
    ASSUME IInv, AreaInv, NEW item \in file, item.kind # "area", Handled(item),
           AreaFieldsKept(mem, mem')
    PROVE  AreaInv'
<1> DEFINE S == world \ (todo \cup file)
           R == EmittedRings(S, world)
           P == mem.pending_admin_holes
<1>1. /\ file' = file \ {item} /\ UNCHANGED <<world, todo, phase>>
      /\ phase = "read"
  BY DEF Handled, IInv
<1>2. world' \ (todo' \cup file') = S \cup {item}
  BY <1>1 DEF IInv
<1>3. EmittedRings(S \cup {item}, world) = R
  <2>1. ~Emitted(item, world)
    BY DEF Emitted
  <2>2. EmittedRings(S \cup {item}, world) =
            EmittedRings(S, world) \cup (IF Emitted(item, world) THEN RingsOf(item) ELSE {})
    BY EmittedWith
  <2> QED
    BY <2>1, <2>2
<1>4. Holds(mem, R, P, 1, FALSE)
  BY <1>1 DEF AreaInv
<1> HIDE DEF S, R, P
<1>5. Holds(mem', R, P, 1, FALSE)
  BY <1>4, FieldsKeptHold
<1>6. /\ mem'.pending_admin_holes = P
      /\ mem'.boundary_member_ways = mem.boundary_member_ways
  BY DEF AreaFieldsKept, P
<1>7. Holds(mem', EmittedRings(world' \ (todo' \cup file'), world'), mem'.pending_admin_holes, 1, FALSE)
  BY <1>1, <1>2, <1>3, <1>5, <1>6
<1>8. /\ mem'.boundary_member_ways = Members(world' \ todo')
      /\ \A a, x \in world' : a.kind = "area" /\ x.kind = "area" /\ a \notin todo' /\ a.way \in x.members
                              => x \notin todo'
  BY <1>1, <1>6 DEF AreaInv
<1> QED
  BY <1>1, <1>7, <1>8 DEF AreaInv

\* Nodes.
LEMMA NodesKeepAreas ==
    ASSUME IInv, AreaInv, HandleNode
    PROVE  AreaInv'
<1>1. PICK n \in {x \in file : x.kind = "node"} :
          /\ mem' = AddAddress(AddPoi(AddPlace(mem, n.pos, n.place, n.name),
                                      n.pos, n.poi, n.name), n.pos, n.addr)
          /\ Handled(n)
  BY DEF HandleNode
<1> DEFINE a == AddPlace(mem, n.pos, n.place, n.name)
           b == AddPoi(a, n.pos, n.poi, n.name)
<1>2. DOMAIN mem = MemFields
  BY DEF IInv, MemOK
<1>3. AreaFieldsKept(mem, a) /\ DOMAIN a = MemFields
  BY <1>2, PointsKeepAreas
<1>4. AreaFieldsKept(a, b) /\ DOMAIN b = MemFields
  BY <1>3, PointsKeepAreas
<1>5. AreaFieldsKept(b, mem')
  BY <1>1, <1>4, PointsKeepAreas
<1> HIDE DEF a, b
<1>6. AreaFieldsKept(mem, mem')
  BY <1>3, <1>4, <1>5, FieldsKeptTwice
<1>7. n \in file /\ n.kind # "area"
  OBVIOUS
<1> QED
  BY <1>1, <1>6, <1>7, OthersKeepAreas

\* Ways.
LEMMA WaysKeepAreas ==
    ASSUME IInv, AreaInv, HandleWay
    PROVE  AreaInv'
<1>1. PICK w \in {x \in file : x.kind = "way"} :
          /\ mem' = IF w.interpolation # "" THEN AddInterpolation(mem, w)
                    ELSE AddStreet(AddPoi(AddPlace(AddAddress(mem, Centroid(w.nodes), w.addr),
                                                   Centroid(w.nodes), w.place, w.name),
                                          Centroid(w.nodes), w.poi, w.name), w)
          /\ Handled(w)
  BY DEF HandleWay
<1> DEFINE c == Centroid(w.nodes)
           a == AddAddress(mem, c, w.addr)
           b == AddPlace(a, c, w.place, w.name)
           d == AddPoi(b, c, w.poi, w.name)
<1>2. DOMAIN mem = MemFields
  BY DEF IInv, MemOK
<1>3. AreaFieldsKept(mem, a) /\ DOMAIN a = MemFields
  BY <1>2, PointsKeepAreas
<1>4. AreaFieldsKept(a, b) /\ DOMAIN b = MemFields
  BY <1>3, PointsKeepAreas
<1>5. AreaFieldsKept(b, d) /\ DOMAIN d = MemFields
  BY <1>4, PointsKeepAreas
<1>6. AreaFieldsKept(d, AddStreet(d, w)) /\ AreaFieldsKept(mem, AddInterpolation(mem, w))
  BY <1>2, <1>5, LinesKeepAreas
<1>7. mem' = AddInterpolation(mem, w) \/ mem' = AddStreet(d, w)
  BY <1>1
<1> HIDE DEF a, b, d
<1>8. AreaFieldsKept(mem, mem')
  BY <1>3, <1>4, <1>5, <1>6, <1>7, FieldsKeptTwice
<1>9. w \in file /\ w.kind # "area"
  OBVIOUS
<1> QED
  BY <1>1, <1>8, <1>9, OthersKeepAreas

\* A way is left to its boundary relation exactly when there is one in the input:
\* a file that has the way has the relation.
LEMMA MemberIsNotEmitted ==
    ASSUME IInv, AreaInv, NEW a \in file, a.kind = "area", a.level # 0, a.name # ""
    PROVE  <<a.way, a.level, a.name>> \in mem.boundary_member_ways <=> ~Emitted(a, world)
<1>1. mem.boundary_member_ways = Members(world \ todo)
  BY DEF AreaInv
<1>2. a \in world /\ a \notin todo
  BY DEF IInv
<1>3. \A S : <<a.way, a.level, a.name>> \in Members(S) <=>
          \E x \in S : /\ x.kind = "area" /\ x.level # 0
                       /\ a.way \in x.members /\ a.level = x.level /\ a.name = x.name
  <2>1. \A S, t : t \in Members(S) <=>
            \E x \in S : /\ x.kind = "area" /\ x.level # 0
                         /\ \E w \in x.members : t = <<w, x.level, x.name>>
    <3> SUFFICES ASSUME NEW S, NEW t
                 PROVE  t \in Members(S) <=>
                            \E x \in S : /\ x.kind = "area" /\ x.level # 0
                                         /\ \E w \in x.members : t = <<w, x.level, x.name>>
      OBVIOUS
    <3> DEFINE Of(x) == {<<w, x.level, x.name>> : w \in x.members}
               T == {y \in S : y.kind = "area" /\ y.level # 0}
    <3>1. \A x : t \in Of(x) <=> \E w \in x.members : t = <<w, x.level, x.name>>
      OBVIOUS
    <3>2. Members(S) = UNION {Of(x) : x \in T}
      BY DEF Members
    <3>3. \A x : x \in T <=> x \in S /\ x.kind = "area" /\ x.level # 0
      OBVIOUS
    <3> HIDE DEF Of, T
    <3>4. t \in Members(S) <=> \E x \in T : t \in Of(x)
      BY <3>2
    <3> QED
      BY <3>1, <3>3, <3>4, Zenon
  <2>2. \A w, x : <<a.way, a.level, a.name>> = <<w, x.level, x.name>> <=>
            a.way = w /\ a.level = x.level /\ a.name = x.name
    OBVIOUS
  <2> SUFFICES ASSUME NEW S
               PROVE  <<a.way, a.level, a.name>> \in Members(S) <=>
                          \E x \in S : /\ x.kind = "area" /\ x.level # 0
                                       /\ a.way \in x.members /\ a.level = x.level /\ a.name = x.name
    OBVIOUS
  <2> DEFINE t == <<a.way, a.level, a.name>>
  <2>3. t \in Members(S) <=>
            \E x \in S : /\ x.kind = "area" /\ x.level # 0
                         /\ \E w \in x.members : t = <<w, x.level, x.name>>
    BY <2>1
  <2> QED
    BY <2>2, <2>3
<1>4. \A x \in world : x.kind = "area" /\ a.way \in x.members => x \in world \ todo
  BY <1>2 DEF AreaInv
<1>5. ~Emitted(a, world) <=>
          \E x \in world : x.kind = "area" /\ x.level = a.level /\ x.name = a.name /\ a.way \in x.members
  BY DEF Emitted
<1> QED
  BY <1>1, <1>3, <1>4, <1>5

\* Areas.
LEMMA AreasJoin ==
    ASSUME IInv, AreaInv, HandleArea
    PROVE  AreaInv'
<1>1. PICK a \in {x \in file : x.kind = "area"} :
          /\ mem' = AddAreaPolygons(AddPlace(AddPoi(mem, a.centroid, a.poi, a.name),
                                             a.centroid, a.place, a.name), a)
          /\ Handled(a)
  BY DEF HandleArea
<1> DEFINE b == AddPoi(mem, a.centroid, a.poi, a.name)
           d == AddPlace(b, a.centroid, a.place, a.name)
           S == world \ (todo \cup file)
           R == EmittedRings(S, world)
           skip == a.level = 0 \/ a.name = "" \/ IsMemberWay(d, a)
<1>2. a \in file /\ a.kind = "area"
  OBVIOUS
<1>3. /\ a.rings \in Seq(ToSet(a.rings))
      /\ \A q \in ToSet(a.rings) : q.outer \subseteq Int /\ IsFiniteSet(q.outer)
  BY <1>2, WorldsAssumption DEF IInv
<1>4. MemOK(mem) /\ DOMAIN mem = MemFields
  BY DEF IInv, MemOK
<1>5. AreaFieldsKept(mem, b) /\ DOMAIN b = MemFields /\ MemOK(b)
  BY <1>4, PointsKeepAreas, PlaceAndPoiKeep, KeptOK
<1>6. AreaFieldsKept(b, d) /\ DOMAIN d = MemFields /\ MemOK(d)
  BY <1>5, PointsKeepAreas, PlaceAndPoiKeep, KeptOK
<1>7. mem' = AddAreaPolygons(d, a)
  BY <1>1
<1>8. IsMemberWay(d, a) <=> <<a.way, a.level, a.name>> \in d.boundary_member_ways
  BY DEF IsMemberWay
<1> HIDE DEF b, d
<1>9. AreaFieldsKept(mem, d) /\ AdminOK(d)
  BY <1>5, <1>6, FieldsKeptTwice DEF MemOK
<1>10. /\ file' = file \ {a} /\ UNCHANGED <<world, todo, phase>>
       /\ phase = "read"
  BY <1>1, <1>2 DEF Handled, IInv
<1>11. Holds(mem, R, mem.pending_admin_holes, 1, FALSE)
  BY <1>10 DEF AreaInv
<1>12. world' \ (todo' \cup file') = S \cup {a}
  BY <1>2, <1>10 DEF IInv
<1> HIDE DEF S, R, skip
<1>13. Holds(d, R, d.pending_admin_holes, 1, FALSE)
  <2>1. Holds(d, R, mem.pending_admin_holes, 1, FALSE)
    BY <1>9, <1>11, FieldsKeptHold
  <2> QED
    BY <1>9, <2>1 DEF AreaFieldsKept
<1>14. /\ Holds(mem', R \cup (IF skip THEN {} ELSE RingsOf(a)), mem'.pending_admin_holes, 1, FALSE)
       /\ mem'.boundary_member_ways = d.boundary_member_ways
  BY <1>3, <1>6, <1>7, <1>9, <1>13, AreaJoins DEF skip
<1>15. skip <=> ~Emitted(a, world)
  <2>1. CASE a.level = 0 \/ a.name = ""
    BY <2>1 DEF skip, Emitted
  <2>2. CASE a.level # 0 /\ a.name # ""
    <3>1. skip <=> <<a.way, a.level, a.name>> \in mem.boundary_member_ways
      BY <1>8, <1>9, <2>2 DEF skip, AreaFieldsKept
    <3> QED
      BY <1>2, <2>2, <3>1, MemberIsNotEmitted
  <2> QED
    BY <2>1, <2>2
<1>16. EmittedRings(S \cup {a}, world) = R \cup (IF skip THEN {} ELSE RingsOf(a))
  BY <1>15, EmittedWith DEF R
<1>17. Holds(mem', EmittedRings(world' \ (todo' \cup file'), world'), mem'.pending_admin_holes, 1, FALSE)
  BY <1>10, <1>12, <1>14, <1>16
<1>18. /\ mem'.boundary_member_ways = Members(world' \ todo')
       /\ \A e, x \in world' : e.kind = "area" /\ x.kind = "area" /\ e \notin todo' /\ e.way \in x.members
                               => x \notin todo'
  BY <1>9, <1>10, <1>14 DEF AreaInv, AreaFieldsKept
<1> QED
  BY <1>10, <1>17, <1>18 DEF AreaInv

\* Pass 1 of a file completes the member ways for the ways in the file.
LEMMA OpeningKeepsAreas ==
    ASSUME IInv, AreaInv, OpenFile
    PROVE  AreaInv'
<1>1. PICK content \in SUBSET todo \ {{}} :
        /\ \A w \in content : \A r \in todo :
               (w.kind = "area" /\ r.kind = "area" /\ w.way \in r.members) => r \in content
        /\ file' = content
        /\ todo' = todo \ content
        /\ mem' = [mem EXCEPT !.boundary_member_ways = @ \cup Members(content)]
  BY DEF OpenFile, Members
<1>2. phase = "read" /\ file = {} /\ UNCHANGED <<world, phase>>
  BY DEF OpenFile
<1>3. DOMAIN mem = MemFields /\ todo \subseteq world
  BY DEF IInv, MemOK
<1>4. mem'.boundary_member_ways = mem.boundary_member_ways \cup Members(content)
  BY <1>1, <1>3 DEF MemFields
<1>5. \A S, T : Members(S \cup T) = Members(S) \cup Members(T)
  <2> DEFINE Of(x) == {<<w, x.level, x.name>> : w \in x.members}
  <2>1. \A S : Members(S) = UNION {Of(x) : x \in {y \in S : y.kind = "area" /\ y.level # 0}}
    BY DEF Members
  <2> HIDE DEF Of
  <2> QED
    BY <2>1
<1>6. world' \ todo' = (world \ todo) \cup content
  BY <1>1, <1>2, <1>3
<1>7. mem'.boundary_member_ways = Members(world' \ todo')
  BY <1>4, <1>5, <1>6 DEF AreaInv
<1>8. \A a, x \in world' : a.kind = "area" /\ x.kind = "area" /\ a \notin todo' /\ a.way \in x.members
                          => x \notin todo'
  BY <1>1, <1>2 DEF AreaInv
<1> DEFINE R == EmittedRings(world \ (todo \cup file), world)
           P == mem.pending_admin_holes
<1>9. world' \ (todo' \cup file') = world \ (todo \cup file)
  BY <1>1, <1>2
<1>10. Holds(mem, R, P, 1, FALSE)
  BY <1>2 DEF AreaInv
<1>11. /\ mem'.admin_polygons = mem.admin_polygons /\ mem'.cell_to_admin = mem.cell_to_admin
       /\ mem'.indexed_outer_ring_keys = mem.indexed_outer_ring_keys
       /\ mem'.i18n_names = mem.i18n_names /\ mem'.pending_admin_holes = P
  BY <1>1, <1>3 DEF MemFields
<1> HIDE DEF R, P
<1>12. Holds(mem', R, P, 1, FALSE)
  BY <1>10, <1>11, SameLayerHolds
<1>13. Holds(mem', EmittedRings(world' \ (todo' \cup file'), world'), mem'.pending_admin_holes, 1, FALSE)
  BY <1>2, <1>9, <1>11, <1>12 DEF R
<1> QED
  BY <1>2, <1>7, <1>8, <1>13 DEF AreaInv

\* finalize_admin_holes gives every polygon its final shape.
LEMMA HolesKeepAreas ==
    ASSUME IInv, AreaInv, FinalizeAdminHoles
    PROVE  AreaInv'
<1>1. /\ todo = {} /\ file = {} /\ phase = "read" /\ phase' = "holes" /\ UNCHANGED <<world, todo, file>>
      /\ mem' = [Finalized(mem, mem.pending_admin_holes) EXCEPT !.pending_admin_holes = <<>>]
  BY DEF FinalizeAdminHoles, Advance
<1> DEFINE R == EmittedRings(world \ (todo \cup file), world)
<1>2. Holds(mem, R, mem.pending_admin_holes, 1, FALSE)
  BY <1>1 DEF AreaInv
<1>3. \A s \in R : IsRing(s[2])
  BY EmittedAreRings DEF IInv
<1>4. DOMAIN mem = MemFields /\ AdminOK(mem)
  BY DEF IInv, MemOK
<1> HIDE DEF R
<1>5. Holds(mem', R, <<>>, 1, TRUE) /\ mem'.boundary_member_ways = mem.boundary_member_ways
  BY <1>1, <1>2, <1>3, <1>4, HolesAreCut
<1>6. mem'.pending_admin_holes = <<>>
  <2>1. AdminStep(mem, Finalized(mem, mem.pending_admin_holes))
    BY <1>4, HolesFinalized
  <2> QED
    BY <1>1, <2>1 DEF AdminStep, MemFields
<1>7. Holds(mem', EmittedRings(world' \ (todo' \cup file'), world'), mem'.pending_admin_holes, 1, TRUE)
  BY <1>1, <1>5, <1>6 DEF R
<1>8. /\ mem'.boundary_member_ways = Members(world' \ todo')
      /\ \A a, x \in world' : a.kind = "area" /\ x.kind = "area" /\ a \notin todo' /\ a.way \in x.members
                              => x \notin todo'
  BY <1>1, <1>5 DEF AreaInv
<1> QED
  BY <1>1, <1>6, <1>7, <1>8 DEF AreaInv

\* After the input, what keeps the polygons and the ids of every cell keeps the
\* invariant.
LEMMA LaterKeepsAreas ==
    ASSUME AreaInv, phase # "read", phase' # "read", UNCHANGED <<world, todo, file>>,
           Holds(mem', EmittedRings(world \ (todo \cup file), world), <<>>, 1, TRUE),
           mem'.boundary_member_ways = mem.boundary_member_ways,
           mem'.pending_admin_holes = mem.pending_admin_holes
    PROVE  AreaInv'
<1>1. mem'.pending_admin_holes = <<>>
  BY DEF AreaInv
<1>2. Holds(mem', EmittedRings(world' \ (todo' \cup file'), world'), mem'.pending_admin_holes, 1, phase' # "read")
  BY <1>1
<1>3. /\ mem'.boundary_member_ways = Members(world' \ todo')
      /\ \A a, x \in world' : a.kind = "area" /\ x.kind = "area" /\ a \notin todo' /\ a.way \in x.members
                              => x \notin todo'
  BY DEF AreaInv
<1> QED
  BY <1>1, <1>2, <1>3 DEF AreaInv

\* So do the steps that leave the layer alone.
LEMMA LaterFieldsKept ==
    ASSUME AreaInv, phase # "read", phase' # "read", UNCHANGED <<world, todo, file>>,
           AreaFieldsKept(mem, mem')
    PROVE  AreaInv'
<1>1. Holds(mem, EmittedRings(world \ (todo \cup file), world), <<>>, 1, TRUE)
  BY DEF AreaInv
<1>2. Holds(mem', EmittedRings(world \ (todo \cup file), world), <<>>, 1, TRUE)
  BY <1>1, FieldsKeptHold
<1> QED
  BY <1>2, LaterKeepsAreas DEF AreaFieldsKept

\* deduplicate keeps the ids of every cell.
LEMMA DeduplicateKeepsAreas ==
    ASSUME IInv, AreaInv, DeduplicateAll
    PROVE  AreaInv'
<1> DEFINE ways == Deduplicate(mem.cell_to_ways)
           addrs == Deduplicate(mem.cell_to_addrs)
           interps == Deduplicate(mem.cell_to_interps)
           new == Deduplicate(mem.cell_to_admin)
           places == Deduplicate(mem.cell_to_places)
           R == EmittedRings(world \ (todo \cup file), world)
           old == mem.cell_to_admin
<1>1. /\ phase = "resolved" /\ phase' = "dedup" /\ UNCHANGED <<world, todo, file>>
      /\ mem' = [mem EXCEPT !.cell_to_ways = ways, !.cell_to_addrs = addrs,
                            !.cell_to_interps = interps, !.cell_to_admin = new,
                            !.cell_to_places = places]
  BY DEF DeduplicateAll, Advance
<1>2. DOMAIN mem = MemFields
  BY DEF IInv, MemOK
<1> HIDE DEF ways, addrs, interps, places, new
<1>3. /\ mem'.cell_to_admin = new
      /\ mem'.admin_polygons = mem.admin_polygons
      /\ mem'.indexed_outer_ring_keys = mem.indexed_outer_ring_keys
      /\ mem'.i18n_names = mem.i18n_names
      /\ mem'.pending_admin_holes = mem.pending_admin_holes
      /\ mem'.boundary_member_ways = mem.boundary_member_ways
  BY <1>1, <1>2 DEF MemFields
<1>4. Holds(mem, R, <<>>, 1, TRUE)
  BY <1>1 DEF AreaInv
<1> HIDE DEF R
<1>5. IsCellMap(old)
  BY <1>4 DEF Holds
<1>6. /\ IsCellMap(new) /\ DOMAIN new = DOMAIN old
      /\ \A c \in DOMAIN old : ToSet(new[c]) = ToSet(old[c])
  BY <1>5, DeduplicateCellMap, DeduplicateIs DEF new, IsCellMap
<1> DEFINE e == <<>>
           last == [mem' EXCEPT !.cell_to_admin = old]
<1>7. Holds(mem', R, e, 1, TRUE)
  <2> HIDE DEF e, old
  <2>1. Holds(mem, R, e, 1, TRUE)
    BY <1>4 DEF e
  <2>2. \A k, a, q : OfRing(mem, e, 1, TRUE, k, a, q) <=> OfRing(mem', e, 1, TRUE, k, a, q)
    BY <1>3 DEF OfRing
  <2>3. \A c \in DOMAIN new : \A y \in ToSet(new[c]) : IsEntry(mem'.admin_polygons, c, y)
    BY <1>3, <1>6, <2>1 DEF Holds, old
  <2>4. \A k \in 0..Len(mem'.admin_polygons) - 1 : \A p \in mem'.admin_polygons[k + 1].shape :
            Lists(new, AdminCell(p), k)
    <3>1. \A k \in 0..Len(mem.admin_polygons) - 1 : \A p \in mem.admin_polygons[k + 1].shape :
              Lists(old, AdminCell(p), k)
      BY <2>1 DEF Holds, old
    <3>2. \A c, k : Lists(old, c, k) => Lists(new, c, k)
      BY <1>6 DEF Lists
    <3> QED
      BY <1>3, <3>1, <3>2
  <2>5. /\ \A k \in 0..Len(mem'.admin_polygons) - 1 :
               \E s \in R : OfRing(mem', e, 1, TRUE, k, s[1], s[2])
        /\ \A s \in R : \E k \in 0..Len(mem'.admin_polygons) - 1 :
               OfRing(mem', e, 1, TRUE, k, s[1], s[2])
    BY <1>3, <2>1, <2>2, Zenon DEF Holds
  <2>6. /\ mem'.indexed_outer_ring_keys = {<<s[1].level, s[2].key>> : s \in R}
        /\ \A i, j \in 1..Len(e) : i < j => e[i].poly_id < e[j].poly_id
    BY <1>3, <2>1 DEF Holds
  <2>7. \A y \in mem'.i18n_names : \E k \in 0..Len(mem'.admin_polygons) - 1 : \E s \in R :
            y = <<k, s[1].local>> /\ mem'.admin_polygons[k + 1].name = s[1].name
    <3>1. \A y \in mem.i18n_names : \E k \in 0..Len(mem.admin_polygons) - 1 : \E s \in R :
              y = <<k, s[1].local>> /\ mem.admin_polygons[k + 1].name = s[1].name
      BY <2>1 DEF Holds
    <3> QED
      BY <1>3, <3>1
  <2> QED
    BY <1>3, <1>6, <2>3, <2>4, <2>5, <2>6, <2>7, Zenon DEF Holds
<1> QED
  BY <1>1, <1>3, <1>7, LaterKeepsAreas DEF R

\* Nothing is held before anything is read.
LEMMA InitialAreas ==
    ASSUME InitAll
    PROVE  AreaInv
<1>1. todo = world /\ file = {} /\ mem = EmptyMem /\ phase = "read"
  BY DEF InitAll, Init
<1>2. /\ mem.admin_polygons = <<>> /\ mem.cell_to_admin = <<>> /\ mem.i18n_names = {}
      /\ mem.indexed_outer_ring_keys = {} /\ mem.pending_admin_holes = <<>>
      /\ mem.boundary_member_ways = {}
  BY <1>1 DEF EmptyMem, EmptyMap
<1>3. IInv
  BY InitOK
<1>4. IsCellMap(mem.cell_to_admin) /\ DOMAIN mem.cell_to_admin = {}
  <2>1. <<>> \in [{} -> Seq(Nat)] /\ IsFiniteSet({}) /\ DOMAIN <<>> = {}
    BY FS_EmptySet
  <2> QED
    BY <1>2, <2>1 DEF IsCellMap
<1>5. EmittedRings({}, world) = {} /\ Members({}) = {}
  BY DEF EmittedRings, Members
<1>6. world \ (todo \cup file) = {} /\ world \ todo = {}
  BY <1>1
<1>7. 0..Len(mem.admin_polygons) - 1 = {} /\ 1..Len(mem.pending_admin_holes) = {}
  BY <1>2
<1>8. Holds(mem, {}, mem.pending_admin_holes, 1, FALSE)
  BY <1>2, <1>4, <1>7 DEF Holds
<1> QED
  BY <1>1, <1>2, <1>5, <1>6, <1>8 DEF AreaInv

\* The admin layer always holds the rings of the areas handled so far.
THEOREM AreaInvariance == Spec => []AreaInv
<1>1. InitAll => AreaInv
  BY InitialAreas
<1>2. IInv /\ AreaInv /\ [Next]_vars => AreaInv'
  <2> SUFFICES ASSUME IInv, AreaInv, [Next]_vars PROVE AreaInv'
    OBVIOUS
  <2>1. DOMAIN mem = MemFields
    BY DEF IInv, MemOK
  <2>2. CASE OpenFile
    BY <2>2, OpeningKeepsAreas
  <2>3. CASE HandleNode
    BY <2>3, NodesKeepAreas
  <2>4. CASE HandleWay
    BY <2>4, WaysKeepAreas
  <2>5. CASE HandleArea
    BY <2>5, AreasJoin
  <2>6. CASE FinalizeAdminHoles
    BY <2>6, HolesKeepAreas
  <2>7. CASE ResolveInterpolation
    <3>1. /\ phase = "holes" /\ phase' = "resolved" /\ UNCHANGED <<world, todo, file>>
          /\ \E w : mem' = [mem EXCEPT !.interp_ways = w]
      BY <2>7 DEF ResolveInterpolation, Advance
    <3>2. AreaFieldsKept(mem, mem')
      BY <2>1, <3>1 DEF AreaFieldsKept, MemFields
    <3> QED
      BY <3>1, <3>2, LaterFieldsKept
  <2>8. CASE DeduplicateAll
    BY <2>8, DeduplicateKeepsAreas
  <2>9. CASE SortAddrPoints
    <3>1. /\ phase = "dedup" /\ phase' = "sorted" /\ UNCHANGED <<world, todo, file>>
          /\ \E x, y : mem' = [mem EXCEPT !.addr_points = x, !.cell_to_addrs = y]
      BY <2>9 DEF SortAddrPoints, SortAddrPointsByCell, Advance
    <3>2. AreaFieldsKept(mem, mem')
      BY <2>1, <3>1 DEF AreaFieldsKept, MemFields
    <3> QED
      BY <3>1, <3>2, LaterFieldsKept
  <2>10. CASE WriteIndex
    <3>1. /\ phase = "sorted" /\ phase' \in {"written", "failed"} /\ UNCHANGED <<world, todo, file, mem>>
      BY <2>10 DEF WriteIndex, Advance
    <3>2. AreaFieldsKept(mem, mem')
      BY <3>1 DEF AreaFieldsKept
    <3> QED
      BY <3>1, <3>2, LaterFieldsKept
  <2>11. CASE Load
    <3>1. /\ phase = "written" /\ phase' = "loaded" /\ UNCHANGED <<world, todo, file, mem>>
      BY <2>11 DEF Load
    <3>2. AreaFieldsKept(mem, mem')
      BY <3>1 DEF AreaFieldsKept
    <3> QED
      BY <3>1, <3>2, LaterFieldsKept
  <2>12. CASE Query \/ UNCHANGED vars
    <3>1. UNCHANGED <<world, todo, file, mem, phase>>
      BY <2>12 DEF Query, vars, buildVars
    <3> QED
      BY <3>1 DEF AreaInv
  <2> QED
    BY <2>2, <2>3, <2>4, <2>5, <2>6, <2>7, <2>8, <2>9, <2>10, <2>11, <2>12 DEF Next, BuildNext
<1> QED
  BY <1>1, <1>2, Invariance, PTL DEF Spec

\* The polygons of a written index are those of the input.
LEMMA WrittenPolygons ==
    ASSUME IInv, AreaInv, phase \in {"written", "loaded"}
    PROVE  ToSet(files.admin_polygons) = PolygonsOf(world)
<1> DEFINE R == EmittedRings(world, world)
           polys == mem.admin_polygons
           n == Len(polys)
           keys == {<<s[1].level, s[2].key>> : s \in R}
           Of(s) == PolygonOf(s[1], s[2], FinalShape(s[1], s[2], keys))
<1>1. files.admin_polygons = polys /\ todo = {} /\ file = {} /\ phase # "read"
  BY DEF IInv, Written
<1>2. Holds(mem, R, <<>>, 1, TRUE)
  <2>1. world \ (todo \cup file) = world
    BY <1>1
  <2> QED
    BY <1>1, <2>1 DEF AreaInv
<1>3. /\ n \in Nat /\ DOMAIN polys = 1..n
  BY DEF IInv, MemOK, AdminOK, IsSeq
<1>4. ToSet(polys) = {polys[i] : i \in 1..n}
  BY <1>3 DEF ToSet
<1>5. PolygonsOf(world) = {Of(s) : s \in R}
  BY DEF PolygonsOf
<1>6. mem.indexed_outer_ring_keys = keys
  BY <1>2 DEF Holds
<1>7. \A k : ~Waiting(k, <<>>, 1)
  BY DEF Waiting
<1>8. \A k, a, q : OfRing(mem, <<>>, 1, TRUE, k, a, q) =>
          polys[k + 1] = PolygonOf(a, q, FinalShape(a, q, keys))
  BY <1>6, <1>7 DEF OfRing
<1>9. \A k \in 0..n - 1 : k + 1 \in 1..n /\ \E s \in R : polys[k + 1] = Of(s)
  <2>1. \A k \in 0..n - 1 : \E s \in R : OfRing(mem, <<>>, 1, TRUE, k, s[1], s[2])
    BY <1>2 DEF Holds
  <2>2. \A k \in 0..n - 1 : k + 1 \in 1..n
    BY <1>3
  <2>3. \A k, s : OfRing(mem, <<>>, 1, TRUE, k, s[1], s[2]) => polys[k + 1] = Of(s)
    BY <1>8
  <2> HIDE DEF R, polys, n, Of
  <2> QED
    BY <2>1, <2>2, <2>3
<1>10. \A s \in R : \E k \in 0..n - 1 : polys[k + 1] = Of(s)
  <2>1. \A s \in R : \E k \in 0..n - 1 : OfRing(mem, <<>>, 1, TRUE, k, s[1], s[2])
    BY <1>2 DEF Holds
  <2> QED
    BY <1>8, <2>1
<1>11. \A i \in 1..n : i - 1 \in 0..n - 1 /\ (i - 1) + 1 = i
  BY <1>3
<1> HIDE DEF R, polys, n, Of
<1>12. \A i \in 1..n : \E s \in R : polys[i] = Of(s)
  BY <1>9, <1>11
<1> QED
  BY <1>1, <1>4, <1>5, <1>9, <1>10, <1>12

\* Whatever files the input comes in, and in whatever order its objects are read,
\* the admin polygons of the written index are the same: those of its rings, with
\* the holes that no ring of the level fills (add_admin_polygon,
\* boundary_member_ways, finalize_admin_holes).
THEOREM PolygonsAreThoseOfTheInput == Spec => []PolygonsAreOfInput
<1>1. IInv /\ AreaInv => PolygonsAreOfInput
  BY WrittenPolygons DEF PolygonsAreOfInput
<1> QED
  BY <1>1, Invariance, AreaInvariance, PTL

-----------------------------------------------------------------------------
(* The areas of an answer: what find_admin takes from the admin layer.       *)

\* The admin layer of a loaded index: the polygons of the input, each with a name
\* and a size, and translations of their names.
LEMMA AdminLoaded ==
    ASSUME IInv, AreaInv, phase = "loaded"
    PROVE  /\ files.admin_polygons = mem.admin_polygons
           /\ files.admin_cells = CellIndex(mem.cell_to_admin)
           /\ files.admin_entries = EntriesFile(mem.cell_to_admin)
           /\ files.i18n_names = mem.i18n_names
           /\ IsSeq(mem.admin_polygons) /\ Len(mem.admin_polygons) \in Nat
           /\ Holds(mem, EmittedRings(world, world), <<>>, 1, TRUE)
<1>1. files = Written(mem) /\ todo = {} /\ file = {}
  BY DEF IInv
<1>2. IsSeq(mem.admin_polygons) /\ Len(mem.admin_polygons) \in Nat
  BY DEF IInv, MemOK, AdminOK, IsSeq
<1>3. Holds(mem, EmittedRings(world, world), <<>>, 1, TRUE)
  <2>1. world \ (todo \cup file) = world
    BY <1>1
  <2> QED
    BY <2>1 DEF AreaInv
<1> QED
  BY <1>1, <1>2, <1>3 DEF Written

\* Every polygon of it has a name and a size.
LEMMA PolygonIs ==
    ASSUME IInv, AreaInv, phase = "loaded", NEW k \in 0..Len(mem.admin_polygons) - 1
    PROVE  mem.admin_polygons[k + 1].name # "" /\ mem.admin_polygons[k + 1].area \in Nat
<1> DEFINE R == EmittedRings(world, world)
           n == Len(mem.admin_polygons)
           g == mem.admin_polygons[k + 1]
<1>1. PICK s \in R : OfRing(mem, <<>>, 1, TRUE, k, s[1], s[2])
  <2>1. \A i \in 0..n - 1 : \E s \in R : OfRing(mem, <<>>, 1, TRUE, i, s[1], s[2])
    BY AdminLoaded DEF Holds
  <2> HIDE DEF R, n
  <2> QED
    BY <2>1 DEF n
<1>2. g = PolygonOf(s[1], s[2], g.shape)
  BY <1>1 DEF OfRing
<1>3. s[1].name # ""
  <2>1. PICK a \in {x \in world : Emitted(x, world)} : s \in RingsOf(a)
    BY DEF EmittedRings
  <2>2. s[1] = a
    BY <2>1 DEF RingsOf
  <2> QED
    BY <2>1, <2>2 DEF Emitted
<1>4. IsFiniteSet(s[2].outer)
  BY EmittedAreRings DEF IInv, IsRing
<1>5. Cardinality(s[2].outer) \in Nat
  BY <1>4, FS_CardinalityType
<1> HIDE DEF g, R
<1>6. g.name = s[1].name /\ g.area = Cardinality(s[2].outer)
  <2> DEFINE q == PolygonOf(s[1], s[2], g.shape)
  <2>1. q.name = s[1].name /\ q.area = Cardinality(s[2].outer)
    BY DEF PolygonOf
  <2> HIDE DEF q
  <2> QED
    BY <1>2, <2>1 DEF q
<1> QED
  BY <1>3, <1>5, <1>6 DEF g

\* What is read in a cell was pushed there, and all of it unless the count is
\* capped.
LEMMA ReadBackFrom ==
    ASSUME NEW map, IsCellMap(map), NEW c
    PROVE  /\ ReadBack(map, c) \in Seq(Nat)
           /\ \A j \in 1..Len(ReadBack(map, c)) : c \in DOMAIN map /\ ReadBack(map, c)[j] \in ToSet(map[c])
           /\ (c \in DOMAIN map /\ Len(map[c]) <= CountCap) => ReadBack(map, c) = map[c]
<1>1. CASE c \notin DOMAIN map
  <2>1. ReadBack(map, c) = <<>>
    BY <1>1 DEF ReadBack
  <2>2. <<>> \in Seq(Nat) /\ Len(<<>>) = 0
    OBVIOUS
  <2> QED
    BY <1>1, <2>1, <2>2
<1>2. CASE c \in DOMAIN map
  <2> DEFINE l == map[c]
             k == Counted(l)
             r == [i \in 1..k |-> l[i]]
  <2>1. l \in Seq(Nat) /\ ReadBack(map, c) = r
    BY <1>2 DEF IsCellMap, ReadBack
  <2>2. Len(l) \in Nat /\ k \in 0..Len(l)
    BY <2>1, CountedType
  <2>3. CountCap \in Nat
    BY CapsAssumption
  <2>4. Len(l) <= CountCap => k = Len(l)
    BY <2>2, <2>3, MinOfTwo DEF Counted
  <2> HIDE DEF l, k
  <2>5. r \in Seq(Nat) /\ Len(r) = k
    BY <2>1, <2>2
  <2>6. k = Len(l) => r = l
    BY <2>1
  <2>7. \A j \in 1..k : r[j] \in ToSet(l)
    BY <2>1, <2>2 DEF ToSet
  <2> QED
    BY <1>2, <2>1, <2>4, <2>5, <2>6, <2>7 DEF l
<1> QED
  BY <1>1, <1>2

\* Every picked position gives its element.
LEMMA PickedHas ==
    ASSUME NEW T, NEW s \in Seq(T), NEW X, X \subseteq DOMAIN s, NEW x \in X
    PROVE  \E i \in 1..Len(Picked(s, X)) : Picked(s, X)[i] = s[x]
<1> DEFINE at == Ascending(X)
           r == Picked(s, X)
<1>1. Len(s) \in Nat /\ DOMAIN s = 1..Len(s)
  OBVIOUS
<1>2. X \subseteq Int /\ IsFiniteSet(X)
  <2>1. IsFiniteSet(1..Len(s))
    BY <1>1, FS_Interval
  <2> QED
    BY <1>1, <2>1, FS_Subset
<1>3. at \in Seq(X) /\ \E i \in 1..Len(at) : at[i] = x
  BY <1>2, AscendingSorted
<1>4. r = [i \in 1..Len(at) |-> s[at[i]]] /\ Len(at) \in Nat
  BY <1>3 DEF Picked
<1> HIDE DEF at, r
<1>5. Len(r) = Len(at)
  BY <1>4
<1> QED
  BY <1>3, <1>4, <1>5 DEF r

\* The entries of the admin layer in a cell, as find_admin collects them.
AdminEntries(map, d) ==
    [j \in DOMAIN ReadBack(map, d) |-> [cell |-> d, id |-> ReadBack(map, d)[j]]]

\* They are in the lists of their cells, with all that a cell within the caps has.
LEMMA AdminEntriesAre ==
    ASSUME NEW map, IsCellMap(map), NEW d \in Int
    PROVE  /\ AdminEntries(map, d) \in Seq({e \in [cell : Int, id : Nat] : e.cell = d /\ d \in DOMAIN map /\ e.id \in ToSet(map[d])})
           /\ (d \in DOMAIN map /\ Len(map[d]) <= CountCap) =>
                  \A id \in ToSet(map[d]) : \E j \in 1..Len(AdminEntries(map, d)) :
                      AdminEntries(map, d)[j] = [cell |-> d, id |-> id]
<1> DEFINE l == ReadBack(map, d)
           r == [j \in DOMAIN l |-> [cell |-> d, id |-> l[j]]]
<1>1. /\ l \in Seq(Nat)
      /\ \A j \in 1..Len(l) : d \in DOMAIN map /\ l[j] \in ToSet(map[d])
      /\ (d \in DOMAIN map /\ Len(map[d]) <= CountCap) => l = map[d]
  BY ReadBackFrom
<1> HIDE DEF l
<1>2. DOMAIN l = 1..Len(l) /\ Len(l) \in Nat /\ \A j \in 1..Len(l) : l[j] \in Nat
  BY <1>1
<1>3. \A j \in 1..Len(l) : r[j] = [cell |-> d, id |-> l[j]]
  BY <1>2
<1> DEFINE T == {e \in [cell : Int, id : Nat] : e.cell = d /\ d \in DOMAIN map /\ e.id \in ToSet(map[d])}
<1>4. \A j \in 1..Len(l) : [cell |-> d, id |-> l[j]] \in T
  BY <1>1, <1>2
<1> HIDE DEF T
<1>5. r \in Seq(T) /\ Len(r) = Len(l)
  BY <1>2, <1>4
<1>6. ASSUME d \in DOMAIN map, Len(map[d]) <= CountCap, NEW id \in ToSet(map[d])
      PROVE  \E j \in 1..Len(r) : r[j] = [cell |-> d, id |-> id]
  <2>1. l = map[d]
    BY <1>1, <1>6
  <2>2. PICK j \in 1..Len(l) : l[j] = id
    BY <1>2, <1>6, <2>1 DEF ToSet
  <2> HIDE DEF r
  <2> QED
    BY <1>3, <1>5, <2>2
<1>7. AdminEntries(map, d) = r
  BY DEF AdminEntries, l
<1> HIDE DEF r
<1> QED
  BY <1>5, <1>6, <1>7 DEF T

\* The candidates of find_admin: the entries of the cells around the position's.
AdminMet(p) ==
    ScanOf(AdminCell(p), [d \in Near(AdminCell(p)) |-> AdminEntries(mem.cell_to_admin, d)])

\* An entry of the admin layer.
IsAdminEntry(e) ==
    /\ e.cell \in Int /\ e.id \in Nat /\ e.cell \in DOMAIN mem.cell_to_admin
    /\ e.id \in ToSet(mem.cell_to_admin[e.cell])

AdminEntrySet == {e \in [cell : Int, id : Nat] : IsAdminEntry(e)}

\* They are entries of the lists around the cell, and all of the cell's own within
\* the caps.
LEMMA AdminScan ==
    ASSUME IInv, AreaInv, phase = "loaded", NEW p \in Int, NEW met, met = AdminMet(p)
    PROVE  /\ met \in Seq(AdminEntrySet)
           /\ WithinCaps /\ AdminCell(p) \in DOMAIN mem.cell_to_admin =>
                  \A id \in ToSet(mem.cell_to_admin[AdminCell(p)]) : \E x \in 1..Len(met) :
                      met[x] = [cell |-> AdminCell(p), id |-> id]
<1> DEFINE c == AdminCell(p)
           map == mem.cell_to_admin
           f == [d \in Near(c) |-> AdminEntries(map, d)]
           T == AdminEntrySet
<1>1. c \in Int
  BY AdminCellType
<1>2. IsCellMap(map)
  BY AdminLoaded DEF Holds
<1>3. met = ScanOf(c, f)
  BY DEF AdminMet
<1> HIDE DEF c, map
<1>4. \A d \in Near(c) : d \in Int
  BY <1>1 DEF Near
<1>5. \A d \in Near(c) : f[d] = AdminEntries(map, d)
  OBVIOUS
<1> HIDE DEF f
<1>6. \A d \in Near(c) : f[d] \in Seq(T)
  <2> TAKE d \in Near(c)
  <2> DEFINE S == {e \in [cell : Int, id : Nat] : e.cell = d /\ d \in DOMAIN map /\ e.id \in ToSet(map[d])}
  <2>1. f[d] \in Seq(S)
    BY <1>2, <1>4, <1>5, AdminEntriesAre
  <2>2. S \subseteq T
    BY DEF AdminEntrySet, IsAdminEntry, map
  <2> HIDE DEF S, T
  <2> QED
    BY <2>1, <2>2
<1> HIDE DEF T
<1>7. /\ met \in Seq(T)
      /\ \A d \in Near(c) : \A j \in 1..Len(f[d]) : \E x \in 1..Len(met) : met[x] = f[d][j]
  BY <1>1, <1>3, <1>6, ScanHolds
<1>8. ASSUME WithinCaps, c \in DOMAIN map, NEW id \in ToSet(map[c])
       PROVE  \E x \in 1..Len(met) : met[x] = [cell |-> c, id |-> id]
  <2>1. Len(map[c]) <= CountCap
    BY <1>8 DEF WithinCaps, Layers, map
  <2>2. PICK j \in 1..Len(f[c]) : f[c][j] = [cell |-> c, id |-> id]
    <3>1. c \in Near(c)
      BY DEF Near
    <3>2. \E j \in 1..Len(AdminEntries(map, c)) : AdminEntries(map, c)[j] = [cell |-> c, id |-> id]
      BY <1>1, <1>2, <1>8, <2>1, AdminEntriesAre
    <3> QED
      BY <1>5, <3>1, <3>2
  <2>3. c \in Near(c)
    BY DEF Near
  <2>4. PICK x \in 1..Len(met) : met[x] = f[c][j]
    BY <1>7, <2>2, <2>3
  <2> QED
    BY <2>2, <2>4
<1> QED
  BY <1>7, <1>8 DEF T, map, c

\* Below the flag an id and its flagged form can be told apart.
LEMMA FlagTells ==
    ASSUME NEW k \in Nat, k < INTERIOR_FLAG
    PROVE  /\ k % INTERIOR_FLAG = k /\ ~(k >= INTERIOR_FLAG)
           /\ (k + INTERIOR_FLAG) % INTERIOR_FLAG = k /\ k + INTERIOR_FLAG >= INTERIOR_FLAG
<1>1. k \in Nat /\ k < 1073741824
  BY DEF INTERIOR_FLAG
<1>2. k % 1073741824 = k
  BY <1>1
<1>3. (k + 1073741824) % 1073741824 = k
  BY <1>1
<1> QED
  BY <1>1, <1>2, <1>3 DEF INTERIOR_FLAG

\* An admin entry of a loaded index names a polygon, and a flagged one that of a
\* cell it holds.
LEMMA EntryNames ==
    ASSUME IInv, AreaInv, phase = "loaded", NEW e \in [cell : Int, id : Nat],
           e.cell \in DOMAIN mem.cell_to_admin, e.id \in ToSet(mem.cell_to_admin[e.cell])
    PROVE  /\ e.id % INTERIOR_FLAG \in 0..Len(mem.admin_polygons) - 1
           /\ Len(mem.admin_polygons) <= INTERIOR_FLAG /\ e.id >= INTERIOR_FLAG =>
                  CellPoints(e.cell) \subseteq mem.admin_polygons[(e.id % INTERIOR_FLAG) + 1].shape
<1> DEFINE n == Len(mem.admin_polygons)
           polys == mem.admin_polygons
           id == e.id
           F == INTERIOR_FLAG
<1>1. n \in Nat /\ IsEntry(polys, e.cell, id)
  BY AdminLoaded DEF Holds
<1>2. F \in Nat
  BY DEF INTERIOR_FLAG
<1> HIDE DEF F
<1>3. \A k \in 0..n - 1 : k \in Nat /\ k < n
  BY <1>1
<1>4. CASE id \in 0..n - 1
  <2>1. id % F \in 0..n - 1
    BY <1>1, <1>3, <1>4, FlaggedId DEF F
  <2>2. n <= F => ~(id >= F)
    BY <1>1, <1>2, <1>4
  <2> QED
    BY <2>1, <2>2 DEF F
<1>5. CASE \E k \in 0..n - 1 : id = k + F /\ CellPoints(e.cell) \subseteq polys[k + 1].shape
  <2>1. PICK k \in 0..n - 1 : id = k + F /\ CellPoints(e.cell) \subseteq polys[k + 1].shape
    BY <1>5
  <2>2. (k + F) % F \in 0..n - 1
    BY <1>1, <1>3, FlaggedId DEF F
  <2>3. n <= F => (k + F) % F = k
    <3> SUFFICES ASSUME n <= F PROVE (k + F) % F = k
      OBVIOUS
    <3>1. k \in Nat /\ k < F
      BY <1>1, <1>2
    <3> QED
      BY <3>1, FlagTells DEF F
  <2> HIDE DEF id, polys, n
  <2> QED
    BY <2>1, <2>2, <2>3 DEF id, polys, n, F
<1> QED
  BY <1>1, <1>4, <1>5 DEF IsEntry, n, F

\* The ids are those of the polygons around the position, as long as the flag
\* leaves an id for each, and all of them when no cell is over the cap.
AreAround(hits, p) ==
    LET n == Len(mem.admin_polygons)
    IN  /\ hits \in Seq(0..n - 1)
        /\ n <= INTERIOR_FLAG => \A i \in 1..Len(hits) : p \in mem.admin_polygons[hits[i] + 1].shape
        /\ n <= INTERIOR_FLAG /\ WithinCaps =>
               \A k \in 0..n - 1 : p \in mem.admin_polygons[k + 1].shape =>
                   \E i \in 1..Len(hits) : hits[i] = k

\* find_admin keeps exactly the candidates that hold the position.
LEMMA ContainingIs ==
    ASSUME IInv, AreaInv, phase = "loaded", NEW p \in Int, NEW hits, hits = Containing(p)
    PROVE  AreAround(hits, p)
<1> DEFINE n == Len(mem.admin_polygons)
           polys == mem.admin_polygons
           map == mem.cell_to_admin
           c == AdminCell(p)
           F == INTERIOR_FLAG
           met == AdminMet(p)
           Keeps(e) == (e.id >= F /\ e.cell = c) \/ p \in polys[(e.id % F) + 1].shape
           X == {x \in DOMAIN met : Keeps(met[x])}
           kept == Picked(met, X)
           T == AdminEntrySet
<1>1. /\ files.admin_polygons = polys /\ files.admin_cells = CellIndex(map)
      /\ files.admin_entries = EntriesFile(map)
      /\ n \in Nat /\ IsCellMap(map)
  BY AdminLoaded DEF Holds
<1>2. c \in Int /\ p \in CellPoints(c)
  BY AdminCellType
<1>3. hits = [i \in DOMAIN kept |-> kept[i].id % F]
  <2> DEFINE cells == Neighbourhood(c)
             Entries(d) == LET ids == ForEachEntry(files.admin_entries, LookupCell(files.admin_cells, d))
                           IN  [i \in DOMAIN ids |-> [cell |-> d, id |-> ids[i]]]
             read == FlattenSeq([i \in DOMAIN cells |-> Entries(cells[i])])
             Kept(s) == Picked(s, {x \in DOMAIN s : Keeps(s[x])})
  <2>1. read = met
    <3> DEFINE f == [d \in Near(c) |-> AdminEntries(map, d)]
    <3>1. \A d \in Int : Entries(d) = AdminEntries(map, d)
      <4> TAKE d \in Int
      <4>1. ForEachEntry(files.admin_entries, LookupCell(files.admin_cells, d)) = ReadBack(map, d)
        BY <1>1, CellIndexReadsBack
      <4> QED
        BY <4>1 DEF AdminEntries
    <3>2. \A i \in DOMAIN cells : cells[i] \in Near(c) /\ cells[i] \in Int
      BY <1>2 DEF Near, Neighbourhood
    <3>3. \A d \in Near(c) : f[d] = AdminEntries(map, d)
      OBVIOUS
    <3>4. met = ScanOf(c, f)
      BY DEF AdminMet
    <3> HIDE DEF cells, Entries, f, met
    <3>5. \A i \in DOMAIN cells : Entries(cells[i]) = f[cells[i]]
      BY <3>1, <3>2, <3>3
    <3>6. [i \in DOMAIN cells |-> Entries(cells[i])] = [i \in DOMAIN cells |-> f[cells[i]]]
      BY <3>5
    <3> QED
      BY <3>4, <3>6 DEF ScanOf, cells
  <2>2. Containing(p) = [i \in DOMAIN Kept(read) |-> Kept(read)[i].id % F]
    BY <1>1 DEF Containing, ScanCells, Filter, ContainsPoint, Picked, At
  <2> HIDE DEF read, met
  <2> QED
    BY <2>1, <2>2
<1>4. /\ met \in Seq(T)
      /\ WithinCaps /\ c \in DOMAIN map => \A id \in ToSet(map[c]) : \E x \in 1..Len(met) :
             met[x] = [cell |-> c, id |-> id]
  BY AdminScan
<1> HIDE DEF met
<1>5. Len(met) \in Nat /\ DOMAIN met = 1..Len(met) /\ \A x \in 1..Len(met) : met[x] \in T
  BY <1>4
<1>6. X \subseteq DOMAIN met
  OBVIOUS
<1>7. \A x \in X : x \in 1..Len(met) /\ Keeps(met[x])
  BY <1>5
<1>8. \A x \in 1..Len(met) : Keeps(met[x]) => x \in X
  BY <1>5
<1> HIDE DEF X
<1>9. /\ kept \in Seq(T) /\ \A i \in 1..Len(kept) : \E x \in X : kept[i] = met[x]
      /\ \A x \in X : \E i \in 1..Len(kept) : kept[i] = met[x]
  BY <1>4, <1>6, PickedIs, PickedHas
<1> HIDE DEF kept
<1>10. Len(kept) \in Nat /\ DOMAIN kept = 1..Len(kept) /\ \A i \in 1..Len(kept) : kept[i] \in T
  BY <1>9
<1>11. \A e \in T : /\ e.id % F \in 0..n - 1
                    /\ n <= F /\ e.id >= F => CellPoints(e.cell) \subseteq polys[(e.id % F) + 1].shape
  BY EntryNames DEF AdminEntrySet, IsAdminEntry
<1> HIDE DEF T, F, n, polys, map, c
<1>12. Len(hits) = Len(kept) /\ \A i \in 1..Len(kept) : hits[i] = kept[i].id % F
  BY <1>3, <1>10
<1>13. hits \in Seq(0..n - 1)
  <2>1. \A i \in 1..Len(kept) : kept[i].id % F \in 0..n - 1
    BY <1>10, <1>11
  <2> HIDE DEF Keeps
  <2> QED
    BY <1>3, <1>10, <2>1
<1>14. ASSUME n <= F, NEW i \in 1..Len(hits) PROVE p \in polys[hits[i] + 1].shape
  <2>1. PICK x \in X : kept[i] = met[x]
    BY <1>9, <1>12, <1>14
  <2>2. Keeps(kept[i]) /\ kept[i] \in T
    BY <1>7, <1>10, <1>12, <1>14, <2>1
  <2>3. kept[i].id >= F /\ kept[i].cell = c => p \in polys[(kept[i].id % F) + 1].shape
    BY <1>2, <1>11, <1>14, <2>2
  <2>4. p \in polys[(kept[i].id % F) + 1].shape
    BY <2>2, <2>3
  <2> QED
    BY <1>12, <1>14, <2>4
<1>15. ASSUME n <= F, WithinCaps, NEW k \in 0..n - 1, p \in polys[k + 1].shape
       PROVE  \E i \in 1..Len(hits) : hits[i] = k
  <2>1. Lists(map, c, k)
    BY <1>15, AdminLoaded DEF Holds, n, polys, map, c
  <2>2. k \in Nat /\ k < F
    BY <1>1, <1>15 DEF F, INTERIOR_FLAG
  <2>3. k % F = k /\ (k + F) % F = k
    BY <2>2, FlagTells DEF F
  <2>4. PICK id \in ToSet(map[c]) : id = k \/ id = k + F
    BY <2>1 DEF Lists, F
  <2>5. c \in DOMAIN map /\ id % F = k
    BY <2>1, <2>3, <2>4 DEF Lists
  <2>6. PICK x \in 1..Len(met) : met[x] = [cell |-> c, id |-> id]
    BY <1>4, <1>15, <2>5
  <2>7. met[x].id = id
    BY <2>6
  <2>8. Keeps(met[x])
    BY <1>15, <2>5, <2>7
  <2>9. PICK i \in 1..Len(kept) : kept[i] = met[x]
    BY <1>8, <1>9, <2>8
  <2>10. hits[i] = k
    BY <1>12, <2>5, <2>7, <2>9
  <2> QED
    BY <1>12, <2>9, <2>10
<1> QED
  BY <1>13, <1>14, <1>15 DEF AreAround, n, polys, F

\* The kept ids whose polygon is of a level.
OfLevel(hits, level) == {j \in 1..Len(hits) : mem.admin_polygons[hits[j] + 1].level = level}

Area(id) == mem.admin_polygons[id + 1].area

\* best_by_level: a smallest polygon of the level among those that were kept.
LEMMA BestIs ==
    ASSUME IInv, AreaInv, phase = "loaded",
           NEW hits \in Seq(0..Len(mem.admin_polygons) - 1), NEW level
    PROVE  /\ OfLevel(hits, level) = {} => BestAtLevel(hits, level) = <<>>
           /\ OfLevel(hits, level) # {} => \E i \in OfLevel(hits, level) :
                  /\ BestAtLevel(hits, level) = <<hits[i]>>
                  /\ \A j \in OfLevel(hits, level) : Area(hits[i]) <= Area(hits[j])
<1> DEFINE polys == mem.admin_polygons
           n == Len(polys)
           at == OfLevel(hits, level)
           best == Picked(hits, at)
           m == Len(best)
           size(id) == Area(id)
           keys == {size(best[i]) : i \in DOMAIN best}
           least == {i \in DOMAIN best : size(best[i]) = Min(keys)}
<1>1. files.admin_polygons = polys /\ n \in Nat
  BY AdminLoaded
<1>2. Len(hits) \in Nat /\ DOMAIN hits = 1..Len(hits) /\ \A j \in 1..Len(hits) : hits[j] \in 0..n - 1
  OBVIOUS
<1>3. \A k \in 0..n - 1 : size(k) \in Nat
  BY PolygonIs DEF Area
<1>4. BestAtLevel(hits, level) = IF best = <<>> THEN <<>> ELSE <<best[Min(least)]>>
  <2>1. at = {j \in DOMAIN hits : polys[hits[j] + 1].level = level}
    BY <1>2 DEF OfLevel
  <2> DEFINE kept == Picked(hits, {j \in DOMAIN hits : polys[hits[j] + 1].level = level})
  <2>2. BestAtLevel(hits, level) =
            IF kept = <<>> THEN <<>>
            ELSE <<kept[Min({i \in DOMAIN kept :
                       size(kept[i]) = Min({size(kept[j]) : j \in DOMAIN kept})})]>>
    BY <1>1 DEF BestAtLevel, Filter, Picked, First, FirstMin, At, Area
  <2>3. kept = best
    BY <2>1
  <2> HIDE DEF kept, best
  <2> QED
    BY <2>2, <2>3
<1> DEFINE T == 0..n - 1
<1>5. hits \in Seq(T)
  OBVIOUS
<1> HIDE DEF polys, n, at, T
<1>6. at \subseteq DOMAIN hits
  BY <1>2 DEF at, OfLevel
<1>7. /\ best \in Seq(T) /\ \A i \in 1..m : \E x \in at : best[i] = hits[x]
      /\ \A x \in at : \E i \in 1..m : best[i] = hits[x]
  <2>1. best \in Seq(T) /\ \A i \in 1..Len(best) : \E x \in at : best[i] = hits[x]
    BY <1>6, <1>5, PickedIs
  <2>2. \A x \in at : \E i \in 1..Len(best) : best[i] = hits[x]
    BY <1>6, <1>5, PickedHas
  <2> QED
    BY <2>1, <2>2
<1> HIDE DEF best
<1>8. m \in Nat /\ DOMAIN best = 1..m /\ (m = 0 <=> best = <<>>) /\ \A i \in 1..m : best[i] \in 0..n - 1
  <2>1. m \in Nat /\ DOMAIN best = 1..m /\ \A i \in 1..m : best[i] \in T
    BY <1>7
  <2>2. m = 0 <=> best = <<>>
    BY <1>7
  <2> QED
    BY <2>1, <2>2 DEF T
<1>9. CASE at = {}
  <2>1. m = 0
    BY <1>7, <1>8, <1>9
  <2> QED
    BY <1>4, <1>8, <1>9, <2>1 DEF at
<1>10. CASE at # {}
  <2> DEFINE f == [i \in 1..m |-> size(best[i])]
  <2>1. m # 0
    BY <1>7, <1>8, <1>10
  <2>2. f \in [1..m -> Nat]
    BY <1>3, <1>8
  <2>3. \A i \in 1..m : f[i] = size(best[i])
    OBVIOUS
  <2> HIDE DEF f
  <2>4. keys = {f[i] : i \in 1..m} /\ least = {i \in 1..m : f[i] = Min(keys)}
    BY <1>8, <2>3
  <2> HIDE DEF keys, least
  <2>5. Min(least) \in 1..m /\ \A i \in 1..m : f[Min(least)] <= f[i]
    BY <1>8, <2>1, <2>2, <2>4, FirstLeast
  <2>6. PICK b \in 1..m : b = Min(least)
    BY <2>5
  <2>7. PICK i \in at : best[b] = hits[i]
    BY <1>7
  <2>8. BestAtLevel(hits, level) = <<hits[i]>>
    BY <1>4, <1>8, <2>1, <2>6, <2>7
  <2>9. ASSUME NEW j \in at PROVE size(hits[i]) <= size(hits[j])
    <3>1. PICK k \in 1..m : best[k] = hits[j]
      BY <1>7
    <3>2. f[b] <= f[k]
      BY <2>5, <2>6
    <3> QED
      BY <2>3, <2>7, <3>1, <3>2
  <2> QED
    BY <1>10, <2>8, <2>9 DEF at
<1> QED
  BY <1>9, <1>10

\* The fields of an admin result that remember a polygon.
PolyFields == {"country", "state", "county", "city"}

NameOf(k) == mem.admin_polygons[k + 1].name

\* Every polygon that an admin result remembers is one of H, with the name that
\* stands in the field.
Placed(r, H) ==
    /\ DOMAIN r = AdminFields /\ DOMAIN r.polys = PolyFields
    /\ \A f \in PolyFields : r.polys[f] = -1 \/ (r.polys[f] \in H /\ r[f] = NameOf(r.polys[f]) /\ r[f] # "")

\* Ids that find_admin may set fields by.
Named(H) == \A id \in H : At(files.admin_polygons, id).name = NameOf(id) /\ NameOf(id) # ""

\* Setting a field of a level remembers the polygon and leaves the country alone.
LEMMA SetFieldPlaced ==
    ASSUME NEW H, Named(H), NEW r, Placed(r, H), NEW field, NEW id \in H
    PROVE  Placed(SetField(r, field, id), H) /\ SetField(r, field, id).country = r.country
<1> DEFINE name == At(files.admin_polygons, id).name
<1>1. name = NameOf(id) /\ name # ""
  BY DEF Named
<1>2. DOMAIN r = AdminFields /\ DOMAIN r.polys = PolyFields
  BY DEF Placed
<1> HIDE DEF name
<1>3. ASSUME NEW f \in {"state", "county", "city"}, NEW q,
             DOMAIN q = AdminFields, DOMAIN q.polys = PolyFields, q[f] = name, q.polys[f] = id,
             \A g \in PolyFields \ {f} : q[g] = r[g] /\ q.polys[g] = r.polys[g]
      PROVE  Placed(q, H) /\ q.country = r.country
  <2>1. "country" \in PolyFields \ {f}
    BY <1>3 DEF PolyFields
  <2>2. q["country"] = r["country"]
    BY <1>3, <2>1
  <2>3. \A g \in PolyFields : q.polys[g] = -1 \/ (q.polys[g] \in H /\ q[g] = NameOf(q.polys[g]) /\ q[g] # "")
    <3> TAKE g \in PolyFields
    <3>1. CASE g = f
      BY <1>1, <1>3, <3>1
    <3>2. CASE g # f
      <4>1. q[g] = r[g] /\ q.polys[g] = r.polys[g]
        BY <1>3, <3>2
      <4>2. r.polys[g] = -1 \/ (r.polys[g] \in H /\ r[g] = NameOf(r.polys[g]) /\ r[g] # "")
        BY DEF Placed
      <4> QED
        BY <4>1, <4>2
    <3> QED
      BY <3>1, <3>2
  <2> QED
    BY <1>3, <2>2, <2>3, Zenon DEF Placed
<1>4. CASE field = "state"
  <2> DEFINE q == [r EXCEPT !.state = name, !.polys["state"] = id]
  <2>1. SetField(r, field, id) = q
    BY <1>4 DEF SetField, name
  <2>2. /\ DOMAIN q = AdminFields /\ DOMAIN q.polys = PolyFields /\ q["state"] = name /\ q.polys["state"] = id
        /\ \A g \in PolyFields \ {"state"} : q[g] = r[g] /\ q.polys[g] = r.polys[g]
    BY <1>2 DEF AdminFields, PolyFields
  <2> HIDE DEF q
  <2> QED
    BY <1>3, <2>1, <2>2
<1>5. CASE field = "county"
  <2> DEFINE q == [r EXCEPT !.county = name, !.polys["county"] = id]
  <2>1. SetField(r, field, id) = q
    BY <1>5 DEF SetField, name
  <2>2. /\ DOMAIN q = AdminFields /\ DOMAIN q.polys = PolyFields /\ q["county"] = name /\ q.polys["county"] = id
        /\ \A g \in PolyFields \ {"county"} : q[g] = r[g] /\ q.polys[g] = r.polys[g]
    BY <1>2 DEF AdminFields, PolyFields
  <2> HIDE DEF q
  <2> QED
    BY <1>3, <2>1, <2>2
<1>6. CASE field = "city"
  <2> DEFINE q == [r EXCEPT !.city = name, !.polys["city"] = id]
  <2>1. SetField(r, field, id) = q
    BY <1>6 DEF SetField, name
  <2>2. /\ DOMAIN q = AdminFields /\ DOMAIN q.polys = PolyFields /\ q["city"] = name /\ q.polys["city"] = id
        /\ \A g \in PolyFields \ {"city"} : q[g] = r[g] /\ q.polys[g] = r.polys[g]
    BY <1>2 DEF AdminFields, PolyFields
  <2> HIDE DEF q
  <2> QED
    BY <1>3, <2>1, <2>2
<1>7. CASE field = "postcode"
  <2> DEFINE q == [r EXCEPT !.postcode = name]
  <2>1. SetField(r, field, id) = q
    BY <1>7 DEF SetField, name
  <2>2. /\ DOMAIN q = AdminFields /\ q.polys = r.polys
        /\ \A g \in PolyFields : q[g] = r[g]
    BY <1>2 DEF AdminFields, PolyFields
  <2>3. q.country = r.country
    BY <1>2 DEF AdminFields
  <2> HIDE DEF q
  <2>4. Placed(q, H)
    BY <2>2 DEF Placed
  <2> QED
    BY <2>1, <2>3, <2>4
<1>8. CASE field \notin {"state", "county", "city", "postcode"}
  BY <1>8 DEF SetField
<1> QED
  BY <1>4, <1>5, <1>6, <1>7, <1>8

\* So does a level of the mapping.
LEMMA ApplyLevelPlaced ==
    ASSUME NEW H, Named(H), NEW r, Placed(r, H), NEW id \in H
    PROVE  Placed(ApplyLevel(r, id), H) /\ ApplyLevel(r, id).country = r.country
<1> DEFINE poly == At(files.admin_polygons, id)
           entry == AdminLookup(r.cc, poly.level)
           big == entry.max_area # 0 /\ poly.area > entry.max_area
           Ok(q) == Placed(q, H) /\ q.country = r.country
<1>1. ApplyLevel(r, id) =
          IF big THEN r
          ELSE CASE entry.field = "county_if_empty" ->
                        IF r.county = "" THEN SetField(r, "county", id) ELSE r
                 [] entry.field = "city_if_empty" ->
                        IF r.city = "" THEN SetField(r, "city", id) ELSE r
                 [] OTHER -> SetField(r, entry.field, id)
  BY DEF ApplyLevel
<1>2. Ok(r) /\ \A field : Ok(SetField(r, field, id))
  BY SetFieldPlaced
<1> HIDE DEF big, entry, Ok
<1>3. CASE big
  BY <1>1, <1>2, <1>3 DEF Ok
<1>4. CASE ~big /\ entry.field = "county_if_empty"
  BY <1>1, <1>2, <1>4 DEF Ok
<1>5. CASE ~big /\ entry.field = "city_if_empty"
  BY <1>1, <1>2, <1>5 DEF Ok
<1>6. CASE ~big /\ entry.field \notin {"county_if_empty", "city_if_empty"}
  BY <1>1, <1>2, <1>6 DEF Ok
<1> QED
  BY <1>3, <1>4, <1>5, <1>6

\* And so do all of them.
LEMMA MapLevelsPlaced ==
    ASSUME NEW hits, Named(ToSet(hits)), NEW country, Placed(country, ToSet(hits)),
           \A level : BestAtLevel(hits, level) = <<>> \/ \E id \in ToSet(hits) : BestAtLevel(hits, level) = <<id>>
    PROVE  /\ Placed(MapLevels(hits, country), ToSet(hits))
           /\ MapLevels(hits, country).country = country.country
<1> DEFINE H == ToSet(hits)
           Is(f) == f = [level \in 2..11 |-> IF level = 2 THEN country ELSE LevelStep(hits, f[level - 1], level)]
           F == CHOOSE f : Is(f)
           Ok(q) == Placed(q, H) /\ q.country = country.country
<1>1. MapLevels(hits, country) = F[11]
  <2> DEFINE Was(f) == f = [level \in 2..11 |->
                 IF level = 2 THEN country
                 ELSE IF BestAtLevel(hits, level) = <<>> THEN f[level - 1]
                 ELSE ApplyLevel(f[level - 1], BestAtLevel(hits, level)[1])]
  <2>1. MapLevels(hits, country) = (CHOOSE f : Was(f))[11]
    BY DEF MapLevels
  <2>2. \A f : Was(f) <=> Is(f)
    BY DEF LevelStep
  <2> HIDE DEF Was, Is
  <2>3. (CHOOSE f : Was(f)) = (CHOOSE f : Is(f))
    BY <2>2
  <2> QED
    BY <2>1, <2>3
<1>2. Is(F)
  <2>1. \E f : Is(f)
    <3>1. PICK f : AreLevels(f, hits, country, 11)
      BY LevelsExist
    <3> QED
      BY <3>1 DEF AreLevels
  <2> QED
    BY <2>1, Zenon
<1>3. ASSUME NEW q, Ok(q), NEW level PROVE Ok(LevelStep(hits, q, level))
  <2>1. CASE BestAtLevel(hits, level) = <<>>
    BY <1>3, <2>1 DEF LevelStep
  <2>2. CASE \E id \in H : BestAtLevel(hits, level) = <<id>>
    <3>1. PICK id \in H : BestAtLevel(hits, level) = <<id>>
      BY <2>2
    <3>2. LevelStep(hits, q, level) = ApplyLevel(q, id)
      BY <3>1 DEF LevelStep
    <3> QED
      BY <1>3, <3>2, ApplyLevelPlaced
  <2> QED
    BY <2>1, <2>2
<1>4. Ok(country)
  OBVIOUS
<1> HIDE DEF F, Ok
<1> DEFINE Bad == {k \in 2..11 : ~Ok(F[k])}
<1>5. ASSUME Bad # {} PROVE FALSE
  <2>1. 2 \notin Bad
    BY <1>2, <1>4
  <2>2. Bad \in SUBSET (2..11)
    OBVIOUS
  <2>3. PICK k \in Bad : k \in 3..11 /\ k - 1 \in 2..11 /\ k - 1 \notin Bad
    <3>1. 2 \in Nat /\ 11 \in Nat /\ 2 + 1 = 3
      OBVIOUS
    <3> HIDE DEF Bad
    <3> QED
      BY <1>5, <2>1, <2>2, <3>1, FirstFailure
  <2>4. F[k] = LevelStep(hits, F[k - 1], k)
    BY <1>2, <2>3
  <2>5. Ok(F[k - 1])
    BY <2>3
  <2>6. Ok(F[k])
    BY <1>3, <2>4, <2>5
  <2> QED
    BY <2>3, <2>6
<1>6. Ok(F[11])
  BY <1>5
<1> QED
  BY <1>1, <1>6 DEF Ok

\* The country of level 2 is remembered; one of Who's on First only where there
\* is none.
LEMMA CountryPlaced ==
    ASSUME NEW H, Named(H), NEW national, national = <<>> \/ \E id \in H : national = <<id>>, NEW wof
    PROVE  /\ Placed(Country(national, wof), H)
           /\ \A id \in H : national = <<id>> => Country(national, wof).country = NameOf(id)
<1> DEFINE poly == At(files.admin_polygons, national[1])
           osm == IF national = <<>> THEN NoAdmin
                  ELSE [NoAdmin EXCEPT !.country = poly.name, !.cc = poly.cc,
                                       !.polys["country"] = national[1]]
           r == Country(national, wof)
<1>1. DOMAIN NoAdmin = AdminFields /\ DOMAIN NoAdmin.polys = PolyFields
  BY DEF NoAdmin, AdminFields, PolyFields
<1>2. Placed(NoAdmin, H)
  <2>1. \A f \in PolyFields : NoAdmin.polys[f] = -1
    BY DEF NoAdmin, PolyFields
  <2> QED
    BY <1>1, <2>1 DEF Placed
<1>3. /\ Placed(osm, H)
      /\ \A id \in H : national = <<id>> => osm.country = NameOf(id) /\ osm.country # ""
      /\ osm.country = "" => osm.polys["country"] = -1
  <2>1. CASE national = <<>>
    <3>1. osm = NoAdmin /\ \A id \in H : national # <<id>>
      BY <2>1
    <3>2. NoAdmin.polys["country"] = -1
      BY DEF NoAdmin
    <3> HIDE DEF osm
    <3> QED
      BY <1>2, <3>1, <3>2
  <2>2. CASE \E id \in H : national = <<id>>
    <3>1. PICK id \in H : national = <<id>>
      BY <2>2
    <3> DEFINE name == NameOf(id)
               q == [NoAdmin EXCEPT !.country = name, !.cc = poly.cc, !.polys["country"] = id]
    <3>2. poly.name = name /\ name # "" /\ national # <<>> /\ national[1] = id
      BY <3>1 DEF Named
    <3> DEFINE Set(x, y) == [NoAdmin EXCEPT !.country = x, !.cc = poly.cc, !.polys["country"] = y]
    <3>3. osm = q
      <4>1. osm = Set(poly.name, national[1])
        BY <3>2, Zenon
      <4>2. q = Set(name, id)
        OBVIOUS
      <4> HIDE DEF Set, osm, name, q
      <4> QED
        BY <3>2, <4>1, <4>2
    <3> HIDE DEF name, osm
    <3>4. /\ DOMAIN q = AdminFields /\ DOMAIN q.polys = PolyFields
          /\ q["country"] = name /\ q.polys["country"] = id
          /\ \A g \in PolyFields \ {"country"} : q.polys[g] = -1
      BY <1>1 DEF NoAdmin, AdminFields, PolyFields
    <3> HIDE DEF q
    <3>5. \A g \in PolyFields : q.polys[g] = -1 \/ (q.polys[g] \in H /\ q[g] = NameOf(q.polys[g]) /\ q[g] # "")
      <4> TAKE g \in PolyFields
      <4>1. CASE g = "country"
        BY <3>2, <3>4, <4>1 DEF name
      <4>2. CASE g # "country"
        BY <3>4, <4>2
      <4> QED
        BY <4>1, <4>2
    <3>6. Placed(q, H)
      BY <3>4, <3>5 DEF Placed
    <3>7. \A i \in H : national = <<i>> => i = id
      BY <3>1, OnlyElement
    <3> QED
      BY <3>2, <3>3, <3>4, <3>6, <3>7 DEF name
  <2> QED
    BY <2>1, <2>2
<1>4. r = IF osm.cc # "" \/ wof = <<>> THEN osm
          ELSE [osm EXCEPT !.cc = wof[1].cc, !.country = IF @ = "" THEN wof[1].name ELSE @]
  BY DEF Country
<1> HIDE DEF osm, r
<1>5. CASE osm.cc # "" \/ wof = <<>>
  BY <1>3, <1>4, <1>5 DEF r
<1>6. CASE ~(osm.cc # "" \/ wof = <<>>)
  <2> DEFINE name == IF osm.country = "" THEN wof[1].name ELSE osm.country
             q == [osm EXCEPT !.cc = wof[1].cc, !.country = name]
  <2>1. r = q
    BY <1>4, <1>6
  <2>2. DOMAIN osm = AdminFields /\ DOMAIN osm.polys = PolyFields
    BY <1>3 DEF Placed
  <2>3. osm.country # "" => name = osm.country
    OBVIOUS
  <2> HIDE DEF name
  <2>4. DOMAIN q = AdminFields /\ q.polys = osm.polys /\ q["country"] = name
        /\ q["state"] = osm["state"] /\ q["county"] = osm["county"] /\ q["city"] = osm["city"]
    BY <2>2 DEF AdminFields
  <2> HIDE DEF q
  <2>5. \A g \in PolyFields : q.polys[g] = -1 \/ (q.polys[g] \in H /\ q[g] = NameOf(q.polys[g]) /\ q[g] # "")
    <3> TAKE g \in PolyFields
    <3>1. osm.polys[g] = -1 \/ (osm.polys[g] \in H /\ osm[g] = NameOf(osm.polys[g]) /\ osm[g] # "")
      BY <1>3 DEF Placed
    <3>2. CASE g = "country"
      BY <1>3, <2>3, <2>4, <3>1, <3>2
    <3>3. CASE g # "country"
      <4>1. g \in {"state", "county", "city"}
        BY <3>3 DEF PolyFields
      <4>2. q[g] = osm[g]
        BY <2>4, <4>1
      <4> QED
        BY <2>4, <3>1, <4>2
    <3> QED
      BY <3>2, <3>3
  <2>6. Placed(q, H)
    BY <2>2, <2>4, <2>5 DEF Placed
  <2>7. \A id \in H : national = <<id>> => q.country = NameOf(id)
    BY <1>3, <2>3, <2>4
  <2> QED
    BY <2>1, <2>6, <2>7 DEF r
<1> QED
  BY <1>5, <1>6

\* A later step that fills in the postcode, or the city where there is none, and
\* touches nothing else.
OnlyFills(r, q) ==
    /\ DOMAIN q = AdminFields /\ q.polys = r.polys
    /\ q["country"] = r["country"] /\ q["state"] = r["state"] /\ q["county"] = r["county"]
    /\ r["city"] # "" => q["city"] = r["city"]

\* It keeps what the polygons gave.
LEMMA FilledIsPlaced ==
    ASSUME NEW H, NEW r, Placed(r, H), NEW q, OnlyFills(r, q)
    PROVE  Placed(q, H) /\ q.country = r.country
<1>1. \A g \in PolyFields : q.polys[g] = -1 \/ (q.polys[g] \in H /\ q[g] = NameOf(q.polys[g]) /\ q[g] # "")
  <2> TAKE g \in PolyFields
  <2>1. r.polys[g] = -1 \/ (r.polys[g] \in H /\ r[g] = NameOf(r.polys[g]) /\ r[g] # "")
    BY DEF Placed
  <2>2. g \in {"country", "state", "county", "city"} /\ q.polys = r.polys
    BY DEF PolyFields, OnlyFills
  <2>3. r[g] # "" => q[g] = r[g]
    BY <2>2 DEF OnlyFills
  <2> QED
    BY <2>1, <2>2, <2>3
<1>2. DOMAIN q.polys = PolyFields
  BY DEF Placed, OnlyFills
<1> QED
  BY <1>1, <1>2 DEF Placed, OnlyFills

\* One such step after another is one.
LEMMA FillsTrans ==
    ASSUME NEW a, NEW b, NEW c, OnlyFills(a, b), OnlyFills(b, c)
    PROVE  OnlyFills(a, c)
BY DEF OnlyFills

\* The city of a nearby place, the postcode ladder and the nearest address only
\* fill in.
LEMMA LaterStepsFill ==
    ASSUME NEW r, DOMAIN r = AdminFields
    PROVE  /\ \A place : OnlyFills(r, WithPlace(r, place))
           /\ \A gnaf, oa : OnlyFills(r, WithPostcode(r, gnaf, oa))
           /\ \A p, oa, addr : OnlyFills(r, FromNearest(p, r, oa, addr).admin)
<1>1. OnlyFills(r, r)
  BY DEF OnlyFills
<1>2. ASSUME NEW x PROVE OnlyFills(r, [r EXCEPT !.postcode = x])
  BY DEF OnlyFills, AdminFields
<1>3. ASSUME NEW x, r.city = "" PROVE OnlyFills(r, [r EXCEPT !.city = x])
  BY <1>3 DEF OnlyFills, AdminFields
<1>4. ASSUME NEW place PROVE OnlyFills(r, WithPlace(r, place))
  <2>1. WithPlace(r, place) = r \/ (r.city = "" /\ WithPlace(r, place) = [r EXCEPT !.city = place[1].name])
    BY DEF WithPlace
  <2> QED
    BY <1>1, <1>3, <2>1
<1>5. ASSUME NEW gnaf, NEW oa PROVE OnlyFills(r, WithPostcode(r, gnaf, oa))
  <2> DEFINE known(match) == match # <<>> /\ match[1].postcode # ""
             modal == {m \in side.modal : r.cc = "AU" /\ m.state = r.state /\ m.city = r.city}
             q == WithPostcode(r, gnaf, oa)
  <2>1. q = CASE r.postcode # "" -> r
              [] r.postcode = "" /\ known(gnaf) -> [r EXCEPT !.postcode = gnaf[1].postcode]
              [] r.postcode = "" /\ ~known(gnaf) /\ known(oa) -> [r EXCEPT !.postcode = oa[1].postcode]
              [] OTHER -> IF modal = {} THEN r
                          ELSE [r EXCEPT !.postcode = (CHOOSE m \in modal : TRUE).postcode]
    BY DEF WithPostcode
  <2> HIDE DEF q, known, modal
  <2>2. q = r \/ \E x : q = [r EXCEPT !.postcode = x]
    <3>1. CASE r.postcode # ""
      BY <2>1, <3>1
    <3>2. CASE r.postcode = "" /\ known(gnaf)
      BY <2>1, <3>2
    <3>3. CASE r.postcode = "" /\ ~known(gnaf) /\ known(oa)
      BY <2>1, <3>3
    <3>4. CASE r.postcode = "" /\ ~known(gnaf) /\ ~known(oa)
      <4>1. q = IF modal = {} THEN r ELSE [r EXCEPT !.postcode = (CHOOSE m \in modal : TRUE).postcode]
        BY <2>1, <3>4
      <4> QED
        BY <4>1
    <3> QED
      BY <3>1, <3>2, <3>3, <3>4
  <2>3. OnlyFills(r, q)
    BY <1>1, <1>2, <2>2
  <2> QED
    BY <2>3 DEF q
<1>6. ASSUME NEW p, NEW oa, NEW addr PROVE OnlyFills(r, FromNearest(p, r, oa, addr).admin)
  <2> DEFINE A == OaAnswers(p, oa, addr)
             B == InReach(p, addr)
  <2>1. CASE A
    <3>1. FromNearest(p, r, oa, addr) = FromOa(r, oa[1])
      BY <2>1 DEF FromNearest
    <3>2. OnlyFills(r, FromOa(r, oa[1]).admin)
      <4> DEFINE y == IF oa[1].postcode # "" THEN oa[1].postcode ELSE r.postcode
                 x == IF r.city = "" THEN oa[1].locality ELSE r.city
      <4>1. FromOa(r, oa[1]).admin = [r EXCEPT !.postcode = y, !.city = x]
        BY DEF FromOa
      <4>2. r.city # "" => x = r.city
        OBVIOUS
      <4> HIDE DEF x, y
      <4>3. OnlyFills(r, [r EXCEPT !.postcode = y, !.city = x])
        BY <4>2 DEF OnlyFills, AdminFields
      <4> QED
        BY <4>1, <4>3
    <3> QED
      BY <3>1, <3>2
  <2>2. CASE ~A /\ B
    <3> DEFINE a == addr[1]
    <3>1. FromNearest(p, r, oa, addr) = FromAddr(r, a)
      BY <2>2 DEF FromNearest, InReach
    <3>2. OnlyFills(r, FromAddr(r, a).admin)
      <4> DEFINE y == IF r.postcode = "" THEN a.postcode ELSE r.postcode
                 x == CASE r.city # "" -> r.city
                        [] r.city = "" /\ a.parent # "" -> a.parent
                        [] OTHER -> IF a.isPlace THEN a.primary ELSE ""
      <4>1. FromAddr(r, a).admin = [r EXCEPT !.postcode = y, !.city = x]
        BY DEF FromAddr
      <4>2. r.city # "" => x = r.city
        OBVIOUS
      <4> HIDE DEF x, y
      <4>3. OnlyFills(r, [r EXCEPT !.postcode = y, !.city = x])
        BY <4>2 DEF OnlyFills, AdminFields
      <4> QED
        BY <4>1, <4>3
    <3> QED
      BY <3>1, <3>2
  <2>3. CASE ~A /\ ~B
    <3> DEFINE none == [hn |-> 0, road |-> "", confidence |-> "", admin |-> r]
    <3>1. FromNearest(p, r, oa, addr) = none
      BY <2>3 DEF FromNearest, InReach
    <3>2. none.admin = r
      OBVIOUS
    <3> HIDE DEF none
    <3> QED
      BY <1>1, <3>1, <3>2
  <2> QED
    BY <2>1, <2>2, <2>3
<1> QED
  BY <1>4, <1>5, <1>6

\* What find_admin answers: fields of kept polygons, and as the country the
\* smallest of them, if there is one.
AdminIsOf(r, hits) ==
    LET polys     == mem.admin_polygons
        countries == {id \in ToSet(hits) : polys[id + 1].level = 2}
    IN  /\ Placed(r, ToSet(hits))
        /\ countries # {} => \E id \in countries :
               /\ r.country = polys[id + 1].name
               /\ \A other \in countries : Area(id) <= Area(other)

\* find_admin gives such an answer.
LEMMA FindAdminPlaced ==
    ASSUME IInv, AreaInv, phase = "loaded", NEW p \in Int, NEW hits, hits = Containing(p)
    PROVE  AdminIsOf(FindAdmin(p), hits)
<1> DEFINE H == ToSet(hits)
           polys == mem.admin_polygons
           n == Len(polys)
           wof == WofCountry(p)
           national == BestAtLevel(hits, 2)
           country == Country(national, wof)
           r == MapLevels(hits, country)
           countries == {id \in H : polys[id + 1].level = 2}
<1>1. hits \in Seq(0..n - 1)
  BY ContainingIs DEF AreAround
<1>2. H = {hits[i] : i \in 1..Len(hits)} /\ H \subseteq 0..n - 1
  BY <1>1 DEF ToSet
<1>3. FindAdmin(p) = r
  BY DEF FindAdmin, AdminOf
<1>4. Named(H)
  <2>1. files.admin_polygons = polys
    BY AdminLoaded
  <2>2. ASSUME NEW id \in H PROVE At(polys, id).name = NameOf(id) /\ NameOf(id) # ""
    <3>1. id \in 0..n - 1
      BY <1>2
    <3> QED
      BY <3>1, PolygonIs DEF At, NameOf
  <2> QED
    BY <2>1, <2>2 DEF Named
<1>5. ASSUME NEW level
      PROVE  BestAtLevel(hits, level) = <<>> \/ \E id \in H : BestAtLevel(hits, level) = <<id>>
  <2> DEFINE at == OfLevel(hits, level)
  <2>1. /\ at = {} => BestAtLevel(hits, level) = <<>>
        /\ at # {} => \E i \in at : BestAtLevel(hits, level) = <<hits[i]>>
    BY <1>1, BestIs
  <2>2. \A i \in at : hits[i] \in H
    BY <1>2 DEF OfLevel
  <2> HIDE DEF at
  <2> QED
    BY <2>1, <2>2
<1>6. countries # {} => \E id \in countries :
          national = <<id>> /\ \A other \in countries : Area(id) <= Area(other)
  <2> DEFINE at == OfLevel(hits, 2)
  <2>1. at # {} => \E i \in at : /\ national = <<hits[i]>>
                                  /\ \A j \in at : Area(hits[i]) <= Area(hits[j])
    BY <1>1, BestIs
  <2>2. countries = {hits[j] : j \in at}
    BY <1>2 DEF OfLevel
  <2> HIDE DEF at, countries, national
  <2>3. countries # {} => at # {}
    BY <2>2
  <2> QED
    BY <2>1, <2>2, <2>3
<1>7. Placed(country, H) /\ \A id \in H : national = <<id>> => country.country = NameOf(id)
  <2>1. national = <<>> \/ \E id \in H : national = <<id>>
    BY <1>5
  <2> HIDE DEF national, H
  <2> QED
    BY <1>4, <2>1, CountryPlaced
<1>8. Placed(r, H) /\ r.country = country.country
  <2> HIDE DEF country
  <2> QED
    BY <1>4, <1>5, <1>7, MapLevelsPlaced
<1>9. countries # {} => \E id \in countries :
          r.country = polys[id + 1].name /\ \A other \in countries : Area(id) <= Area(other)
  <2> SUFFICES ASSUME countries # {}
               PROVE  \E id \in countries :
                          r.country = polys[id + 1].name /\ \A other \in countries : Area(id) <= Area(other)
    OBVIOUS
  <2>1. PICK id \in countries :
            national = <<id>> /\ \A other \in countries : Area(id) <= Area(other)
    BY <1>6
  <2>2. id \in H
    OBVIOUS
  <2> HIDE DEF r, country, national, countries
  <2>3. r.country = polys[id + 1].name
    BY <1>7, <1>8, <2>1, <2>2 DEF NameOf
  <2> QED
    BY <2>1, <2>3
<1> HIDE DEF r
<1> QED
  BY <1>3, <1>8, <1>9 DEF AdminIsOf

\* What is answered in the end is of the same polygons, unless it is empty.
LEMMA AnswerIsPlaced ==
    ASSUME IInv, AreaInv, phase = "loaded", NEW p \in Int, NEW hits, hits = Containing(p),
           NEW r, r = QueryAndAdmin(p), r.confidence # ""
    PROVE  AdminIsOf(r.admin, hits)
<1> DEFINE a0 == FindAdmin(p)
           a1 == WithPlace(a0, FindPlace(p))
           oa == OaMatch(a1, p)
           a2 == WithPostcode(a1, GnafMatch(a1, p), oa)
           addr == NearestAddr(p)
           x == FromNearest(p, a2, oa, addr)
           y == WithRoad(p, x, NearestInterp(p), NearestStreet(p))
           poi == FindPoi(p)
<1>1. r = Assembled(y, poi)
  BY DEF QueryAndAdmin, QueryInAdmin, Ladder, FindAdminWithPlace
<1>2. AdminIsOf(a0, hits)
  BY FindAdminPlaced
<1>3. DOMAIN a0 = AdminFields
  BY <1>2 DEF AdminIsOf, Placed
<1> HIDE DEF a0
<1>4. OnlyFills(a0, a1)
  BY <1>3, LaterStepsFill
<1>5. DOMAIN a1 = AdminFields
  BY <1>4 DEF OnlyFills
<1> HIDE DEF a1, oa
<1>6. OnlyFills(a1, a2)
  BY <1>5, LaterStepsFill
<1>7. DOMAIN a2 = AdminFields
  BY <1>6 DEF OnlyFills
<1> HIDE DEF a2, addr
<1>8. OnlyFills(a2, x.admin)
  BY <1>7, LaterStepsFill
<1>9. Found(x)
  <2>1. CASE OaAnswers(p, oa, addr)
    <3>1. x = FromOa(a2, oa[1])
      BY <2>1 DEF FromNearest
    <3> QED
      BY <3>1 DEF FromOa, Found
  <2>2. CASE ~OaAnswers(p, oa, addr) /\ InReach(p, addr)
    <3>1. x = FromAddr(a2, addr[1])
      BY <2>2 DEF FromNearest, InReach
    <3> QED
      BY <3>1 DEF FromAddr, Found
  <2>3. CASE ~OaAnswers(p, oa, addr) /\ ~InReach(p, addr)
    <3>1. x = [hn |-> 0, road |-> "", confidence |-> "", admin |-> a2]
      BY <2>3 DEF FromNearest, InReach
    <3> QED
      BY <3>1 DEF Found
  <2> QED
    BY <2>1, <2>2, <2>3
<1> HIDE DEF x
<1>10. y.admin = x.admin
  <2> DEFINE near(way) == way # <<>> /\ WayDist(p, way[1].nodes) < MaxDist
             interp == NearestInterp(p)
             street == NearestStreet(p)
  <2>1. y = CASE x.road # "" -> x
              [] x.road = "" /\ near(interp) ->
                   [x EXCEPT !.hn = InterpolatedNumber(interp[1], Along(p, interp[1].nodes)),
                             !.road = interp[1].street, !.confidence = "interpolated"]
              [] x.road = "" /\ ~near(interp) /\ near(street) ->
                   [x EXCEPT !.road = street[1].name, !.confidence = "fallback"]
              [] OTHER -> x
    BY DEF WithRoad
  <2>2. \A i, j : [x EXCEPT !.hn = i, !.road = j, !.confidence = "interpolated"].admin = x.admin
    BY <1>9 DEF Found
  <2>3. \A j : [x EXCEPT !.road = j, !.confidence = "fallback"].admin = x.admin
    BY <1>9 DEF Found
  <2> HIDE DEF y, near, interp, street
  <2>4. CASE x.road # ""
    BY <2>1, <2>4
  <2>5. CASE x.road = "" /\ near(interp)
    BY <2>1, <2>2, <2>5
  <2>6. CASE x.road = "" /\ ~near(interp) /\ near(street)
    BY <2>1, <2>3, <2>6
  <2>7. CASE x.road = "" /\ ~near(interp) /\ ~near(street)
    BY <2>1, <2>7
  <2> QED
    BY <2>4, <2>5, <2>6, <2>7
<1> HIDE DEF y
<1>11. r.admin = y.admin
  BY <1>1, AssembledIs, ZenonT(40)
<1>12. OnlyFills(a0, r.admin)
  BY <1>4, <1>6, <1>8, <1>10, <1>11, FillsTrans
<1>13. Placed(r.admin, ToSet(hits)) /\ r.admin.country = a0.country
  BY <1>2, <1>12, FilledIsPlaced DEF AdminIsOf
<1> QED
  BY <1>2, <1>13, Zenon DEF AdminIsOf

\* The polygons of the input around a position, and those of them that are
\* countries.
Around(p)    == {g \in PolygonsOf(world) : p \in g.shape}
Countries(p) == {g \in Around(p) : g.level = 2}

\* The areas of an answer hold its position: each polygon that find_admin remembered
\* is one of the input with the answered name around the position, and the country
\* is the smallest there.
AreasHold(ans) ==
    /\ \A f \in PolyFields : ans.admin.polys[f] # -1 =>
           \E g \in Around(ans.pos) : g.name = ans.admin[f]
    /\ WithinCaps /\ Countries(ans.pos) # {} =>
           \E g \in Countries(ans.pos) :
               g.name = ans.admin.country /\ \A h \in Countries(ans.pos) : g.area <= h.area

\* The same of the answer that was given, as long as the flag leaves an id for
\* every polygon.
AnsweredIsAround ==
    /\ answer.asked /\ answer.confidence # ""
    /\ Len(files.admin_polygons) <= INTERIOR_FLAG
    => AreasHold(answer)

\* The translations of an answer are those of areas with the answered names.
Translated(ans) ==
    \A f \in {"country", "state", "county", "city"} :
        ans.local[f] # ans.admin[f] =>
            \E a \in Kinds("area") : a.name = ans.admin[f] /\ a.local = ans.local[f]

\* The areas of an answer are around its position.
LEMMA AreasAroundOK ==
    ASSUME IInv, AreaInv, phase = "loaded", Len(files.admin_polygons) <= INTERIOR_FLAG,
           NEW p \in Int, NEW ans, ans.pos = p, AdminIsOf(ans.admin, Containing(p))
    PROVE  AreasHold(ans)
<1> DEFINE polys == mem.admin_polygons
           n == Len(polys)
           hits == Containing(p)
           H == ToSet(hits)
           countries == {id \in H : polys[id + 1].level = 2}
           r == ans.admin
<1>1. files.admin_polygons = polys /\ n \in Nat /\ IsSeq(polys) /\ n <= INTERIOR_FLAG
  BY AdminLoaded
<1>2. DOMAIN polys = 1..n
  BY <1>1 DEF IsSeq
<1>3. ToSet(polys) = PolygonsOf(world)
  BY <1>1, WrittenPolygons
<1>4. \A k \in 0..n - 1 : k + 1 \in 1..n /\ polys[k + 1] \in PolygonsOf(world)
  <2>1. \A k \in 0..n - 1 : k + 1 \in 1..n
    BY <1>1
  <2>2. \A i \in 1..n : polys[i] \in ToSet(polys)
    BY <1>2 DEF ToSet
  <2> HIDE DEF polys, n
  <2> QED
    BY <1>3, <2>1, <2>2
<1>5. \A g \in PolygonsOf(world) : \E k \in 0..n - 1 : polys[k + 1] = g
  <2> TAKE g \in PolygonsOf(world)
  <2>1. PICK i \in 1..n : polys[i] = g
    BY <1>2, <1>3 DEF ToSet
  <2>2. i - 1 \in 0..n - 1 /\ (i - 1) + 1 = i
    BY <1>1
  <2> QED
    BY <2>1, <2>2
<1>6. /\ hits \in Seq(0..n - 1)
      /\ \A i \in 1..Len(hits) : p \in polys[hits[i] + 1].shape
      /\ WithinCaps => \A k \in 0..n - 1 : p \in polys[k + 1].shape =>
             \E i \in 1..Len(hits) : hits[i] = k
  <2> HIDE DEF hits
  <2>1. hits = Containing(p)
    BY DEF hits
  <2>2. AreAround(hits, p)
    BY <2>1, ContainingIs
  <2> QED
    BY <1>1, <2>2 DEF AreAround
<1> HIDE DEF hits, polys, n
<1>7. /\ \A id \in H : id \in 0..n - 1 /\ p \in polys[id + 1].shape
      /\ WithinCaps => \A k \in 0..n - 1 : p \in polys[k + 1].shape => k \in H
  <2> DEFINE T == 0..n - 1
  <2>1. hits \in Seq(T)
    BY <1>6
  <2> HIDE DEF T
  <2>2. DOMAIN hits = 1..Len(hits) /\ \A i \in 1..Len(hits) : hits[i] \in T
    BY <2>1
  <2>3. DOMAIN hits = 1..Len(hits) /\ \A i \in 1..Len(hits) : hits[i] \in 0..n - 1
    BY <2>2 DEF T
  <2>4. H = {hits[i] : i \in 1..Len(hits)}
    BY <2>3 DEF ToSet
  <2> QED
    BY <1>6, <2>3, <2>4
<1>8. /\ Placed(r, H)
      /\ countries # {} => \E id \in countries :
             /\ r.country = polys[id + 1].name
             /\ \A other \in countries : polys[id + 1].area <= polys[other + 1].area
  BY Zenon DEF AdminIsOf, hits, polys, Area
<1> HIDE DEF H
<1>9. ASSUME NEW f \in PolyFields, r.polys[f] # -1
      PROVE  \E g \in Around(ans.pos) : g.name = r[f]
  <2>1. r.polys[f] \in H /\ r[f] = NameOf(r.polys[f])
    BY <1>8, <1>9 DEF Placed
  <2>2. PICK k \in 0..n - 1 : k = r.polys[f] /\ p \in polys[k + 1].shape
    BY <1>7, <2>1
  <2>3. polys[k + 1].name = r[f]
    BY <2>1, <2>2 DEF NameOf, polys
  <2> QED
    BY <1>4, <2>2, <2>3 DEF Around
<1>10. ASSUME WithinCaps, Countries(ans.pos) # {}
       PROVE  \E g \in Countries(ans.pos) :
                  g.name = r.country /\ \A h \in Countries(ans.pos) : g.area <= h.area
  <2>1. \A g \in Countries(p) : \E id \in countries : polys[id + 1] = g
    <3> TAKE g \in Countries(p)
    <3>1. g \in PolygonsOf(world) /\ g.level = 2 /\ p \in g.shape
      BY DEF Countries, Around
    <3>2. PICK k \in 0..n - 1 : polys[k + 1] = g
      BY <1>5, <3>1
    <3>3. k \in H
      BY <1>7, <1>10, <3>1, <3>2
    <3> QED
      BY <3>1, <3>2, <3>3
  <2>2. \A id \in countries : polys[id + 1] \in Countries(p)
    BY <1>4, <1>7 DEF Countries, Around
  <2> HIDE DEF countries
  <2>3. countries # {}
    BY <1>10, <2>1
  <2>4. PICK id \in countries : /\ r.country = polys[id + 1].name
                                /\ \A other \in countries : polys[id + 1].area <= polys[other + 1].area
    BY <1>8, <2>3
  <2>5. \A h \in Countries(p) : polys[id + 1].area <= h.area
    BY <2>1, <2>4
  <2> QED
    BY <2>2, <2>4, <2>5
<1> QED
  BY <1>9, <1>10 DEF AreasHold

\* The translations of an answer are those of its areas.
LEMMA TranslatedOK ==
    ASSUME IInv, AreaInv, phase = "loaded",
           NEW r, NEW hits \in Seq(0..Len(mem.admin_polygons) - 1), AdminIsOf(r, hits),
           NEW f \in PolyFields, Localised(r[f], r.polys[f]) # r[f]
    PROVE  \E a \in Kinds("area") : a.name = r[f] /\ a.local = Localised(r[f], r.polys[f])
<1> DEFINE polys == mem.admin_polygons
           n == Len(polys)
           R == EmittedRings(world, world)
           id == r.polys[f]
           names == {x \in files.i18n_names : x[1] = id}
           local == Localised(r[f], id)
<1>1. files.i18n_names = mem.i18n_names /\ n \in Nat
  BY AdminLoaded
<1>2. \A x \in mem.i18n_names : \E k \in 0..n - 1 : \E s \in R :
          x = <<k, s[1].local>> /\ polys[k + 1].name = s[1].name
  BY AdminLoaded DEF Holds
<1>3. local = IF names = {} THEN r[f] ELSE (CHOOSE x \in names : TRUE)[2]
  BY DEF Localised
<1>4. names # {}
  <2> HIDE DEF names, id, local
  <2> QED
    BY <1>3 DEF local, id
<1>5. PICK x \in names : local = x[2]
  <2> HIDE DEF names
  <2>1. (CHOOSE x \in names : TRUE) \in names
    BY <1>4
  <2> HIDE DEF local
  <2> QED
    BY <1>3, <1>4, <2>1
<1>6. x \in mem.i18n_names /\ x[1] = id
  BY <1>1
<1> HIDE DEF R, n, polys
<1>7. PICK k \in 0..n - 1, s \in R : x = <<k, s[1].local>> /\ polys[k + 1].name = s[1].name
  BY <1>2, <1>6
<1>8. x[1] = k /\ x[2] = s[1].local
  BY <1>7
<1>9. id = k /\ id # -1
  BY <1>1, <1>6, <1>8
<1>10. r[f] = NameOf(id)
  <2>1. Placed(r, ToSet(hits))
    BY DEF AdminIsOf
  <2> HIDE DEF id
  <2> QED
    BY <1>9, <2>1 DEF Placed, id
<1>11. s[1] \in Kinds("area")
  <2>1. PICK a \in {y \in world : Emitted(y, world)} : s \in RingsOf(a)
    BY DEF R, EmittedRings
  <2>2. s[1] = a
    BY <2>1 DEF RingsOf
  <2> QED
    BY <2>1, <2>2 DEF Emitted, Kinds
<1>12. s[1].name = r[f] /\ s[1].local = local
  BY <1>5, <1>7, <1>8, <1>9, <1>10 DEF NameOf, polys
<1> HIDE DEF local
<1> QED
  BY <1>11, <1>12 DEF local

\* Besides IInv and AreaInv: there are answers of loaded indexes only, and their
\* areas are around the position and translated as themselves.
AreaAnswerInv ==
    /\ answer.asked => phase = "loaded"
    /\ AnsweredIsAround
    /\ answer.asked /\ answer.confidence # "" => Translated(answer)

\* A query gives such an answer.
LEMMA QueryAreas ==
    ASSUME IInv, AreaInv, phase = "loaded", NEW p \in Positions,
           NEW ans, ans = Answered(p, QueryAndAdmin(p)), ans.confidence # ""
    PROVE  /\ Len(files.admin_polygons) <= INTERIOR_FLAG => AreasHold(ans)
           /\ Translated(ans)
<1> DEFINE r == QueryAndAdmin(p)
           hits == Containing(p)
<1>1. p \in Int
  BY QueryAssumption
<1>2. /\ ans.pos = p /\ ans.admin = r.admin /\ ans.confidence = r.confidence
      /\ \A f \in PolyFields : ans.local[f] = Localised(r.admin[f], r.admin.polys[f])
  BY DEF Answered, PolyFields
<1> HIDE DEF r
<1>3. AdminIsOf(r.admin, hits)
  BY <1>1, <1>2, AnswerIsPlaced DEF r
<1>4. hits \in Seq(0..Len(mem.admin_polygons) - 1)
  <2>1. AreAround(hits, p)
    BY <1>1, ContainingIs
  <2> QED
    BY <2>1 DEF AreAround
<1>5. ASSUME Len(files.admin_polygons) <= INTERIOR_FLAG PROVE AreasHold(ans)
  <2>1. AdminIsOf(ans.admin, Containing(p))
    BY <1>2, <1>3
  <2> QED
    BY <1>1, <1>2, <1>5, <2>1, AreasAroundOK
<1> HIDE DEF hits
<1>6. Translated(ans)
  <2> SUFFICES ASSUME NEW f \in PolyFields, ans.local[f] # ans.admin[f]
               PROVE  \E a \in Kinds("area") : a.name = ans.admin[f] /\ a.local = ans.local[f]
    BY DEF Translated, PolyFields
  <2> DEFINE q == r.admin
  <2>1. ans.admin = q /\ ans.local[f] = Localised(q[f], q.polys[f])
    BY <1>2
  <2>2. AdminIsOf(q, hits)
    BY <1>3
  <2> HIDE DEF q
  <2>3. \E a \in Kinds("area") : a.name = q[f] /\ a.local = Localised(q[f], q.polys[f])
    BY <1>4, <2>1, <2>2, TranslatedOK
  <2> QED
    BY <2>1, <2>3
<1> QED
  BY <1>5, <1>6

\* The builder, the load and a query keep it.
LEMMA AreaAnswerInvKept ==
    ASSUME IInv, AreaInv, AreaAnswerInv, [Next]_vars
    PROVE  AreaAnswerInv'
<1>1. CASE BuildNext /\ UNCHANGED <<side, answer>>
  <2>1. phase # "loaded"
    BY <1>1, LoadedIsBuilt
  <2>2. ~answer'.asked
    BY <1>1, <2>1 DEF AreaAnswerInv
  <2> QED
    BY <2>2 DEF AreaAnswerInv, AnsweredIsAround
<1>2. CASE Load
  <2>1. answer' = answer /\ phase = "written"
    BY <1>2 DEF Load
  <2>2. ~answer'.asked
    BY <2>1 DEF AreaAnswerInv
  <2> QED
    BY <2>2 DEF AreaAnswerInv, AnsweredIsAround
<1>3. ASSUME UNCHANGED <<world, mem, files>>, NEW ans
      PROVE  (AreasHold(ans) <=> AreasHold(ans)') /\ (Translated(ans) <=> Translated(ans)')
  <2>1. WithinCaps' = WithinCaps
    BY <1>3 DEF WithinCaps, Layers
  <2>2. PolygonsOf(world)' = PolygonsOf(world)
    BY <1>3 DEF PolygonsOf, EmittedRings, RingsOf, Emitted, PolygonOf, FinalShape, CutShape, BigHoles
  <2>3. Around(ans.pos)' = Around(ans.pos)
    BY <2>2 DEF Around
  <2>4. Countries(ans.pos)' = Countries(ans.pos)
    BY <2>3 DEF Countries
  <2>5. Kinds("area")' = Kinds("area")
    BY <1>3 DEF Kinds
  <2> QED
    BY <2>1, <2>3, <2>4, <2>5 DEF AreasHold, Translated
<1>4. CASE Query
  <2>1. phase = "loaded" /\ phase' = "loaded" /\ UNCHANGED <<world, mem, files>>
    BY <1>4 DEF Query, buildVars
  <2>2. PICK p \in Positions : answer' = Answered(p, QueryAndAdmin(p))
    BY <1>4 DEF Query
  <2>3. PICK ans : ans = answer'
    OBVIOUS
  <2>4. ans.confidence # "" => /\ Len(files.admin_polygons) <= INTERIOR_FLAG => AreasHold(ans)
                               /\ Translated(ans)
    BY <2>1, <2>2, <2>3, QueryAreas
  <2> QED
    BY <1>3, <2>1, <2>3, <2>4 DEF AreaAnswerInv, AnsweredIsAround
<1>5. CASE UNCHANGED vars
  <2>1. UNCHANGED <<world, mem, files, phase, answer>>
    BY <1>5 DEF vars, buildVars
  <2> QED
    BY <1>3, <2>1 DEF AreaAnswerInv, AnsweredIsAround
<1> QED
  BY <1>1, <1>2, <1>4, <1>5 DEF Next

\* The areas and the translations of every answer.
LEMMA AreaAnswers == Spec => []AreaAnswerInv
<1>1. InitAll => AreaAnswerInv
  <2> SUFFICES ASSUME InitAll PROVE AreaAnswerInv
    OBVIOUS
  <2>1. answer = NoAnswer
    BY DEF InitAll
  <2>2. ~answer.asked
    BY <2>1 DEF NoAnswer
  <2> QED
    BY <2>2 DEF AreaAnswerInv, AnsweredIsAround
<1>2. IInv /\ AreaInv /\ AreaAnswerInv /\ [Next]_vars => AreaAnswerInv'
  BY AreaAnswerInvKept
<1> QED
  BY <1>1, <1>2, Invariance, AreaInvariance, PTL DEF Spec

\* Every area that an answer names by a polygon holds the position, and the country
\* is the smallest one of the input there: the interior flags, the cells around the
\* position and the filled holes never name a neighbour or the owner of an enclave
\* (cover_polygon, finalize_admin_holes, find_admin).
THEOREM AnsweredAreasAreAround == Spec => []AnsweredIsAround
<1>1. AreaAnswerInv => AnsweredIsAround
  BY DEF AreaAnswerInv
<1> QED
  BY <1>1, AreaAnswers, PTL

\* A translated name is a translation of the name it replaces, whichever polygon
\* of the levels, the place and the ladder set the field (query_with_lang).
THEOREM TranslationsAreOfTheSameArea == Spec => []TranslationIsOfSameArea
<1>1. AreaAnswerInv => TranslationIsOfSameArea
  BY DEF AreaAnswerInv, Translated, TranslationIsOfSameArea
<1> QED
  BY <1>1, AreaAnswers, PTL
=============================================================================
