------------------------ MODULE ForwardQuery_proofs ------------------------
(***************************************************************************)
(* Proofs about ForwardQuery, for any documents, shards, questions, tables *)
(* of words and requests that satisfy the assumptions on the constants.    *)
(*                                                                         *)
(* Filters: every rung of the ladder, every reading and every country of   *)
(* the fan-out searches for a query that Narrows the one asked, so that a  *)
(* hit of it Meets the filters asked for; every way from there to the      *)
(* answer (ranking, cutting, merging, joining, picking) only reorders and  *)
(* drops hits, or gives them another score (Versions).  A repair does not  *)
(* narrow: it keeps what RequestedAddressMatches allows (Repairs).         *)
(*                                                                         *)
(* The cache: a request that is done has a right city because every entry  *)
(* is what a commit that was shown answers for its key (CacheInv), however *)
(* the entries came and went and whatever was committed in between; the    *)
(* commits shown (history) only grow.                                      *)
(***************************************************************************)
EXTENDS ForwardQuery, FiniteSetTheorems, SequenceTheorems, WellFoundedInduction, TLAPS

-----------------------------------------------------------------------------
(* Finite sets and orders. *)

\* Every non-empty set of naturals has a least element.
LEMMA NatLeast ==
    ASSUME NEW T, T \subseteq Nat, T # {}
    PROVE  \E x \in T : \A y \in T : x <= y
<1> DEFINE R == OpToRel(<, Nat)
<1>1. IsWellFoundedOn(R, Nat)
  BY NatLessThanWellFounded
<1> HIDE DEF R
<1>2. PICK x \in T : \A y \in T : ~ (<<y, x>> \in R)
  BY <1>1, WFMin
<1>3. \A y \in T : ~(y < x)
  BY <1>2 DEF R, OpToRel
<1> QED
  BY <1>2, <1>3

\* The pairs of R put the elements of S in a strict order.
IsOrder(R, S) ==
    /\ \A a \in S : <<a, a>> \notin R
    /\ \A a, b \in S : a # b => <<a, b>> \in R \/ <<b, a>> \in R
    /\ \A a, b, c \in S : <<a, b>> \in R /\ <<b, c>> \in R => <<a, c>> \in R

\* The number of elements of S before one of them.
RankOf(R, S, f) == Cardinality({g \in S : <<g, f>> \in R})

\* A strict order on a finite set has an element at each rank: ranks are
\* different, and there are as many as elements.
LEMMA RankExists ==
    ASSUME NEW S, IsFiniteSet(S), NEW R, IsOrder(R, S),
           NEW i \in 1..Cardinality(S)
    PROVE  \E f \in S : RankOf(R, S, f) = i - 1
<1> USE DEF IsOrder
<1> DEFINE Before(f) == {g \in S : <<g, f>> \in R}
           n == Cardinality(S)
           rank == [f \in S |-> Cardinality(Before(f))]
<1>1. n \in Nat
  BY FS_CardinalityType
<1>2. \A f \in S : /\ IsFiniteSet(Before(f)) /\ rank[f] \in Nat /\ rank[f] < n
  <2> TAKE f \in S
  <2>1. IsFiniteSet(Before(f)) /\ Cardinality(Before(f)) <= n
        /\ (n = Cardinality(Before(f)) => S = Before(f))
    BY FS_Subset
  <2>2. S # Before(f)
    OBVIOUS
  <2>3. Cardinality(Before(f)) \in Nat
    BY <2>1, FS_CardinalityType
  <2> QED
    BY <1>1, <2>1, <2>2, <2>3
<1>3. \A f, g \in S : <<f, g>> \in R => rank[f] # rank[g]
  <2> SUFFICES ASSUME NEW f \in S, NEW g \in S, <<f, g>> \in R PROVE rank[f] # rank[g]
    OBVIOUS
  <2>1. Before(f) \in SUBSET Before(g) /\ Before(f) # Before(g)
    OBVIOUS
  <2> QED
    BY <1>2, <2>1, FS_Subset
<1>4. rank \in Injection(S, 0..(n - 1))
  <2>1. rank \in [S -> 0..(n - 1)]
    BY <1>1, <1>2
  <2>2. IsInjective(rank)
    BY <1>3 DEF IsInjective
  <2> QED
    BY <2>1, <2>2 DEF Injection
<1>5. IsFiniteSet(0..(n - 1)) /\ Cardinality(0..(n - 1)) = n
  <2>1. 0 \in Int /\ n - 1 \in Int
    BY <1>1
  <2> QED
    BY <1>1, <2>1, FS_Interval
<1>6. rank \in Surjection(S, 0..(n - 1))
  BY <1>4, <1>5, FS_Injection
<1>7. i - 1 \in 0..(n - 1)
  BY <1>1
<1>8. \E f \in S : rank[f] = i - 1
  BY <1>6, <1>7 DEF Surjection
<1>9. \A f \in S : rank[f] = RankOf(R, S, f)
  BY Zenon DEF RankOf
<1> QED
  BY <1>8, <1>9

\* The elements of a finite set, each at its rank.
InOrder(S, R) ==
    [i \in 1..Cardinality(S) |-> CHOOSE d \in S : Cardinality({e \in S : <<e, d>> \in R}) = i - 1]

\* They are in a strict order, and all there.
LEMMA RankedSeq ==
    ASSUME NEW S, IsFiniteSet(S), NEW R, IsOrder(R, S)
    PROVE  /\ InOrder(S, R) \in Seq(S) /\ Len(InOrder(S, R)) = Cardinality(S)
           /\ \A i, j \in 1..Cardinality(S) : i < j => <<InOrder(S, R)[i], InOrder(S, R)[j]>> \in R
           /\ \A d \in S : \E i \in 1..Cardinality(S) : InOrder(S, R)[i] = d
<1> USE DEF IsOrder
<1> DEFINE n == Cardinality(S)
           At(i) == CHOOSE d \in S : Cardinality({e \in S : <<e, d>> \in R}) = i - 1
           s == InOrder(S, R)
<1>1. n \in Nat
  BY FS_CardinalityType
<1>2. \A i \in 1..n : At(i) \in S /\ Cardinality({e \in S : <<e, At(i)>> \in R}) = i - 1
  <2> TAKE i \in 1..n
  <2>1. \E d \in S : RankOf(R, S, d) = i - 1
    BY RankExists
  <2>2. \E d \in S : Cardinality({e \in S : <<e, d>> \in R}) = i - 1
    BY <2>1, Zenon DEF RankOf
  <2> HIDE DEF n
  <2> QED
    BY <2>2, Zenon
<1> HIDE DEF At
<1>3. s = [i \in 1..n |-> At(i)]
  BY Zenon DEF InOrder, At
<1> HIDE DEF s
<1>4. s \in [1..n -> S] /\ \A i \in 1..n : Cardinality({e \in S : <<e, s[i]>> \in R}) = i - 1
  BY <1>2, <1>3
<1> DEFINE Before(f) == {g \in S : <<g, f>> \in R}
           rank == [f \in S |-> Cardinality(Before(f))]
<1> HIDE DEF n
<1>5. \A f \in S : IsFiniteSet(Before(f)) /\ rank[f] \in Nat /\ rank[f] < n
  <2> TAKE f \in S
  <2>1. IsFiniteSet(Before(f)) /\ Cardinality(Before(f)) <= n
        /\ (n = Cardinality(Before(f)) => S = Before(f))
    BY FS_Subset DEF n
  <2>2. S # Before(f)
    OBVIOUS
  <2>3. Cardinality(Before(f)) \in Nat
    BY <2>1, FS_CardinalityType
  <2> QED
    BY <1>1, <2>1, <2>2, <2>3
<1>6. ASSUME NEW f \in S, NEW g \in S, <<f, g>> \in R PROVE rank[f] < rank[g]
  <2>1. Before(f) \in SUBSET Before(g) /\ Before(f) # Before(g)
    BY <1>6
  <2>2. rank[f] <= rank[g] /\ rank[f] # rank[g]
    BY <1>5, <2>1, FS_Subset
  <2>3. rank[f] \in Nat /\ rank[g] \in Nat
    BY <1>5
  <2> HIDE DEF rank
  <2> QED
    BY <2>2, <2>3
<1>7. \A i \in 1..n : s[i] \in S /\ rank[s[i]] = i - 1
  BY <1>4
<1>8. \A f \in S : rank[f] \in Nat /\ rank[f] < n
  BY <1>5
<1> HIDE DEF rank
<1>9. \A i, j \in 1..n : i < j => <<s[i], s[j]>> \in R
  <2> SUFFICES ASSUME NEW i \in 1..n, NEW j \in 1..n, i < j PROVE <<s[i], s[j]>> \in R
    OBVIOUS
  <2>1. s[i] # s[j] /\ s[i] \in S /\ s[j] \in S
    BY <1>1, <1>7
  <2>2. ~ (<<s[j], s[i]>> \in R)
    BY <1>1, <1>6, <1>7, <2>1
  <2> QED
    BY <2>1, <2>2
<1>10. ASSUME NEW d \in S PROVE \E i \in 1..n : s[i] = d
  <2>1. rank[d] + 1 \in 1..n
    BY <1>1, <1>8
  <2>2. s[rank[d] + 1] \in S /\ rank[s[rank[d] + 1]] = rank[d]
    BY <1>7, <1>8, <2>1
  <2>3. \A f \in S : rank[f] = rank[d] => f = d
    <3> SUFFICES ASSUME NEW f \in S, f # d PROVE rank[f] # rank[d]
      OBVIOUS
    <3>1. rank[f] < rank[d] \/ rank[d] < rank[f]
      BY <1>6
    <3> QED
      BY <1>8, <3>1
  <2> QED
    BY <2>1, <2>2, <2>3
<1>11. s \in Seq(S) /\ Len(s) = n
  BY <1>1, <1>4
<1> QED
  BY <1>9, <1>10, <1>11 DEF s, n

\* The image of a finite set is finite.
LEMMA ImageFinite ==
    ASSUME NEW S, IsFiniteSet(S), NEW f, S \subseteq DOMAIN f
    PROVE  IsFiniteSet({f[x] : x \in S})
<1> DEFINE g == [x \in S |-> f[x]]
           T == {f[x] : x \in S}
<1>1. g \in Surjection(S, T)
  BY DEF Surjection
<1> QED
  BY <1>1, FS_Surjection

\* The elements of a sequence are finitely many.
LEMMA ToSetFinite ==
    ASSUME NEW T, NEW s \in Seq(T)
    PROVE  IsFiniteSet(ToSet(s)) /\ ToSet(s) \subseteq T
<1>1. IsFiniteSet(1..Len(s)) /\ 1..Len(s) = DOMAIN s
  BY FS_Interval
<1>2. ToSet(s) = {s[x] : x \in 1..Len(s)}
  BY <1>1 DEF ToSet
<1> QED
  BY <1>1, <1>2, ImageFinite

\* The elements that are picked are elements.
LEMMA PickedSome ==
    ASSUME NEW T, NEW s \in Seq(T), NEW I \in SUBSET (1..Len(s))
    PROVE  /\ Picked(s, I) \in Seq({s[i] : i \in I}) /\ Len(Picked(s, I)) <= Len(s)
<1> DEFINE R == {x \in I \X I : x[1] < x[2]}
           p == InOrder(I, R)
<1>1. IsFiniteSet(1..Len(s)) /\ Cardinality(1..Len(s)) = Len(s)
  <2>1. PICK n \in Nat : n = Len(s)
    OBVIOUS
  <2>2. IsFiniteSet(1..n) /\ Cardinality(1..n) = n
    BY FS_Interval
  <2> QED
    BY <2>1, <2>2, Zenon
<1>2. IsFiniteSet(I) /\ Cardinality(I) <= Len(s) /\ Cardinality(I) \in Nat
  BY <1>1, FS_Subset, FS_CardinalityType
<1>3. p \in Seq(I) /\ Len(p) = Cardinality(I)
  <2>1. \A a, b \in I : <<a, b>> \in R <=> a < b
    OBVIOUS
  <2>2. \A a \in I : a \in Int
    OBVIOUS
  <2> HIDE DEF R
  <2>3. IsOrder(R, I)
    BY <2>1, <2>2 DEF IsOrder
  <2> QED
    BY <1>2, <2>3, RankedSeq
<1>4. \A i \in I : {j \in I : <<j, i>> \in R} = {j \in I : j < i}
  OBVIOUS
<1> DEFINE At(k) == CHOOSE i \in I : Cardinality({j \in I : j < i}) = k - 1
<1> HIDE DEF R
<1>5. \A k \in 1..Cardinality(I) : p[k] = At(k)
  BY <1>4 DEF InOrder
<1> HIDE DEF p, At
<1>6. Picked(s, I) = [k \in 1..Cardinality(I) |-> s[At(k)]]
  BY Zenon DEF Picked, At
<1>7. Picked(s, I) = [k \in 1..Cardinality(I) |-> s[p[k]]]
  BY <1>5, <1>6
<1> QED
  BY <1>2, <1>3, <1>7

-----------------------------------------------------------------------------
(* The order of hits. *)

\* Keys of one length are compared from left to right: a strict order.
LEMMA HigherIsOrder ==
    ASSUME NEW n \in Nat, NEW a \in [1..n -> Int], NEW b \in [1..n -> Int], NEW c \in [1..n -> Int]
    PROVE  /\ ~Higher(a, a)
           /\ Higher(a, b) /\ Higher(b, c) => Higher(a, c)
           /\ a # b => Higher(a, b) \/ Higher(b, a)
<1>1. ~Higher(a, a)
  BY DEF Higher
<1>2. ASSUME Higher(a, b), Higher(b, c) PROVE Higher(a, c)
  <2>1. PICK i \in 1..n : a[i] > b[i] /\ \A k \in 1..i - 1 : a[k] = b[k]
    BY <1>2 DEF Higher
  <2>2. PICK j \in 1..n : b[j] > c[j] /\ \A k \in 1..j - 1 : b[k] = c[k]
    BY <1>2 DEF Higher
  <2>3. CASE i < j
    <3>1. a[i] > c[i] /\ \A k \in 1..i - 1 : a[k] = c[k]
      BY <2>1, <2>2, <2>3
    <3> QED
      BY <3>1 DEF Higher
  <2>4. CASE i = j
    <3>1. a[i] > c[i] /\ \A k \in 1..i - 1 : a[k] = c[k]
      BY <2>1, <2>2, <2>4
    <3> QED
      BY <3>1 DEF Higher
  <2>5. CASE j < i
    <3>1. a[j] > c[j] /\ \A k \in 1..j - 1 : a[k] = c[k]
      BY <2>1, <2>2, <2>5
    <3> QED
      BY <3>1 DEF Higher
  <2> QED
    BY <2>3, <2>4, <2>5
<1>3. ASSUME a # b PROVE Higher(a, b) \/ Higher(b, a)
  <2> DEFINE D == {i \in 1..n : a[i] # b[i]}
  <2>0. (\A i \in 1..n : a[i] = b[i]) => a = b
    OBVIOUS
  <2>1. D # {} /\ D \subseteq Nat
    <3>1. \E i \in 1..n : a[i] # b[i]
      BY <1>3, <2>0
    <3>2. D \subseteq Nat
      OBVIOUS
    <3> QED
      BY <3>1, <3>2, Zenon
  <2>2. PICK i \in D : \A j \in D : i <= j
    BY <2>1, NatLeast
  <2>3. \A k \in 1..i - 1 : a[k] = b[k]
    BY <2>2
  <2>4. a[i] > b[i] \/ b[i] > a[i]
    BY <2>2
  <2> QED
    BY <2>2, <2>3, <2>4 DEF Higher
<1> QED
  BY <1>1, <1>2, <1>3

\* What is appended comes after what was there.
LEMMA ConcatEnd ==
    ASSUME NEW S, NEW k \in Seq(S), NEW t \in Seq(S)
    PROVE  /\ k \o t \in [1..Len(k) + Len(t) -> S]
           /\ \A i \in 1..Len(t) : (k \o t)[Len(k) + i] = t[i]
<1>1. k \o t \in Seq(S) /\ Len(k \o t) = Len(k) + Len(t)
  BY ConcatProperties
<1>2. k \o t \in [1..Len(k \o t) -> S]
  BY <1>1, LenProperties, Zenon
<1>3. Len(k) \in Nat /\ Len(t) \in Nat
  OBVIOUS
<1>4. \A i \in 1..Len(k) + Len(t) : (k \o t)[i] = IF i <= Len(k) THEN k[i] ELSE t[i - Len(k)]
  BY ConcatProperties
<1>5. ASSUME NEW i \in 1..Len(t) PROVE (k \o t)[Len(k) + i] = t[i]
  <2>1. Len(k) + i \in 1..Len(k) + Len(t) /\ ~(Len(k) + i <= Len(k)) /\ Len(k) + i - Len(k) = i
    BY <1>3
  <2> QED
    BY <1>4, <2>1
<1> QED
  BY <1>1, <1>2, <1>5

\* The key of Ordered, with its tie-break.
FullKey(d, key) == key[d] \o <<-d.id, d.score, d.ci>>

-----------------------------------------------------------------------------
(* Documents and their versions: a search changes the score and the city's  *)
(* importance of a document, and nothing else.                              *)

Known(D) == D \subseteq Documents /\ IsFiniteSet(D) /\ \A d, e \in D : d.id = e.id => d = e
Versions(D) == {e \in Documents : \E d \in D : Plain(e) = Plain(d)}

\* Versions of one document agree in every field that a filter reads.
SameFields(d, e) ==
    /\ d.id = e.id /\ d.kind = e.kind /\ d.name = e.name /\ d.alt = e.alt /\ d.suburb = e.suburb
    /\ d.extra = e.extra /\ d.state = e.state /\ d.cc = e.cc /\ d.hn = e.hn /\ d.unit = e.unit
    /\ d.pc = e.pc /\ d.rank = e.rank /\ d.imp = e.imp /\ d.pos = e.pos

\* Documents with the same stored fields are the same up to their scores.
LEMMA PlainFields ==
    ASSUME NEW d \in Documents, NEW e \in Documents
    PROVE  /\ Plain(d) = Plain(e) <=> SameFields(d, e)
           /\ SameFields(d, e) /\ d.score = e.score /\ d.ci = e.ci => d = e
<1>1. Plain(d) \in Documents /\ Plain(e) \in Documents
  BY DEF Plain, Documents
<1>2. SameFields(Plain(d), d) /\ SameFields(Plain(e), e)
  BY DEF Plain, Documents, SameFields
<1>3. Plain(d).score = 0 /\ Plain(d).ci = 0 /\ Plain(e).score = 0 /\ Plain(e).ci = 0
  BY DEF Plain, Documents
<1>4. \A a, b \in Documents : SameFields(a, b) /\ a.score = b.score /\ a.ci = b.ci => a = b
  <2> SUFFICES ASSUME NEW a \in Documents, NEW b \in Documents,
                      SameFields(a, b), a.score = b.score, a.ci = b.ci
               PROVE  a = b
    OBVIOUS
  <2> DEFINE Fields == {"id", "kind", "name", "alt", "suburb", "extra", "state", "cc", "hn", "unit", "pc",
                        "rank", "imp", "pos", "score", "ci"}
  <2>1. a = [f \in Fields |-> a[f]] /\ b = [f \in Fields |-> b[f]]
    BY DEF Documents
  <2>2. \A f \in Fields : a[f] = b[f]
    BY DEF SameFields
  <2> HIDE DEF Fields
  <2> QED
    BY <2>1, <2>2
<1>5. SameFields(d, e) => SameFields(Plain(d), Plain(e))
  BY <1>2 DEF SameFields
<1>6. Plain(d) = Plain(e) => SameFields(d, e)
  BY <1>2 DEF SameFields
<1> QED
  BY <1>1, <1>3, <1>4, <1>5, <1>6

\* A version of a document with another score is a version of it.
LEMMA Rescored ==
    ASSUME NEW D, NEW d \in Versions(D), NEW n \in Nat
    PROVE  /\ [d EXCEPT !.score = n] \in Versions(D) /\ SameFields([d EXCEPT !.score = n], d)
           /\ [d EXCEPT !.ci = n] \in Versions(D) /\ SameFields([d EXCEPT !.ci = n], d)
<1>1. d \in Documents
  BY DEF Versions
<1>2. [d EXCEPT !.score = n] \in Documents /\ [d EXCEPT !.ci = n] \in Documents
  BY <1>1 DEF Documents
<1>3. SameFields([d EXCEPT !.score = n], d) /\ SameFields([d EXCEPT !.ci = n], d)
  BY <1>1 DEF Documents, SameFields
<1>4. Plain([d EXCEPT !.score = n]) = Plain(d) /\ Plain([d EXCEPT !.ci = n]) = Plain(d)
  BY <1>1, <1>2, <1>3, PlainFields
<1> QED
  BY <1>2, <1>3, <1>4 DEF Versions

\* A version is known by its id, score and city's importance.
LEMMA VersionsDiffer ==
    ASSUME NEW D, Known(D), NEW a \in Versions(D), NEW b \in Versions(D),
           a.id = b.id, a.score = b.score, a.ci = b.ci
    PROVE  a = b
<1>1. PICK d \in D : Plain(a) = Plain(d)
  BY DEF Versions
<1>2. PICK e \in D : Plain(b) = Plain(e)
  BY DEF Versions
<1>3. a \in Documents /\ b \in Documents /\ d \in Documents /\ e \in Documents
  BY DEF Versions, Known
<1>4. d.id = a.id /\ e.id = b.id
  BY <1>1, <1>2, <1>3, PlainFields DEF SameFields
<1>5. d = e
  BY <1>4 DEF Known
<1> QED
  BY <1>1, <1>2, <1>3, <1>5, PlainFields

\* Documents are versions of themselves.
LEMMA DocsAreVersions ==
    ASSUME NEW D, Known(D)
    PROVE  D \subseteq Versions(D) /\ \A E \in SUBSET D : Known(E) /\ Versions(E) \subseteq Versions(D)
<1>1. \A E \in SUBSET D : IsFiniteSet(E)
  BY FS_Subset DEF Known
<1> QED
  BY <1>1 DEF Known, Versions

\* Ordered gives every version once, the highest key first.
LEMMA OrderedHits ==
    ASSUME NEW D, Known(D), NEW S \in SUBSET Versions(D), IsFiniteSet(S), NEW key, NEW m \in Nat,
           \A d \in S : key[d] \in Seq(Int) /\ Len(key[d]) = m
    PROVE  /\ Ordered(S, key) \in Seq(S) /\ Len(Ordered(S, key)) = Cardinality(S)
           /\ \A i, j \in 1..Cardinality(S) :
                i < j => Higher(FullKey(Ordered(S, key)[i], key), FullKey(Ordered(S, key)[j], key))
           /\ \A d \in S : \E i \in 1..Cardinality(S) : Ordered(S, key)[i] = d
<1>01. \A d \in S : d.id \in Int /\ d.score \in Int /\ d.ci \in Int
  BY DEF Versions, Documents
<1>02. \A d, e \in S : d.id = e.id /\ d.score = e.score /\ d.ci = e.ci => d = e
  BY VersionsDiffer
<1> DEFINE full == [d \in S |-> FullKey(d, key)]
           R == {x \in S \X S : Higher(full[x[1]], full[x[2]])}
<1>1. \A d \in S : full[d] \in [1..m + 3 -> Int] /\ full[d][m + 1] = -d.id /\ full[d][m + 2] = d.score
                   /\ full[d][m + 3] = d.ci
  <2> SUFFICES ASSUME NEW d \in S
               PROVE  /\ FullKey(d, key) \in [1..m + 3 -> Int] /\ FullKey(d, key)[m + 1] = -d.id
                      /\ FullKey(d, key)[m + 2] = d.score /\ FullKey(d, key)[m + 3] = d.ci
    OBVIOUS
  <2> DEFINE k == key[d]
             t == <<-d.id, d.score, d.ci>>
  <2>1. t \in Seq(Int)
    BY <1>01
  <2>2. Len(t) = 3 /\ t[1] = -d.id /\ t[2] = d.score /\ t[3] = d.ci
    OBVIOUS
  <2>3. k \in Seq(Int)
    OBVIOUS
  <2>4. Len(k) = m
    OBVIOUS
  <2>5. FullKey(d, key) = k \o t
    BY DEF FullKey
  <2> HIDE DEF k, t
  <2>6. /\ k \o t \in [1..Len(k) + Len(t) -> Int]
        /\ \A i \in 1..Len(t) : (k \o t)[Len(k) + i] = t[i]
    BY ONLY <2>1, <2>3, ConcatEnd, Zenon
  <2> DEFINE c == k \o t
  <2>7. c \in [1..m + 3 -> Int] /\ \A i \in 1..3 : c[m + i] = t[i]
    BY <2>2, <2>4, <2>6
  <2>8. FullKey(d, key) = c
    BY <2>5
  <2> HIDE DEF c
  <2>9. c[m + 1] = t[1] /\ c[m + 2] = t[2] /\ c[m + 3] = t[3]
    BY <2>7
  <2> QED
    BY <2>2, <2>7, <2>8, <2>9
<1>2. \A d \in S : full[d] = FullKey(d, key)
  OBVIOUS
<1>3. \A a, b \in S : <<a, b>> \in R <=> Higher(full[a], full[b])
  OBVIOUS
<1>4. \A d, e \in S : full[d] = full[e] => d = e
  <2> HIDE DEF full, R
  <2> SUFFICES ASSUME NEW d \in S, NEW e \in S, full[d] = full[e] PROVE d = e
    OBVIOUS
  <2>1. -d.id = -e.id /\ d.score = e.score /\ d.ci = e.ci
    BY <1>1
  <2>2. d.id = e.id
    BY <1>01, <2>1
  <2> QED
    BY <1>02, <2>1, <2>2
<1> HIDE DEF full, R
<1>5. IsOrder(R, S)
  <2>1. m + 3 \in Nat
    OBVIOUS
  <2>2. \A a \in S : ~Higher(full[a], full[a])
    BY <1>1, <2>1, HigherIsOrder
  <2>3. \A a, b \in S : a # b => Higher(full[a], full[b]) \/ Higher(full[b], full[a])
    BY <1>1, <1>4, <2>1, HigherIsOrder
  <2>4. \A a, b, c \in S : Higher(full[a], full[b]) /\ Higher(full[b], full[c]) => Higher(full[a], full[c])
    BY <1>1, <2>1, HigherIsOrder
  <2> QED
    BY <1>3, <2>2, <2>3, <2>4 DEF IsOrder
<1>6. \A d \in S : {e \in S : <<e, d>> \in R} = {e \in S : Higher(FullKey(e, key), FullKey(d, key))}
  BY <1>2, <1>3
<1>7. Ordered(S, key) = InOrder(S, R)
  <2> DEFINE At(i) == CHOOSE d \in S : Cardinality({e \in S : Higher(FullKey(e, key), FullKey(d, key))}) = i - 1
             Bt(i) == CHOOSE d \in S : Cardinality({e \in S : <<e, d>> \in R}) = i - 1
  <2>1. \A i \in 1..Cardinality(S) : At(i) = Bt(i)
    BY <1>6
  <2>2. Ordered(S, key) = [i \in 1..Cardinality(S) |-> At(i)]
    BY Zenon DEF Ordered, FullKey
  <2>3. InOrder(S, R) = [i \in 1..Cardinality(S) |-> Bt(i)]
    BY Zenon DEF InOrder
  <2> HIDE DEF At, Bt
  <2> QED
    BY <2>1, <2>2, <2>3
<1>8. /\ InOrder(S, R) \in Seq(S) /\ Len(InOrder(S, R)) = Cardinality(S)
      /\ \A i, j \in 1..Cardinality(S) : i < j => <<InOrder(S, R)[i], InOrder(S, R)[j]>> \in R
      /\ \A d \in S : \E i \in 1..Cardinality(S) : InOrder(S, R)[i] = d
  BY <1>5, RankedSeq
<1>9. Cardinality(S) \in Nat
  BY FS_CardinalityType
<1>10. \A i \in 1..Cardinality(S) : InOrder(S, R)[i] \in S
  BY <1>8, <1>9
<1> DEFINE o == InOrder(S, R)
<1>11. \A i, j \in 1..Cardinality(S) : i < j => <<o[i], o[j]>> \in R /\ o[i] \in S /\ o[j] \in S
  BY <1>8, <1>10
<1> HIDE DEF o
<1>12. \A i, j \in 1..Cardinality(S) : i < j => Higher(FullKey(o[i], key), FullKey(o[j], key))
  BY <1>2, <1>3, <1>11
<1> QED
  BY <1>7, <1>8, <1>12 DEF o

\* A page of a sequence.
LEMMA TruncateSome ==
    ASSUME NEW T, NEW s \in Seq(T), NEW n \in Nat
    PROVE  /\ Truncate(s, n) \in Seq(T) /\ Len(Truncate(s, n)) <= n /\ Len(Truncate(s, n)) <= Len(s)
           /\ \A i \in 1..Len(Truncate(s, n)) : Truncate(s, n)[i] = s[i]
           /\ Len(s) <= n => Truncate(s, n) = s
<1> DEFINE k == Min2(n, Len(s))
<1>1. k \in Nat /\ k <= n /\ k <= Len(s) /\ (Len(s) <= n => k = Len(s))
  BY DEF Min2
<1>2. Truncate(s, n) = SubSeq(s, 1, k)
  BY DEF Truncate
<1> HIDE DEF k
<1>3. \A i \in 1..k : s[i] \in T
  BY <1>1
<1>4. /\ SubSeq(s, 1, k) \in Seq(T) /\ Len(SubSeq(s, 1, k)) = k
      /\ \A i \in 1..k : SubSeq(s, 1, k)[i] = s[i]
  BY <1>1, <1>3, SubSeqProperties
<1> DEFINE u == SubSeq(s, 1, k)
<1> HIDE DEF u
<1>5. u \in Seq(T) /\ Len(u) = k /\ \A i \in 1..k : u[i] = s[i]
  BY <1>4 DEF u
<1>6. Len(s) <= n => u = s
  BY <1>1, <1>5, SeqEqual
<1> QED
  BY <1>1, <1>2, <1>5, <1>6 DEF u

-----------------------------------------------------------------------------
(* search_once. *)

\* A record of a query, whatever its words are.
Shaped(q) ==
    /\ DOMAIN q = {"text", "street", "house", "unit", "pc", "city", "state", "cc", "kind", "bias", "limit"}
    /\ q = [f \in DOMAIN q |-> q[f]]
    /\ q.bias \in Int /\ q.limit \in Nat

\* The query that asks for nothing has the shape of a query.
LEMMA NoQueryShaped == Shaped(NoQuery)
<1>1. NoQuery.bias \in Int /\ NoQuery.limit \in Nat
  BY DEF NoQuery
<1>2. DOMAIN NoQuery = {"text", "street", "house", "unit", "pc", "city", "state", "cc", "kind", "bias", "limit"}
  BY DEF NoQuery
<1>3. NoQuery = [f \in DOMAIN NoQuery |-> NoQuery[f]]
  BY DEF NoQuery
<1> QED
  BY <1>1, <1>2, <1>3 DEF Shaped

\* A query asks for 1 to 50 hits, whatever limit it was given.
LEMMA LimitType ==
    ASSUME NEW q, Shaped(q)
    PROVE  Limit(q) \in 1..50
BY DEF Limit, Shaped, Min2

\* The penalty of a distance is a number.
LEMMA LogPenaltyType ==
    ASSUME NEW far \in Nat
    PROVE  LogPenalty(far) \in Int
<1> DEFINE S == {k \in 1..20 : 2^k <= far}
<1>1. IsFiniteSet(1..20)
  <2>1. 1 \in Int /\ 20 \in Int
    OBVIOUS
  <2> QED
    BY <2>1, FS_Interval, Zenon
<1>2. IsFiniteSet(S)
  BY <1>1, FS_Subset
<1>3. Cardinality(S) \in Nat
  BY <1>2, FS_CardinalityType
<1> HIDE DEF S
<1>4. 48 + 14 * Cardinality(S) \in Int
  BY <1>3
<1> QED
  BY <1>4 DEF LogPenalty, S

\* So are the score and the ranking key of a document.
LEMMA ScoresAreIntegers ==
    ASSUME NEW d \in Documents, NEW bias \in Int, NEW exact \in BOOLEAN
    PROVE  BoostedScore(d, bias) \in Int /\ RankingKey(d, bias, exact) \in Int
<1>1. d.rank \in Nat /\ d.imp \in Nat /\ d.pos \in Nat /\ d.score \in Nat
  BY DEF Documents
<1>2. DistM(d.pos, bias) \in Nat
  BY <1>1 DEF DistM
<1>3. LogPenalty(DistM(d.pos, bias)) \in Int
  BY <1>2, LogPenaltyType
<1>4. BoostedScore(d, bias) \in Int
  <2> DEFINE rank == IF d.kind = "poi" /\ d.rank < 20 THEN 20 ELSE d.rank
             up   == IF rank < 26 THEN Min2(100, 4 * (26 - rank)) ELSE 0
             far  == DistM(d.pos, bias)
             near == IF d.kind = "place" /\ far < 5 THEN ((5 - far) * d.imp * 10) \div 255 ELSE 0
  <2>1. rank \in Int
    BY <1>1
  <2>2. up \in Int
    BY <2>1 DEF Min2
  <2>3. far \in Int
    BY <1>2
  <2> HIDE DEF far
  <2>4. (5 - far) * d.imp * 10 \in Int
    BY <1>1, <2>3
  <2>5. near \in Int
    BY <2>4
  <2> HIDE DEF near, up, rank
  <2>6. d.score * (100 + up) \in Int /\ d.score * (100 + near) \in Int
    BY <1>1, <2>2, <2>5
  <2>7. (d.imp * 150) \div 255 \in Int /\ (d.imp * 400) \div 255 \in Int
    BY <1>1
  <2> QED
    BY <1>3, <2>3, <2>6, <2>7 DEF BoostedScore, far, near, up, rank
<1> QED
  BY <1>1, <1>2, <1>4 DEF RankingKey

\* What a search asks of a document is asked of its fields.
LEMMA MatchesSame ==
    ASSUME NEW d, NEW e, SameFields(d, e), NEW q, NEW z, NEW h, NEW p, NEW u
    PROVE  /\ StructuredMatch(d, q) <=> StructuredMatch(e, q)
           /\ ExactMatch(d, q, z, h, p, u) <=> ExactMatch(e, q, z, h, p, u)
<1>1. StructuredMatch(d, q) <=> StructuredMatch(e, q)
  BY DEF SameFields, StructuredMatch, Localities
<1>2. ExactMatch(d, q, z, h, p, u) <=> ExactMatch(e, q, z, h, p, u)
  BY DEF SameFields, ExactMatch
<1> QED
  BY <1>1, <1>2

\* What a structured search collects matches the query, and is finitely much.
LEMMA MatchingFound ==
    ASSUME NEW D, Known(D), NEW E \in SUBSET D, NEW q, NEW z, NEW h, NEW p, NEW u
    PROVE  /\ Matching(E, q, z, h, p, u) \subseteq Versions(D) /\ IsFiniteSet(Matching(E, q, z, h, p, u))
           /\ \A d \in Matching(E, q, z, h, p, u) : StructuredMatch(d, q) /\ ExactMatch(d, q, z, h, p, u)
<1> DEFINE N == {x \in E : StructuredMatch(x, q) /\ TextMatch(x, q, z) /\ ExactMatch(x, q, z, h, p, u)}
           f == [d \in N |-> [d EXCEPT !.score = TextScore(d, q, z, h)]]
<1>1. IsFiniteSet(N)
  BY FS_Subset DEF Known
<1>2. Matching(E, q, z, h, p, u) = {f[x] : x \in N}
  BY DEF Matching
<1>3. N \subseteq Versions(D)
  BY DocsAreVersions
<1>4. \A d \in N : TextScore(d, q, z, h) \in Nat
  BY <1>3 DEF Versions, Documents, TextScore
<1>5. \A d \in N : f[d] \in Versions(D) /\ SameFields(f[d], d)
  BY <1>3, <1>4, Rescored
<1>6. \A d \in N : StructuredMatch(d, q) /\ ExactMatch(d, q, z, h, p, u)
  OBVIOUS
<1>7. DOMAIN f = N
  OBVIOUS
<1> HIDE DEF f, N
<1>8. \A d \in N : StructuredMatch(f[d], q) /\ ExactMatch(f[d], q, z, h, p, u)
  BY <1>5, <1>6, MatchesSame
<1>9. IsFiniteSet({f[x] : x \in N})
  BY <1>1, <1>7, ImageFinite
<1> QED
  BY <1>2, <1>5, <1>8, <1>9

\* The pool has what matches, with other scores.
LEMMA PoolFound ==
    ASSUME NEW D, Known(D), NEW S \in SUBSET Versions(D), IsFiniteSet(S),
           NEW q, Shaped(q), NEW z, NEW h, NEW p, NEW u,
           \A d \in S : StructuredMatch(d, q) /\ ExactMatch(d, q, z, h, p, u)
    PROVE  /\ Pool(S, q, z, h) \subseteq Versions(D) /\ IsFiniteSet(Pool(S, q, z, h))
           /\ \A d \in Pool(S, q, z, h) : StructuredMatch(d, q) /\ ExactMatch(d, q, z, h, p, u)
<1> DEFINE key == [d \in S |-> <<d.score>>]
           o == Ordered(S, key)
           t == Truncate(o, Oversample(q, z))
           f == [d \in ToSet(t) |-> Lifted(d, q, z, h)]
<1>1. \A d \in S : key[d] \in Seq(Int) /\ Len(key[d]) = 1
  BY DEF Versions, Documents
<1> HIDE DEF key
<1>2. o \in Seq(S)
  BY <1>1, OrderedHits
<1> HIDE DEF o
<1>3. Oversample(q, z) \in Nat
  BY LimitType DEF Oversample, Min2
<1>4. t \in Seq(S)
  BY <1>2, <1>3, TruncateSome
<1> HIDE DEF t
<1>5. IsFiniteSet(ToSet(t)) /\ ToSet(t) \subseteq S
  BY <1>4, ToSetFinite
<1>6. \A d \in ToSet(t) : Lifted(d, q, z, h) \in Versions(D) /\ SameFields(Lifted(d, q, z, h), d)
  <2> TAKE d \in ToSet(t)
  <2> DEFINE n == CASE d.kind = "street" /\ StreetIntent(q, z, h) -> (d.score * 124) \div 100
                    [] d.kind = "address" /\ HasPhrase(q.text, d.name) -> (d.score * 110) \div 100
                    [] OTHER -> d.score
  <2>1. d \in Versions(D) /\ d.score \in Nat
    BY <1>5 DEF Versions, Documents
  <2>2. n \in Nat
    BY <2>1
  <2>3. Lifted(d, q, z, h) = [d EXCEPT !.score = n]
    BY <2>1 DEF Lifted, Versions, Documents
  <2> HIDE DEF n
  <2> QED
    BY <2>1, <2>2, <2>3, Rescored
<1>7. Pool(S, q, z, h) = {f[d] : d \in ToSet(t)} /\ DOMAIN f = ToSet(t) /\ \A d \in ToSet(t) : f[d] = Lifted(d, q, z, h)
  BY DEF Pool, t, o, key
<1> HIDE DEF f
<1>8. IsFiniteSet({f[d] : d \in ToSet(t)})
  BY <1>5, <1>7, ImageFinite
<1>9. \A d \in ToSet(t) : StructuredMatch(f[d], q) /\ ExactMatch(f[d], q, z, h, p, u)
  BY <1>5, <1>6, <1>7, MatchesSame
<1> QED
  BY <1>6, <1>7, <1>8, <1>9

\* The hits of one search are versions of documents that match.
LEMMA SearchOnceFound ==
    ASSUME NEW D, Known(D), NEW E \in SUBSET D, NEW q, Shaped(q), NEW h, NEW p, NEW u
    PROVE  /\ SearchOnce(E, q, h, p, u) \in Seq(Versions(D)) /\ Len(SearchOnce(E, q, h, p, u)) <= Limit(q)
           /\ \A i \in 1..Len(SearchOnce(E, q, h, p, u)) :
                /\ StructuredMatch(SearchOnce(E, q, h, p, u)[i], q)
                /\ ExactMatch(SearchOnce(E, q, h, p, u)[i], q, Parse(q), h, p, u)
<1> DEFINE z == Parse(q)
           M == Matching(E, q, z, h, p, u)
           P == Pool(M, q, z, h)
           key == [d \in P |-> <<RankingKey(d, q.bias, IsExact(d, q, z)),
                                 IF Unit(q, z) = None /\ d.kind = "address" /\ d.unit = None THEN 1 ELSE 0>>]
           r == Ranked(P, q, z)
           a == OnePerAddress(r)
           s == SearchOnce(E, q, h, p, u)
           Good == {d \in Versions(D) : StructuredMatch(d, q) /\ ExactMatch(d, q, z, h, p, u)}
<1> HIDE DEF z
<1>1. M \subseteq Versions(D) /\ IsFiniteSet(M) /\ \A d \in M : StructuredMatch(d, q) /\ ExactMatch(d, q, z, h, p, u)
  BY MatchingFound
<1> HIDE DEF M
<1>2. P \subseteq Versions(D) /\ IsFiniteSet(P) /\ \A d \in P : StructuredMatch(d, q) /\ ExactMatch(d, q, z, h, p, u)
  BY <1>1, PoolFound
<1> HIDE DEF P
<1>3. \A d \in P : key[d] \in Seq(Int) /\ Len(key[d]) = 2
  <2> TAKE d \in P
  <2>1. d \in Documents /\ q.bias \in Int
    BY <1>2 DEF Versions, Shaped
  <2>2. IsExact(d, q, z) \in BOOLEAN
    BY DEF IsExact
  <2>3. RankingKey(d, q.bias, IsExact(d, q, z)) \in Int
    BY <2>1, <2>2, ScoresAreIntegers
  <2> QED
    BY <2>3
<1>4. r = Ordered(P, key)
  BY DEF Ranked
<1> HIDE DEF key, r
<1>5. r \in Seq(P)
  BY <1>2, <1>3, <1>4, OrderedHits
<1>6. r \in Seq(Good)
  BY <1>2, <1>5, SeqMonotonic
<1> HIDE DEF Good
<1>7. a \in Seq(Good)
  <2> DEFINE At(d) == <<d.kind, d.name, d.hn, d.pc, d.pos>>
             I == {i \in DOMAIN r : r[i].kind = "address" => \A j \in 1..i - 1 : At(r[j]) # At(r[i])}
  <2>1. a = Picked(r, I)
    BY Zenon DEF OnePerAddress
  <2>2. I \in SUBSET (1..Len(r))
    BY <1>6
  <2> HIDE DEF I, a
  <2>3. a \in Seq({r[i] : i \in I})
    BY <1>6, <2>1, <2>2, PickedSome
  <2>4. {r[i] : i \in I} \subseteq Good
    BY <1>6, <2>2
  <2> QED
    BY <2>3, <2>4, SeqMonotonic
<1> HIDE DEF a
<1>8. Limit(q) \in Nat
  BY LimitType
<1>9. s \in {<<>>, Truncate(r, Limit(q)), Truncate(a, Limit(q))}
  BY DEF SearchOnce, SearchParsed, TopHits, z, r, a, P, M
<1>10. s \in Seq(Good) /\ Len(s) <= Limit(q)
  <2>1. CASE s = <<>>
    BY <1>8, <2>1
  <2>2. CASE s = Truncate(r, Limit(q))
    BY <1>6, <1>8, <2>2, TruncateSome
  <2>3. CASE s = Truncate(a, Limit(q))
    BY <1>7, <1>8, <2>3, TruncateSome
  <2> QED
    BY <1>9, <2>1, <2>2, <2>3
<1> HIDE DEF s
<1>11. s \in Seq(Versions(D))
  BY <1>10, SeqMonotonic DEF Good
<1>12. \A i \in 1..Len(s) : StructuredMatch(s[i], q) /\ ExactMatch(s[i], q, z, h, p, u)
  BY <1>10 DEF Good
<1> QED
  BY <1>10, <1>11, <1>12 DEF s, z

-----------------------------------------------------------------------------
(* Filters: every rung asks for at least what the query asks for. *)

\* The query x asks for no less than q.
Narrows(x, q) ==
    /\ q.cc # {} => x.cc # {} /\ x.cc \subseteq q.cc
    /\ q.kind # AnyKind => x.kind = q.kind
    /\ q.state # <<>> => x.state = q.state
    /\ q.city # <<>> => x.city = q.city
    /\ q.pc # None /\ AddressKind(q) => x.pc = q.pc /\ AddressKind(x)

\* A hit of a narrower query meets the filters of the one that was asked.
LEMMA NarrowerMeets ==
    ASSUME NEW d, NEW x, NEW q, Narrows(x, q), Meets(d, x)
    PROVE  Meets(d, q)
<1>1. ToSet(<<>>) = {}
  BY DEF ToSet
<1>2. ToSet(q.state) \subseteq ToSet(d.state)
  BY <1>1 DEF Narrows, Meets
<1>3. ToSet(q.city) \subseteq Localities(d)
  BY <1>1 DEF Narrows, Meets
<1> QED
  BY <1>2, <1>3 DEF Narrows, Meets

\* A search that uses the postcode, or has none to use, keeps the filters.
LEMMA MatchMeets ==
    ASSUME NEW d, NEW q, NEW z, NEW h, NEW p \in BOOLEAN, NEW u, p \/ q.pc = None,
           StructuredMatch(d, q), ExactMatch(d, q, z, h, p, u)
    PROVE  Meets(d, q)
<1>1. (q.pc # None /\ AddressKind(q)) => d.pc = q.pc
  BY DEF ExactMatch, ExactPostcode, Postcode
<1> QED
  BY <1>1 DEF StructuredMatch, ExactMatch, Meets

\* Hits of a query: versions of documents, no more than asked for, that meet the
\* filters.
Found(s, D, q) ==
    /\ s \in Seq(Versions(D)) /\ Len(s) <= Limit(q)
    /\ \A i \in 1..Len(s) : Meets(s[i], q)

\* No hits at all are an answer to any query.
LEMMA FoundNothing ==
    ASSUME NEW D, NEW q, Shaped(q)
    PROVE  Found(<<>>, D, q)
BY LimitType DEF Found

\* A rung: a search for a query that is narrower.
LEMMA RungFound ==
    ASSUME NEW D, Known(D), NEW E \in SUBSET D, NEW q, NEW x, Shaped(x), x.limit = q.limit,
           Narrows(x, q), NEW h, NEW p \in BOOLEAN, NEW u, p \/ x.pc = None
    PROVE  Found(SearchOnce(E, x, h, p, u), D, q)
<1> DEFINE s == SearchOnce(E, x, h, p, u)
<1>1. /\ s \in Seq(Versions(D)) /\ Len(s) <= Limit(x)
      /\ \A i \in 1..Len(s) : StructuredMatch(s[i], x) /\ ExactMatch(s[i], x, Parse(x), h, p, u)
  BY SearchOnceFound
<1> HIDE DEF s
<1>2. \A i \in 1..Len(s) : Meets(s[i], q)
  BY <1>1, MatchMeets, NarrowerMeets
<1>3. Limit(x) = Limit(q)
  BY DEF Limit
<1> QED
  BY <1>1, <1>2, <1>3 DEF Found, s

\* Versions meet the same filters.
LEMMA MeetsSame ==
    ASSUME NEW d, NEW e, SameFields(d, e), NEW q, Meets(e, q)
    PROVE  Meets(d, q)
BY DEF SameFields, Meets, Localities

\* Hits that carry the importance of a city are hits.
LEMMA FoundInCity ==
    ASSUME NEW D, NEW q, NEW s, Found(s, D, q), NEW n \in Nat, NEW t,
           DOMAIN t = DOMAIN s, t = [i \in DOMAIN t |-> t[i]],
           \A i \in DOMAIN s : t[i] \in {s[i], [s[i] EXCEPT !.ci = n]}
    PROVE  Found(t, D, q)
<1>1. s \in Seq(Versions(D)) /\ DOMAIN s = 1..Len(s) /\ Len(s) \in Nat
  BY DEF Found
<1>2. \A i \in 1..Len(s) : t[i] \in Versions(D) /\ Meets(t[i], q)
  <2> TAKE i \in 1..Len(s)
  <2>1. s[i] \in Versions(D) /\ Meets(s[i], q)
    BY <1>1 DEF Found
  <2>2. [s[i] EXCEPT !.ci = n] \in Versions(D) /\ SameFields([s[i] EXCEPT !.ci = n], s[i])
    BY <2>1, Rescored
  <2>3. Meets([s[i] EXCEPT !.ci = n], q)
    BY <2>1, <2>2, MeetsSame
  <2> QED
    BY <1>1, <2>1, <2>2, <2>3
<1>3. t \in Seq(Versions(D)) /\ Len(t) = Len(s)
  BY <1>1, <1>2
<1> QED
  BY <1>2, <1>3 DEF Found

-----------------------------------------------------------------------------
(* search_strict. *)

\* A finite set of hits has a most important one.
LEMMA MostImportantType ==
    ASSUME NEW S \in SUBSET Documents, IsFiniteSet(S)
    PROVE  MostImportant(S).imp \in Nat
<1>1. CASE S = {}
  BY <1>1 DEF MostImportant, NoCity
<1>2. CASE S # {}
  <2> DEFINE f == [d \in S |-> d.imp]
             T == {f[d] : d \in S}
             R == {x \in T \X T : x[1] > x[2]}
  <2>1. IsFiniteSet(T) /\ T # {} /\ T \subseteq Nat
    <3>1. IsFiniteSet(T)
      BY ImageFinite
    <3>2. T \subseteq Nat
      BY DEF Documents
    <3> QED
      BY <1>2, <3>1, <3>2
  <2>2. \A a, b \in T : <<a, b>> \in R <=> a > b
    OBVIOUS
  <2>3. Cardinality(T) \in Nat /\ Cardinality(T) # 0
    BY <2>1, FS_CardinalityType, FS_EmptySet
  <2> HIDE DEF R
  <2>4. IsOrder(R, T)
    <3> HIDE DEF T
    <3> QED
      BY <2>1, <2>2 DEF IsOrder
  <2>5. PICK n \in T : RankOf(R, T, n) = 1 - 1
    <3> HIDE DEF T
    <3>1. 1 \in 1..Cardinality(T)
      BY <2>3
    <3> QED
      BY <2>1, <2>4, <3>1, RankExists
  <2>6. {g \in T : <<g, n>> \in R} = {}
    <3> HIDE DEF T
    <3>1. IsFiniteSet({g \in T : <<g, n>> \in R})
      BY <2>1, FS_Subset
    <3> QED
      BY <2>5, <3>1, FS_EmptySet DEF RankOf
  <2>7. \A g \in T : g <= n
    <3> HIDE DEF T
    <3>1. \A g \in T : ~(g > n)
      BY <2>2, <2>6
    <3> QED
      BY <2>1, <3>1
  <2>8. PICK d \in S : d.imp = n
    OBVIOUS
  <2>9. \A y \in S : y.imp <= d.imp
    BY <2>7, <2>8
  <2>10. (CHOOSE x \in S : \A y \in S : y.imp <= x.imp) \in S
    BY <2>9, Zenon
  <2> QED
    BY <1>2, <2>10 DEF MostImportant, Documents
<1> QED
  BY <1>1, <1>2

\* The city that a tail of words is looked up as has an importance.
LEMMA LookupCityType ==
    ASSUME NEW D, Known(D), NEW E \in SUBSET D, NEW cc, NEW tail
    PROVE  LookupCity(E, cc, tail).imp \in Nat
<1> DEFINE x == [NoQuery EXCEPT !.text = <<tail>>, !.cc = cc, !.kind = "place", !.limit = 5]
           s == SearchOnce(E, x, FALSE, FALSE, FALSE)
           S == {d \in ToSet(s) : d.rank \in 13..16 /\ d.name = tail}
<1>1. Shaped(x)
  BY NoQueryShaped DEF Shaped
<1> HIDE DEF x
<1>2. s \in Seq(Versions(D))
  BY <1>1, SearchOnceFound
<1> HIDE DEF s
<1>3. IsFiniteSet(ToSet(s)) /\ ToSet(s) \subseteq Versions(D)
  BY <1>2, ToSetFinite
<1>4. IsFiniteSet(S) /\ S \subseteq Documents
  BY <1>3, FS_Subset DEF Versions
<1>5. LookupCity(E, cc, tail) = MostImportant(S)
  BY DEF LookupCity, s, x
<1> QED
  BY <1>4, <1>5, MostImportantType

\* A trailing city has an importance, and there is none where the query has a city
\* already.
LEMMA TrailingCityType ==
    ASSUME NEW D, Known(D), NEW E \in SUBSET D, NEW q, NEW f
    PROVE  /\ TrailingCity(E, q, f).city.imp \in Nat
           /\ TrailingCity(E, q, f).city # NoCity => q.city = <<>>
<1> DEFINE c == [n \in {k \in 1..3 : k < Len(f)} |-> LookupCity(E, q.cc, SubSeq(f, Len(f) - n + 1, Len(f)))]
<1>1. \A n \in DOMAIN c : c[n].imp \in Nat
  BY LookupCityType
<1>2. DOMAIN c \subseteq 1..3
  OBVIOUS
<1> HIDE DEF c
<1>3. LongestTail(f, c).city.imp \in Nat
  <2> DEFINE N == {n \in DOMAIN c : c[n] # NoCity}
  <2>1. CASE N = {}
    BY <2>1 DEF LongestTail, NoCity
  <2>2. CASE N # {}
    <3>1. \E x \in N : \A y \in N : y <= x
      BY <1>2, <2>2
    <3>2. (CHOOSE x \in N : \A y \in N : y <= x) \in N
      BY <3>1, Zenon
    <3> QED
      BY <1>1, <2>2, <3>2 DEF LongestTail
  <2> QED
    BY <2>1, <2>2
<1>4. \/ TrailingCity(E, q, f) = [city |-> NoCity, body |-> <<>>]
      \/ q.city = <<>> /\ TrailingCity(E, q, f) = LongestTail(f, c)
  BY DEF TrailingCity, c
<1> QED
  BY <1>3, <1>4 DEF NoCity

\* The strict searches keep the filters.
LEMMA SearchStrictFound ==
    ASSUME NEW D, Known(D), NEW E \in SUBSET D, NEW q, Shaped(q)
    PROVE  Found(SearchStrict(E, q), D, q)
<1> DEFINE f == Flat(q.text)
           t == TrailingCity(E, q, f)
           x == [q EXCEPT !.text = <<t.body>>, !.city = t.city.name]
           plain == SearchOnce(E, q, TRUE, TRUE, TRUE)
           scoped == SearchOnce(E, x, TRUE, TRUE, TRUE)
<1>1. t.city.imp \in Nat /\ (t.city # NoCity => q.city = <<>>)
  BY TrailingCityType
<1>2. SearchStrict(E, q) = InCity(q, f, t, plain, scoped)
  BY DEF SearchStrict, StrictIn
<1> HIDE DEF f, t
<1>3. Found(plain, D, q)
  <2>1. Narrows(q, q)
    BY DEF Narrows
  <2> QED
    BY <2>1, RungFound
<1>4. t.city # NoCity => Found(scoped, D, q)
  <2> SUFFICES ASSUME t.city # NoCity PROVE Found(scoped, D, q)
    OBVIOUS
  <2>1. Shaped(x)
    BY DEF Shaped
  <2>2. Narrows(x, q) /\ x.limit = q.limit
    BY <1>1 DEF Shaped, Narrows, AddressKind
  <2> HIDE DEF x
  <2> QED
    BY <2>1, <2>2, RungFound
<1> HIDE DEF plain, scoped
<1> DEFINE c1 == WithCity(plain, f, t.city.imp)
           c2 == [i \in DOMAIN scoped |-> [scoped[i] EXCEPT !.ci = t.city.imp]]
<1>5. Found(c1, D, q)
  <2>1. /\ DOMAIN c1 = DOMAIN plain /\ c1 = [i \in DOMAIN c1 |-> c1[i]]
        /\ \A i \in DOMAIN plain : c1[i] \in {plain[i], [plain[i] EXCEPT !.ci = t.city.imp]}
    BY DEF WithCity
  <2> HIDE DEF c1
  <2> QED
    BY <1>1, <1>3, <2>1, FoundInCity
<1>6. t.city # NoCity => Found(c2, D, q)
  <2>1. /\ DOMAIN c2 = DOMAIN scoped /\ c2 = [i \in DOMAIN c2 |-> c2[i]]
        /\ \A i \in DOMAIN scoped : c2[i] \in {scoped[i], [scoped[i] EXCEPT !.ci = t.city.imp]}
    OBVIOUS
  <2> HIDE DEF c2
  <2> QED
    BY <1>1, <1>4, <2>1, FoundInCity
<1>7. \/ InCity(q, f, t, plain, scoped) \in {plain, c1}
      \/ t.city # NoCity /\ InCity(q, f, t, plain, scoped) = c2
  BY DEF InCity
<1> HIDE DEF c1, c2
<1> QED
  BY <1>2, <1>3, <1>5, <1>6, <1>7

-----------------------------------------------------------------------------
(* The ladder. *)

\* The rung for a region's full name behind the text keeps the filters.
LEMMA RegionSuffixFound ==
    ASSUME NEW D, Known(D), NEW E \in SUBSET D, NEW q, Shaped(q)
    PROVE  Found(RegionSuffix(E, q), D, q)
<1> DEFINE x == [q EXCEPT !.text = Front(@), !.state = Last(q.text)]
<1>1. CASE q.state = <<>> /\ q.city = <<>> /\ HasTail(q)
  <2>1. Shaped(x) /\ x.limit = q.limit
    BY DEF Shaped
  <2>2. Narrows(x, q)
    BY <1>1 DEF Shaped, Narrows, AddressKind
  <2>3. RegionSuffix(E, q) = SearchOnce(E, x, TRUE, TRUE, TRUE)
    BY <1>1 DEF RegionSuffix
  <2> HIDE DEF x
  <2> QED
    BY <2>1, <2>2, <2>3, RungFound
<1>2. CASE ~(q.state = <<>> /\ q.city = <<>> /\ HasTail(q))
  BY <1>2, FoundNothing DEF RegionSuffix
<1> QED
  BY <1>1, <1>2

\* The rung for a bare postcode keeps the filters.
LEMMA BarePostcodeFound ==
    ASSUME NEW D, Known(D), NEW E \in SUBSET D, NEW q, Shaped(q)
    PROVE  Found(BarePostcode(E, q), D, q)
<1> DEFINE x == [q EXCEPT !.text = <<>>, !.pc = Flat(q.text)[1], !.kind = "address"]
           C == /\ q.pc = None /\ q.house = None /\ q.street = <<>> /\ q.city = <<>> /\ q.state = <<>>
                /\ AddressKind(q) /\ Len(Flat(q.text)) = 1 /\ Flat(q.text)[1] \in Postcodes
<1>1. CASE C
  <2>1. Shaped(x) /\ x.limit = q.limit
    BY DEF Shaped
  <2>2. Narrows(x, q)
    BY <1>1 DEF Shaped, Narrows, AddressKind, AnyKind
  <2>3. BarePostcode(E, q) = SearchOnce(E, x, TRUE, TRUE, TRUE)
    BY <1>1 DEF BarePostcode
  <2> HIDE DEF x, C
  <2> QED
    BY <2>1, <2>2, <2>3, RungFound
<1>2. CASE ~C
  BY <1>2, FoundNothing DEF BarePostcode
<1> QED
  BY <1>1, <1>2

\* Hits of the query itself, with or without its number and unit.
LEMMA SameQueryFound ==
    ASSUME NEW D, Known(D), NEW E \in SUBSET D, NEW q, Shaped(q), NEW h, NEW p \in BOOLEAN, NEW u,
           p \/ q.pc = None
    PROVE  Found(SearchOnce(E, q, h, p, u), D, q)
<1>1. Narrows(q, q)
  BY DEF Narrows
<1> QED
  BY <1>1, RungFound

\* The rung that drops unit and postcode, but not the house number, keeps the filters.
LEMMA KeepHouseFound ==
    ASSUME NEW D, Known(D), NEW E \in SUBSET D, NEW q, Shaped(q), q.pc = None
    PROVE  Found(KeepHouse(E, q, Parse(q)), D, q)
<1>1. /\ Found(SearchOnce(E, q, TRUE, TRUE, FALSE), D, q)
      /\ Found(SearchOnce(E, q, TRUE, FALSE, TRUE), D, q)
      /\ Found(SearchOnce(E, q, TRUE, FALSE, FALSE), D, q)
  BY SameQueryFound
<1>2. Found(<<>>, D, q)
  BY FoundNothing
<1>3. KeepHouse(E, q, Parse(q)) \in {<<>>, SearchOnce(E, q, TRUE, TRUE, FALSE), SearchOnce(E, q, TRUE, FALSE, TRUE),
                           SearchOnce(E, q, TRUE, FALSE, FALSE)}
  BY DEF KeepHouse, Or
<1> QED
  BY <1>1, <1>2, <1>3

\* The search around an address with the postcode keeps the filters.
LEMMA AroundFound ==
    ASSUME NEW D, Known(D), NEW E \in SUBSET D, NEW q, Shaped(q), q.pc = None,
           NEW located \in Seq(Versions(D))
    PROVE  Found(Around(E, q, located), D, q)
<1> DEFINE there == IF located = <<>> THEN q ELSE [q EXCEPT !.bias = located[1].pos]
           x == [there EXCEPT !.city = located[1].suburb]
           a == SearchOnce(E, x, FALSE, FALSE, FALSE)
           b == SearchOnce(E, there, FALSE, FALSE, FALSE)
<1>1. located # <<>> => located[1].pos \in Int
  <2>1. located # <<>> => 1 \in 1..Len(located)
    OBVIOUS
  <2>2. located # <<>> => located[1] \in Versions(D)
    BY <2>1, ElementOfSeq
  <2>3. \A d \in Versions(D) : d.pos \in Int
    BY DEF Versions, Documents
  <2> QED
    BY <2>2, <2>3, Zenon
<1>2. Shaped(there) /\ there.limit = q.limit /\ there.pc = q.pc /\ Narrows(there, q)
  <2>1. CASE located = <<>>
    BY <2>1 DEF Narrows
  <2>2. CASE located # <<>>
    BY <1>1, <2>2 DEF Shaped, Narrows, AddressKind
  <2> QED
    BY <2>1, <2>2
<1>3. Found(b, D, q)
  <2> HIDE DEF there
  <2> QED
    BY <1>2, RungFound
<1>4. q.city = <<>> => Found(a, D, q)
  <2> SUFFICES ASSUME q.city = <<>> PROVE Found(a, D, q)
    OBVIOUS
  <2> HIDE DEF there
  <2>1. Shaped(x) /\ x.limit = q.limit /\ x.pc = q.pc
    BY <1>2 DEF Shaped
  <2>2. Narrows(x, q)
    BY <1>2 DEF Shaped, Narrows, AddressKind
  <2> HIDE DEF x
  <2> QED
    BY <2>1, <2>2, RungFound
<1>5. Found(<<>>, D, q)
  BY FoundNothing
<1>6. Around(E, q, located) \in {<<>>, b} \/ (q.city = <<>> /\ Around(E, q, located) = a)
  BY DEF Around, Or
<1> HIDE DEF a, b
<1> QED
  BY <1>3, <1>4, <1>5, <1>6

\* The rung that drops house number and postcode keeps the filters.
LEMMA DropNumbersFound ==
    ASSUME NEW D, Known(D), NEW E \in SUBSET D, NEW q, Shaped(q), q.pc = None
    PROVE  Found(DropNumbers(E, q, Parse(q)), D, q)
<1> DEFINE p == Parse(q)
           x == [q EXCEPT !.text = <<>>, !.pc = p.pc, !.kind = "address", !.limit = 1]
           located == IF q.bias < 0 /\ House(q, p) = None /\ p.pc # None
                      THEN SearchOnce(E, x, FALSE, TRUE, FALSE) ELSE <<>>
<1>1. Shaped(x)
  BY DEF Shaped
<1> HIDE DEF x
<1>2. located \in Seq(Versions(D))
  <2>1. SearchOnce(E, x, FALSE, TRUE, FALSE) \in Seq(Versions(D))
    BY <1>1, SearchOnceFound
  <2>2. <<>> \in Seq(Versions(D))
    OBVIOUS
  <2>3. located \in {SearchOnce(E, x, FALSE, TRUE, FALSE), <<>>}
    OBVIOUS
  <2> QED
    BY <2>1, <2>2, <2>3, Zenon
<1>3. DropNumbers(E, q, Parse(q)) \in {<<>>, Around(E, q, located)}
  BY DEF DropNumbers, x
<1> HIDE DEF located
<1>4. Found(Around(E, q, located), D, q)
  BY <1>2, AroundFound
<1> QED
  BY <1>3, <1>4, FoundNothing

\* The rung for a text in two scripts keeps the filters.
LEMMA MixedScriptFound ==
    ASSUME NEW D, Known(D), NEW E \in SUBSET D, NEW q, Shaped(q)
    PROVE  Found(MixedScript(E, q), D, q)
<1> DEFINE latin == SelectSeq(Flat(q.text), LAMBDA t : t \notin NonLatin)
           x == [q EXCEPT !.text = <<latin>>]
<1>1. MixedScript(E, q) \in {<<>>, SearchOnce(E, x, TRUE, TRUE, TRUE)}
  BY DEF MixedScript
<1> HIDE DEF latin
<1>2. Shaped(x) /\ x.limit = q.limit
  BY DEF Shaped
<1>3. Narrows(x, q)
  BY DEF Shaped, Narrows, AddressKind
<1> HIDE DEF x
<1>4. Found(SearchOnce(E, x, TRUE, TRUE, TRUE), D, q)
  BY <1>2, <1>3, RungFound
<1> QED
  BY <1>1, <1>4, FoundNothing

\* The rungs of a text without a comma keep the filters.
LEMMA ShortLadderFound ==
    ASSUME NEW D, Known(D), NEW E \in SUBSET D, NEW q, Shaped(q)
    PROVE  Found(ShortLadder(E, q), D, q)
<1>1. Found(RegionSuffix(E, q), D, q) /\ Found(BarePostcode(E, q), D, q) /\ Found(SearchStrict(E, q), D, q)
  BY RegionSuffixFound, BarePostcodeFound, SearchStrictFound
<1>2. q.pc = None => Found(KeepHouse(E, q, Parse(q)), D, q) /\ Found(DropNumbers(E, q, Parse(q)), D, q)
  BY KeepHouseFound, DropNumbersFound
<1>3. Found(<<>>, D, q)
  BY FoundNothing
<1> QED
  BY <1>1, <1>2, <1>3 DEF ShortLadder, Or

\* The search for a hint answers with documents.
FindOK(find) == \A x \in DOMAIN find : find[x] \in Seq(Documents)

\* The documents of a world, and what pick takes of them.
DocsOf(w) == UNION {w[x] : x \in DOMAIN w}

\* A shard that is picked holds documents of the index.
LEMMA PickSome ==
    ASSUME NEW w, NEW cc
    PROVE  Pick(w, cc) \in SUBSET DocsOf(w)
<1> DEFINE own == {c \in cc : c \in DOMAIN w}
<1>1. own # {} => (CHOOSE c \in own : TRUE) \in DOMAIN w
  OBVIOUS
<1>2. \A c \in DOMAIN w : w[c] \subseteq DocsOf(w)
  BY DEF DocsOf
<1> QED
  BY <1>1, <1>2 DEF Pick

\* The rung that drops what follows the first comma keeps the filters.
LEMMA DropLocationSuffixFound ==
    ASSUME NEW w, Known(DocsOf(w)), NEW q, Shaped(q), NEW find, FindOK(find)
    PROVE  Found(DropLocationSuffix(w, q, find), DocsOf(w), q)
<1> DEFINE D == DocsOf(w)
           E == Pick(w, q.cc)
           state == IF q.state = <<>> THEN Parse(q).state ELSE q.state
           h == Hint(find, <<q.text[2], state, q.cc>>)
           place == IF q.bias < 0 /\ q.city = <<>> /\ q.text[2] # <<>> THEN h ELSE <<>>
           x == [q EXCEPT !.text = <<q.text[1]>>, !.state = state,
                          !.bias = IF place # <<>> THEN place[1].pos ELSE @]
<1>1. E \in SUBSET D
  BY PickSome
<1>2. h \in Seq(Documents)
  BY DEF Hint, FindOK
<1> HIDE DEF h
<1>3. place \in Seq(Documents)
  BY <1>2
<1> HIDE DEF place
<1>4. place # <<>> => place[1].pos \in Int
  <2>1. place # <<>> => 1 \in 1..Len(place)
    BY <1>3
  <2>2. place # <<>> => place[1] \in Documents
    BY <1>3, <2>1, ElementOfSeq
  <2> QED
    BY <2>2 DEF Documents
<1>5. q.state # <<>> => state = q.state
  OBVIOUS
<1> HIDE DEF state
<1>6. Shaped(x) /\ x.limit = q.limit /\ x.pc = q.pc
  BY <1>4 DEF Shaped
<1>7. Narrows(x, q)
  BY <1>5 DEF Shaped, Narrows, AddressKind
<1>8. \/ DropLocationSuffix(w, q, find) = <<>>
      \/ q.pc = None /\ DropLocationSuffix(w, q, find) = SearchOnce(E, x, FALSE, FALSE, FALSE)
  BY DEF DropLocationSuffix, AtHint, state, place, h
<1> HIDE DEF x
<1>9. q.pc = None => Found(SearchOnce(E, x, FALSE, FALSE, FALSE), D, q)
  BY <1>1, <1>6, <1>7, RungFound
<1> QED
  BY <1>8, <1>9, FoundNothing

\* All rungs together keep the filters.
LEMMA LadderFound ==
    ASSUME NEW w, Known(DocsOf(w)), NEW q, Shaped(q), NEW find, FindOK(find)
    PROVE  Found(Ladder(w, q, find), DocsOf(w), q)
<1>1. Pick(w, q.cc) \in SUBSET DocsOf(w)
  BY PickSome
<1>2. Found(ShortLadder(Pick(w, q.cc), q), DocsOf(w), q) /\ Found(MixedScript(Pick(w, q.cc), q), DocsOf(w), q)
  BY <1>1, ShortLadderFound, MixedScriptFound
<1>3. Found(DropLocationSuffix(w, q, find), DocsOf(w), q)
  BY DropLocationSuffixFound
<1> QED
  BY <1>2, <1>3, FoundNothing DEF Ladder, Or

-----------------------------------------------------------------------------
(* The search over several countries. *)

\* A finite union of finite sets is finite.
LEMMA UnionFinite ==
    ASSUME NEW I, IsFiniteSet(I), NEW f, I \subseteq DOMAIN f, \A i \in I : IsFiniteSet(f[i])
    PROVE  IsFiniteSet(UNION {f[i] : i \in I})
<1>1. IsFiniteSet({f[i] : i \in I})
  BY ImageFinite
<1>2. \A T \in {f[i] : i \in I} : IsFiniteSet(T)
  OBVIOUS
<1> QED
  BY <1>1, <1>2, FS_UNION

\* A page of hits in some order.
LEMMA OrderedFound ==
    ASSUME NEW D, Known(D), NEW q, NEW S \in SUBSET Versions(D), IsFiniteSet(S), \A d \in S : Meets(d, q),
           NEW key, NEW m \in Nat, \A d \in S : key[d] \in Seq(Int) /\ Len(key[d]) = m,
           NEW n \in Nat, n <= Limit(q), Limit(q) \in Nat
    PROVE  Found(Truncate(Ordered(S, key), n), D, q) /\ Truncate(Ordered(S, key), n) \in Seq(S)
<1> DEFINE o == Ordered(S, key)
           t == Truncate(o, n)
<1>1. o \in Seq(S)
  BY OrderedHits
<1> HIDE DEF o
<1>2. t \in Seq(S) /\ Len(t) <= n
  BY <1>1, TruncateSome
<1> HIDE DEF t
<1>3. t \in Seq(Versions(D)) /\ Len(t) \in Nat
  BY <1>2, SeqMonotonic
<1>4. \A i \in 1..Len(t) : t[i] \in S
  BY <1>2
<1>5. Found(t, D, q)
  BY <1>2, <1>3, <1>4 DEF Found
<1> QED
  BY <1>2, <1>5 DEF t, o

\* The hits of a narrower query as a set.
LEMMA FoundSet ==
    ASSUME NEW D, NEW q, NEW x, NEW s, Found(s, D, x), Narrows(x, q)
    PROVE  /\ ToSet(s) \subseteq Versions(D) /\ IsFiniteSet(ToSet(s))
           /\ \A d \in ToSet(s) : Meets(d, x) /\ Meets(d, q)
<1>1. s \in Seq(Versions(D))
  BY DEF Found
<1>2. ToSet(s) \subseteq Versions(D) /\ IsFiniteSet(ToSet(s))
  BY <1>1, ToSetFinite
<1>3. \A d \in ToSet(s) : Meets(d, x)
  BY <1>1 DEF Found, ToSet
<1> QED
  BY <1>2, <1>3, NarrowerMeets

\* The countries searched are finitely many, and among those asked for.
Searches(q, cs) == IsFiniteSet(cs) /\ (q.cc # {} => cs \subseteq q.cc)

\* Every reading of a region is a narrower query, and there are finitely many.
LEMMA RegionReadingsNarrow ==
    ASSUME NEW q, Shaped(q), Bare(q), NEW cs, Searches(q, cs)
    PROVE  /\ IsFiniteSet(RegionReadings(q, cs))
           /\ \A x \in RegionReadings(q, cs) : Shaped(x) /\ Narrows(x, q)
<1> DEFINE region == Last(q.text)
           base == [q EXCEPT !.text = Front(@), !.kind = "place", !.limit = IF @ < 10 THEN 10 ELSE Limit(q)]
           ds == {x \in cs : region = <<x>>}
           f == [c \in cs |-> [base EXCEPT !.state = StateName(c, region), !.cc = {c}]]
           g == [c \in ds |-> [base EXCEPT !.cc = {c}]]
<1>1. Shaped(base)
  <2>1. Limit(q) \in Nat
    BY LimitType
  <2>2. (IF q.limit < 10 THEN 10 ELSE Limit(q)) \in Nat
    BY <2>1
  <2> DEFINE l == IF q.limit < 10 THEN 10 ELSE Limit(q)
  <2> HIDE DEF l
  <2>3. base = [q EXCEPT !.text = Front(@), !.kind = "place", !.limit = l]
    BY DEF l
  <2> HIDE DEF base
  <2> QED
    BY <2>2, <2>3 DEF Shaped, l
<1>2. RegionReadings(q, cs) = {f[c] : c \in cs} \cup {g[c] : c \in ds}
  BY DEF RegionReadings
<1>30. cs \subseteq DOMAIN f /\ ds \subseteq DOMAIN g
  OBVIOUS
<1>4. IsFiniteSet(cs) /\ IsFiniteSet(ds)
  BY FS_Subset DEF Searches
<1>5. IsFiniteSet({f[c] : c \in cs}) /\ IsFiniteSet({g[c] : c \in ds})
  <2> HIDE DEF f, g, ds
  <2> QED
    BY <1>30, <1>4, ImageFinite
<1>6. base.pc = q.pc
  BY DEF Shaped
<1>7. \A c \in cs : Shaped(f[c]) /\ Narrows(f[c], q)
  <2> TAKE c \in cs
  <2> HIDE DEF base
  <2>1. Shaped([base EXCEPT !.state = StateName(c, region), !.cc = {c}])
    BY <1>1 DEF Shaped
  <2>2. Narrows([base EXCEPT !.state = StateName(c, region), !.cc = {c}], q)
    BY <1>1 DEF Narrows, Shaped, Bare, Searches
  <2> QED
    BY <2>1, <2>2
<1>8. \A c \in ds : Shaped(g[c]) /\ Narrows(g[c], q)
  <2> TAKE c \in ds
  <2> HIDE DEF base
  <2>1. Shaped([base EXCEPT !.cc = {c}])
    BY <1>1 DEF Shaped
  <2>2. Narrows([base EXCEPT !.cc = {c}], q)
    BY <1>1 DEF Narrows, Shaped, Bare, Searches
  <2> QED
    BY <2>1, <2>2
<1>9. IsFiniteSet({f[c] : c \in cs} \cup {g[c] : c \in ds})
  BY <1>5, FS_Union
<1> QED
  BY <1>2, <1>7, <1>8, <1>9

\* Places of a region meet the filters of the query.
LEMMA RegionPlacesFound ==
    ASSUME NEW w, Known(DocsOf(w)), NEW q, Shaped(q), NEW cs, Searches(q, cs), NEW find, FindOK(find)
    PROVE  Found(RegionPlaces(w, q, cs, find), DocsOf(w), q)
<1> DEFINE D == DocsOf(w)
           X == RegionReadings(q, cs)
           f == [x \in X |-> {d \in ToSet(Ladder(w, x, find)) : d.name = Flat(x.text) /\ x.state \in {<<>>, d.state}}]
           S == UNION {f[x] : x \in X}
           key == [d \in S |-> <<IF d.rank = 16 THEN 1 ELSE 0, d.imp, d.score>>]
<1>1. CASE Bare(q)
  <2>1. IsFiniteSet(X) /\ \A x \in X : Shaped(x) /\ Narrows(x, q)
    BY <1>1, RegionReadingsNarrow
  <2>2. \A x \in X : /\ ToSet(Ladder(w, x, find)) \subseteq Versions(D) /\ IsFiniteSet(ToSet(Ladder(w, x, find)))
                     /\ \A d \in ToSet(Ladder(w, x, find)) : Meets(d, q)
    BY <2>1, LadderFound, FoundSet
  <2>3. \A x \in X : f[x] \subseteq Versions(D) /\ IsFiniteSet(f[x]) /\ \A d \in f[x] : Meets(d, q)
    BY <2>2, FS_Subset
  <2>4. X \subseteq DOMAIN f
    OBVIOUS
  <2>5. RegionPlaces(w, q, cs, find) \in {<<>>, ByProminence(S, q)}
    BY DEF RegionPlaces
  <2> HIDE DEF f
  <2>6. S \in SUBSET Versions(D) /\ \A d \in S : Meets(d, q)
    BY <2>3
  <2>7. IsFiniteSet(S)
    BY <2>1, <2>3, <2>4, UnionFinite
  <2> HIDE DEF S
  <2>8. \A d \in S : key[d] \in Seq(Int) /\ Len(key[d]) = 3
    BY <2>6 DEF Versions, Documents
  <2>9. ByProminence(S, q) = Truncate(Ordered(S, key), Limit(q))
    BY DEF ByProminence
  <2> HIDE DEF key
  <2>10. Limit(q) \in Nat
    BY LimitType
  <2>11. Found(Truncate(Ordered(S, key), Limit(q)), D, q)
    <3>1. Limit(q) <= Limit(q) /\ 3 \in Nat
      BY <2>10
    <3> QED
      BY <2>6, <2>7, <2>8, <2>10, <3>1, OrderedFound
  <2> QED
    BY <2>5, <2>9, <2>11, FoundNothing
<1>2. CASE ~Bare(q)
  BY <1>2, FoundNothing DEF RegionPlaces
<1> QED
  BY <1>1, <1>2

\* Hits at the most prominent place of a name meet the filters of the query.
LEMMA NearPlaceFound ==
    ASSUME NEW w, Known(DocsOf(w)), NEW q, Shaped(q), Bare(q), NEW cs, Searches(q, cs),
           NEW find, FindOK(find), NEW places \in SUBSET Versions(DocsOf(w)), IsFiniteSet(places),
           \A d \in places : d.cc \in cs
    PROVE  Found(NearPlace(w, q, places, find), DocsOf(w), q)
<1> DEFINE D == DocsOf(w)
           key == [d \in places |-> <<d.imp, BoostedScore(d, -1)>>]
           o == Ordered(places, key)
           place == o[1]
           x == [q EXCEPT !.cc = {place.cc}, !.bias = place.pos]
<1>1. CASE places = {}
  BY <1>1, FoundNothing DEF NearPlace
<1>2. CASE places # {}
  <2>1. \A d \in places : key[d] \in Seq(Int) /\ Len(key[d]) = 2
    <3> TAKE d \in places
    <3>1. d \in Documents
      BY DEF Versions
    <3>2. BoostedScore(d, -1) \in Int
      <4>1. -1 \in Int /\ TRUE \in BOOLEAN
        OBVIOUS
      <4> QED
        BY <3>1, <4>1, ScoresAreIntegers
    <3>3. d.imp \in Int
      BY <3>1 DEF Documents
    <3> QED
      BY <3>2, <3>3
  <2>2. NearPlace(w, q, places, find) = Ladder(w, x, find)
    BY <1>2 DEF NearPlace
  <2> HIDE DEF key
  <2>3. o \in Seq(places) /\ Len(o) = Cardinality(places)
    BY <2>1, OrderedHits
  <2>4. Cardinality(places) \in Nat /\ Cardinality(places) # 0
    BY <1>2, FS_CardinalityType, FS_EmptySet
  <2> HIDE DEF o
  <2>5. 1 \in 1..Len(o)
    BY <2>3, <2>4
  <2>6. place \in places
    BY <2>3, <2>5, ElementOfSeq
  <2> HIDE DEF place
  <2>7. place.pos \in Int /\ place.cc \in cs
    BY <2>6 DEF Versions, Documents
  <2>8. Shaped(x) /\ x.limit = q.limit
    BY <2>7 DEF Shaped
  <2>9. Narrows(x, q)
    BY <2>7 DEF Shaped, Narrows, Bare, Searches
  <2> HIDE DEF x
  <2>10. Found(Ladder(w, x, find), D, x)
    BY <2>8, LadderFound
  <2>11. Limit(x) = Limit(q)
    BY <2>8 DEF Limit
  <2> DEFINE s == Ladder(w, x, find)
  <2> HIDE DEF s
  <2>12. Found(s, D, q)
    BY <2>9, <2>10, <2>11, NarrowerMeets DEF Found, s
  <2> QED
    BY <2>2, <2>12 DEF s
<1> QED
  BY <1>1, <1>2

\* A street that is looked for in a locality meets the filters of the query.
LEMMA StreetInLocalityFound ==
    ASSUME NEW w, Known(DocsOf(w)), NEW q, Shaped(q), NEW cs, Searches(q, cs), NEW find, FindOK(find)
    PROVE  Found(StreetInLocality(w, q, cs, find), DocsOf(w), q)
<1> DEFINE D == DocsOf(w)
           x(c) == [NoQuery EXCEPT !.text = <<Last(q.text)>>, !.cc = {c}, !.kind = "place"]
           f == [c \in cs |-> {d \in ToSet(Ladder(w, x(c), find)) : d.name = Last(q.text)}]
           S == UNION {f[c] : c \in cs}
<1>1. CASE Bare(q)
  <2>1. \A c \in cs : Shaped(x(c)) /\ x(c).cc = {c} /\ Narrows(x(c), x(c))
    BY NoQueryShaped DEF Shaped, Narrows
  <2>2. StreetInLocality(w, q, cs, find) \in {<<>>, NearPlace(w, q, S, find)}
    BY DEF StreetInLocality
  <2> HIDE DEF x
  <2>3. \A c \in cs : /\ ToSet(Ladder(w, x(c), find)) \subseteq Versions(D) /\ IsFiniteSet(ToSet(Ladder(w, x(c), find)))
                      /\ \A d \in ToSet(Ladder(w, x(c), find)) : Meets(d, x(c))
    <3> TAKE c \in cs
    <3>1. Found(Ladder(w, x(c), find), D, x(c))
      BY <2>1, LadderFound
    <3> QED
      BY <2>1, <3>1, FoundSet
  <2>4. \A c \in cs : f[c] \subseteq Versions(D) /\ IsFiniteSet(f[c]) /\ \A d \in f[c] : d.cc = c
    <3> TAKE c \in cs
    <3>1. f[c] \subseteq ToSet(Ladder(w, x(c), find))
      OBVIOUS
    <3>2. \A d \in f[c] : d.cc \in x(c).cc
      BY <2>1, <2>3, <3>1 DEF Meets
    <3> QED
      BY <2>1, <2>3, <3>1, <3>2, FS_Subset
  <2>5. cs \subseteq DOMAIN f /\ IsFiniteSet(cs)
    BY DEF Searches
  <2> HIDE DEF f
  <2>6. S \in SUBSET Versions(D) /\ \A d \in S : d.cc \in cs
    BY <2>4
  <2>7. IsFiniteSet(S)
    BY <2>4, <2>5, UnionFinite
  <2> HIDE DEF S
  <2>8. Found(NearPlace(w, q, S, find), D, q)
    BY <1>1, <2>6, <2>7, NearPlaceFound
  <2> QED
    BY <2>2, <2>8, FoundNothing
<1>2. CASE ~Bare(q)
  BY <1>2, FoundNothing DEF StreetInLocality
<1> QED
  BY <1>1, <1>2

\* The query in one of its countries.
LEMMA OneCountry ==
    ASSUME NEW q, Shaped(q), NEW cs, Searches(q, cs), NEW c \in cs
    PROVE  Shaped([q EXCEPT !.cc = {c}]) /\ Narrows([q EXCEPT !.cc = {c}], q)
<1>1. Shaped([q EXCEPT !.cc = {c}])
  BY DEF Shaped
<1>2. Narrows([q EXCEPT !.cc = {c}], q)
  BY DEF Shaped, Narrows, Searches, AddressKind
<1> QED
  BY <1>1, <1>2

\* The hits of all shards together meet the filters, and are finitely many.
LEMMA FanoutHitsFound ==
    ASSUME NEW w, Known(DocsOf(w)), NEW q, Shaped(q), NEW cs, Searches(q, cs), NEW find, FindOK(find)
    PROVE  /\ FanoutHits(w, q, cs, find) \subseteq Versions(DocsOf(w)) /\ IsFiniteSet(FanoutHits(w, q, cs, find))
           /\ \A d \in FanoutHits(w, q, cs, find) : Meets(d, q)
<1> DEFINE D == DocsOf(w)
           x(c) == [q EXCEPT !.cc = {c}]
           f == [c \in cs |-> ToSet(SearchStrict(Pick(w, {c}), x(c)))]
           g == [c \in cs |-> ToSet(Ladder(w, x(c), find))]
           S == UNION {f[c] : c \in cs}
           T == UNION {g[c] : c \in cs}
<1>1. FanoutHits(w, q, cs, find) \in {S, T}
  BY DEF FanoutHits, OrElse
<1>2. \A c \in cs : Shaped(x(c)) /\ Narrows(x(c), q)
  BY OneCountry
<1> HIDE DEF x
<1>3. \A c \in cs : f[c] \subseteq Versions(D) /\ IsFiniteSet(f[c]) /\ \A d \in f[c] : Meets(d, q)
  <2> TAKE c \in cs
  <2>1. Pick(w, {c}) \in SUBSET D
    BY PickSome
  <2>2. Found(SearchStrict(Pick(w, {c}), x(c)), D, x(c))
    BY <1>2, <2>1, SearchStrictFound
  <2> QED
    BY <1>2, <2>2, FoundSet
<1>4. \A c \in cs : g[c] \subseteq Versions(D) /\ IsFiniteSet(g[c]) /\ \A d \in g[c] : Meets(d, q)
  <2> TAKE c \in cs
  <2>1. Found(Ladder(w, x(c), find), D, x(c))
    BY <1>2, LadderFound
  <2> QED
    BY <1>2, <2>1, FoundSet
<1>5. cs \subseteq DOMAIN f /\ cs \subseteq DOMAIN g /\ IsFiniteSet(cs)
  BY DEF Searches
<1> HIDE DEF f, g
<1>6. IsFiniteSet(S) /\ IsFiniteSet(T)
  BY <1>3, <1>4, <1>5, UnionFinite
<1>7. S \subseteq Versions(D) /\ (\A d \in S : Meets(d, q)) /\ T \subseteq Versions(D) /\ \A d \in T : Meets(d, q)
  BY <1>3, <1>4
<1> HIDE DEF S, T
<1> QED
  BY <1>1, <1>6, <1>7

\* Merging sorts and cuts such hits.
LEMMA MergedFound ==
    ASSUME NEW D, Known(D), NEW q, Shaped(q), NEW S \in SUBSET Versions(D), IsFiniteSet(S),
           \A d \in S : Meets(d, q)
    PROVE  Found(Merged(S, q), D, q)
<1> DEFINE key == [d \in S |-> MergeKey(d, q)]
           m == IF q.bias >= 0 THEN 4 ELSE 6
<1>1. q.bias \in Int /\ m \in Nat
  BY DEF Shaped
<1>2. \A d \in S : key[d] \in Seq(Int) /\ Len(key[d]) = m
  <2> TAKE d \in S
  <2> DEFINE exactPlace == q.bias < 0 /\ q.house = None /\ q.pc = None /\ q.street = <<>>
             digit == Flat(q.text) # <<>> /\ Flat(q.text)[1] \in Houses \cup Postcodes
             aliased == exactPlace /\ (IsAliasedPlace(d, q.text) \/ HasShortName(d, q.text))
             full == IF aliased THEN 3 ELSE Explains(d, Flat(q.text))
             prominence == IF exactPlace /\ d.kind = "place" /\ (aliased \/ d.name = Flat(q.text))
                           THEN d.imp ELSE 0
             address == (q.house # None \/ digit) /\ q.bias < 0 /\ d.kind = "address"
             first == IF address THEN 1 ELSE 0
             imp == IF full = 0 THEN 0 ELSE d.imp
             a == <<first, full, prominence, RankingKey(d, q.bias, full = 3)>>
             b == <<first, full, prominence, d.ci, imp, BoostedScore(d, -1)>>
  <2>1. d \in Documents /\ d.imp \in Int /\ d.ci \in Int
    BY DEF Versions, Documents
  <2>2. MergeKey(d, q) = IF q.bias >= 0 THEN a ELSE b
    BY DEF MergeKey
  <2>3. full \in Int
    BY DEF Explains
  <2>4. first \in Int /\ prominence \in Int /\ imp \in Int
    BY <2>1
  <2>5. RankingKey(d, q.bias, full = 3) \in Int /\ BoostedScore(d, -1) \in Int
    <3>1. -1 \in Int /\ (full = 3) \in BOOLEAN
      OBVIOUS
    <3> QED
      BY <1>1, <2>1, <3>1, ScoresAreIntegers
  <2> HIDE DEF first, full, prominence, imp
  <2>6. a \in Seq(Int) /\ Len(a) = 4 /\ b \in Seq(Int) /\ Len(b) = 6
    BY <2>1, <2>3, <2>4, <2>5
  <2> HIDE DEF a, b
  <2> QED
    BY <2>2, <2>6
<1>3. Merged(S, q) = Truncate(Ordered(S, key), Limit(q))
  BY DEF Merged
<1> HIDE DEF key, m
<1>4. Limit(q) \in Nat /\ Limit(q) <= Limit(q)
  BY LimitType
<1>5. Found(Truncate(Ordered(S, key), Limit(q)), D, q)
  BY <1>1, <1>2, <1>4, OrderedFound
<1> QED
  BY <1>3, <1>5

\* The fan-out over the shards keeps the filters.
LEMMA FanoutFound ==
    ASSUME NEW w, Known(DocsOf(w)), NEW q, Shaped(q), NEW cs, Searches(q, cs), NEW find, FindOK(find)
    PROVE  Found(Fanout(w, q, cs, find), DocsOf(w), q)
<1> DEFINE ks == KnownCountries(w, q, cs)
           H == FanoutHits(w, q, ks, find)
<1>1. ks \subseteq cs
  BY DEF KnownCountries, OrElse
<1> HIDE DEF ks
<1>2. Searches(q, ks)
  BY <1>1, FS_Subset DEF Searches
<1>3. H \subseteq Versions(DocsOf(w)) /\ IsFiniteSet(H) /\ \A d \in H : Meets(d, q)
  BY <1>2, FanoutHitsFound
<1> HIDE DEF H
<1>4. Found(Merged(H, q), DocsOf(w), q)
  BY <1>3, MergedFound
<1>5. Found(RegionPlaces(w, q, cs, find), DocsOf(w), q) /\ Found(StreetInLocality(w, q, cs, find), DocsOf(w), q)
  BY RegionPlacesFound, StreetInLocalityFound
<1>6. Fanout(w, q, cs, find) \in {RegionPlaces(w, q, cs, find), StreetInLocality(w, q, cs, find), Merged(H, q)}
  BY DEF Fanout, Or, H, ks
<1> QED
  BY <1>4, <1>5, <1>6

\* What the server has open.
Open(w) == Known(DocsOf(w)) /\ IsFiniteSet(DOMAIN w)

\* A query of a handler, or one made from it.
Asked(q) == Shaped(q) /\ IsFiniteSet(q.cc) /\ q.limit <= 50

\* The search for one reading of a text keeps the filters.
LEMMA InnerFound ==
    ASSUME NEW w, Open(w), NEW q, Asked(q), NEW find, FindOK(find)
    PROVE  Found(Inner(w, q, find), DocsOf(w), q)
<1> DEFINE cs == IF q.cc = {} THEN DOMAIN w ELSE q.cc
<1>1. Searches(q, cs)
  BY DEF Searches, Open, Asked
<1>2. Inner(w, q, find) \in {Fanout(w, q, cs, find), Ladder(w, q, find)}
  BY DEF Inner
<1> HIDE DEF cs
<1>3. Found(Fanout(w, q, cs, find), DocsOf(w), q) /\ Found(Ladder(w, q, find), DocsOf(w), q)
  BY <1>1, FanoutFound, LadderFound DEF Open, Asked
<1> QED
  BY <1>2, <1>3

\* The readings of a query ask for no less than it.
LEMMA ReadingsNarrow ==
    ASSUME NEW q, Asked(q), NEW s
    PROVE  /\ Readings(q, s) # {} /\ IsFiniteSet(Readings(q, s))
           /\ \A x \in Readings(q, s) : Asked(x) /\ x.limit = q.limit /\ Narrows(x, q)
<1> DEFINE a == [q EXCEPT !.text = WithoutLast(@), !.cc = {"CA"}]
           b == [q EXCEPT !.cc = {"US"}]
           c == [q EXCEPT !.text = s.body, !.cc = {s.cc}]
<1>1. \A y : IsFiniteSet({y})
  BY FS_Singleton
<1>2. Asked(a) /\ a.limit = q.limit /\ (BothReadings(q) => Narrows(a, q))
  BY <1>1 DEF Asked, Shaped, Narrows, BothReadings, AddressKind
<1>3. Asked(b) /\ b.limit = q.limit /\ (BothReadings(q) => Narrows(b, q))
  BY <1>1 DEF Asked, Shaped, Narrows, BothReadings, AddressKind
<1>4. Asked(c) /\ c.limit = q.limit /\ (q.cc = {} \/ s.cc \in q.cc => Narrows(c, q))
  BY <1>1 DEF Asked, Shaped, Narrows, AddressKind
<1>5. Narrows(q, q)
  BY DEF Narrows
<1>6. \/ BothReadings(q) /\ Readings(q, s) = {a, b}
      \/ (q.cc = {} \/ s.cc \in q.cc) /\ Readings(q, s) = {c}
      \/ Readings(q, s) = {q}
  BY DEF Readings
<1> HIDE DEF a, b, c
<1>7. IsFiniteSet({a, b})
  <2>1. IsFiniteSet({a}) /\ IsFiniteSet({b}) /\ {a, b} = {a} \cup {b}
    BY <1>1
  <2> QED
    BY <2>1, FS_Union
<1> QED
  BY <1>1, <1>2, <1>3, <1>4, <1>5, <1>6, <1>7

\* So does the search for all readings, with or without the country at its end.
LEMMA SearchInnerFound ==
    ASSUME NEW w, Open(w), NEW q, Asked(q), NEW find, FindOK(find)
    PROVE  Found(SearchInner(w, q, find), DocsOf(w), q)
<1> DEFINE D == DocsOf(w)
           X == Readings(q, CountrySuffix(q, q.cc))
           f == [x \in X |-> Inner(w, x, find)]
           A == {f[x] : x \in X}
           g == [a \in A |-> ToSet(a)]
           S == UNION {g[a] : a \in A}
           key == [d \in S |-> <<BoostedScore(d, q.bias)>>]
<1>1. X # {} /\ IsFiniteSet(X) /\ \A x \in X : Asked(x) /\ x.limit = q.limit /\ Narrows(x, q)
  BY ReadingsNarrow
<1>2. SearchInner(w, q, find) = Joined(A, q)
  BY DEF SearchInner
<1> HIDE DEF X
<1>3. \A x \in X : Found(f[x], D, x)
  BY <1>1, InnerFound
<1>4. X \subseteq DOMAIN f
  OBVIOUS
<1> HIDE DEF f
<1>5. \A x \in X : /\ Found(f[x], D, q) /\ ToSet(f[x]) \subseteq Versions(D) /\ IsFiniteSet(ToSet(f[x]))
                   /\ \A d \in ToSet(f[x]) : Meets(d, q)
  <2> TAKE x \in X
  <2>1. ToSet(f[x]) \subseteq Versions(D) /\ IsFiniteSet(ToSet(f[x])) /\ \A d \in ToSet(f[x]) : Meets(d, q)
    BY <1>1, <1>3, FoundSet
  <2>2. Limit(x) = Limit(q)
    BY <1>1 DEF Limit
  <2>3. Found(f[x], D, q)
    BY <1>1, <1>3, <2>2, NarrowerMeets DEF Found
  <2> QED
    BY <2>1, <2>3
<1>6. A # {} /\ IsFiniteSet(A)
  BY <1>1, <1>4, ImageFinite
<1>7. \A a \in A : /\ Found(a, D, q) /\ g[a] \subseteq Versions(D) /\ IsFiniteSet(g[a])
                   /\ \A d \in g[a] : Meets(d, q)
  BY <1>5
<1>8. A \subseteq DOMAIN g /\ S = UNION {ToSet(a) : a \in A}
  OBVIOUS
<1> HIDE DEF A, g
<1>9. S \in SUBSET Versions(D) /\ \A d \in S : Meets(d, q)
  BY <1>7
<1>10. IsFiniteSet(S)
  BY <1>6, <1>7, <1>8, UnionFinite
<1> HIDE DEF S
<1>11. \A d \in S : key[d] \in Seq(Int) /\ Len(key[d]) = 1
  <2> TAKE d \in S
  <2>1. d \in Documents /\ q.bias \in Int /\ TRUE \in BOOLEAN
    BY <1>9 DEF Versions, Asked, Shaped
  <2>2. BoostedScore(d, q.bias) \in Int
    BY <2>1, ScoresAreIntegers
  <2> QED
    BY <2>2
<1>12. Joined(A, q) = IF BothReadings(q) THEN Truncate(Ordered(S, key), q.limit) ELSE CHOOSE a \in A : TRUE
  BY <1>8 DEF Joined
<1> HIDE DEF key
<1>13. q.limit \in Nat /\ q.limit <= Limit(q) /\ Limit(q) \in Nat
  BY DEF Limit, Min2, Asked, Shaped
<1>14. Found(Truncate(Ordered(S, key), q.limit), D, q)
  <2>1. 1 \in Nat /\ Known(D)
    BY DEF Open
  <2> QED
    BY <1>9, <1>10, <1>11, <1>13, <2>1, OrderedFound
<1>15. Found((CHOOSE a \in A : TRUE), D, q)
  BY <1>6, <1>7
<1> QED
  BY <1>2, <1>12, <1>14, <1>15

-----------------------------------------------------------------------------
(* Repair of whitespace. *)

\* What a repair answers: versions of one address, which has every field that is
\* asked for.
Repairs(s, D, q) ==
    /\ s \in Seq(Versions(D)) /\ Len(s) <= Limit(q)
    /\ \A i, j \in 1..Len(s) : /\ RequestedAddressMatches(q, s[i], <<>>)
                               /\ SameRepairedAddress(s[i], s[j])

\* The query x asks for every field of an address that q asks for.
Agrees(x, q) ==
    /\ q.house # None => x.house = q.house
    /\ q.city # <<>> => x.city = q.city
    /\ q.state # <<>> => x.state = q.state
    /\ q.cc # {} => x.cc = q.cc
    /\ q.unit # None => x.unit = q.unit
    /\ q.pc # None => x.pc = q.pc

\* A hit that is the address of a reading is the address of the query.
LEMMA RequestedAgrees ==
    ASSUME NEW x, NEW q, Agrees(x, q), NEW d, NEW s, RequestedAddressMatches(x, d, s)
    PROVE  RequestedAddressMatches(q, d, <<>>)
BY DEF RequestedAddressMatches, Agrees

\* The address of a query meets its filters.
LEMMA RequestedMeets ==
    ASSUME NEW q, AddressKind(q), NEW d, RequestedAddressMatches(q, d, <<>>)
    PROVE  Meets(d, q)
<1>1. ToSet(<<>>) = {}
  BY DEF ToSet
<1>2. ToSet(q.city) \subseteq Localities(d) /\ ToSet(q.state) \subseteq ToSet(d.state)
  BY <1>1 DEF RequestedAddressMatches, Localities
<1> QED
  BY <1>2 DEF RequestedAddressMatches, Meets, AddressKind

\* No hits at all are a repair of any query.
LEMMA RepairsNothing ==
    ASSUME NEW D, NEW q, Shaped(q)
    PROVE  Repairs(<<>>, D, q)
BY LimitType DEF Repairs

\* Documents without their scores are as many as documents.
LEMMA PlainVersions ==
    ASSUME NEW D, Known(D)
    PROVE  /\ {Plain(e) : e \in Versions(D)} \subseteq Versions(D)
           /\ IsFiniteSet({Plain(e) : e \in Versions(D)})
           /\ \A e \in Versions(D) : SameFields(Plain(e), e)
<1> DEFINE f == [d \in D |-> Plain(d)]
<1>1. \A e \in Documents : Plain(e) \in Documents /\ SameFields(Plain(e), e)
  BY DEF Plain, Documents, SameFields
<1>2. \A e \in Versions(D) : Plain(e) \in Versions(D)
  <2> TAKE e \in Versions(D)
  <2>1. e \in Documents /\ Plain(e) \in Documents
    BY <1>1 DEF Versions
  <2>2. Plain(Plain(e)) = Plain(e)
    BY <1>1, <2>1, PlainFields
  <2>3. PICK d \in D : Plain(e) = Plain(d)
    BY DEF Versions
  <2> QED
    BY <2>1, <2>2, <2>3 DEF Versions
<1>3. {Plain(e) : e \in Versions(D)} \subseteq {f[d] : d \in D}
  BY DEF Versions
<1>4. D \subseteq DOMAIN f /\ IsFiniteSet(D)
  BY DEF Known
<1> HIDE DEF f
<1>5. IsFiniteSet({f[d] : d \in D})
  BY <1>4, ImageFinite
<1>6. IsFiniteSet({Plain(e) : e \in Versions(D)})
  BY <1>3, <1>5, FS_Subset
<1>7. \A e \in Versions(D) : SameFields(Plain(e), e)
  BY <1>1 DEF Versions
<1> QED
  BY <1>2, <1>6, <1>7

\* Hits that are one address and the requested one are a repair.
LEMMA OneAddressRepairs ==
    ASSUME NEW D, Known(D), NEW q, Asked(q),
           NEW hits \in SUBSET {Plain(e) : e \in Versions(D)},
           \A d \in hits : RequestedAddressMatches(q, d, <<>>)
    PROVE  Repairs(OneAddress(hits, q), D, q)
<1> DEFINE key == [d \in hits |-> <<0>>]
           o == Ordered(hits, key)
           t == Truncate(o, q.limit)
<1>1. CASE \E d, e \in hits : ~SameRepairedAddress(d, e)
  BY <1>1, RepairsNothing DEF OneAddress, Asked
<1>2. CASE \A d, e \in hits : SameRepairedAddress(d, e)
  <2>1. hits \in SUBSET Versions(D) /\ IsFiniteSet(hits)
    BY PlainVersions, FS_Subset
  <2>2. \A d \in hits : key[d] \in Seq(Int) /\ Len(key[d]) = 1
    OBVIOUS
  <2>3. OneAddress(hits, q) = t
    BY <1>2 DEF OneAddress
  <2> HIDE DEF key
  <2>4. o \in Seq(hits)
    BY <2>1, <2>2, OrderedHits
  <2> HIDE DEF o
  <2>5. q.limit \in Nat /\ Limit(q) \in Nat /\ q.limit <= Limit(q)
    BY DEF Asked, Shaped, Limit, Min2
  <2>6. t \in Seq(hits) /\ Len(t) <= q.limit
    BY <2>4, <2>5, TruncateSome
  <2> HIDE DEF t
  <2>7. t \in Seq(Versions(D)) /\ Len(t) \in Nat
    BY <2>1, <2>6, SeqMonotonic
  <2>8. \A i \in 1..Len(t) : t[i] \in hits
    BY <2>6
  <2>9. Repairs(t, D, q)
    BY <1>2, <2>5, <2>6, <2>7, <2>8 DEF Repairs
  <2> QED
    BY <2>3, <2>9
<1> QED
  BY <1>1, <1>2

\* The fields of an address are those of its versions.
LEMMA RequestedSame ==
    ASSUME NEW d, NEW e, SameFields(d, e), NEW q, NEW s, RequestedAddressMatches(q, e, s)
    PROVE  RequestedAddressMatches(q, d, s)
BY DEF SameFields, RequestedAddressMatches

\* A set of hits is repaired by those that have every field asked for.
LEMMA PlainHitsRepair ==
    ASSUME NEW D, Known(D), NEW q, Asked(q), NEW hits,
           \A h \in hits : \E e \in Versions(D) : h = Plain(e) /\ RequestedAddressMatches(q, e, <<>>)
    PROVE  Repairs(OneAddress(hits, q), D, q)
<1>1. \A h \in hits : h \in {Plain(e) : e \in Versions(D)} /\ RequestedAddressMatches(q, h, <<>>)
  <2> TAKE h \in hits
  <2>1. PICK e \in Versions(D) : h = Plain(e) /\ RequestedAddressMatches(q, e, <<>>)
    OBVIOUS
  <2>2. SameFields(h, e)
    BY <2>1, PlainVersions
  <2> QED
    BY <2>1, <2>2, RequestedSame
<1> QED
  BY <1>1, OneAddressRepairs

\* The repair of a street is one.
LEMMA RepairStreetRepairs ==
    ASSUME NEW w, Open(w), NEW q, Asked(q), NEW original
    PROVE  Repairs(RepairStreet(w, q, original), DocsOf(w), q)
<1> DEFINE D == DocsOf(w)
           E == Pick(w, q.cc)
           cands == WhitespaceCandidates(E, q.street)
           x(s) == [q EXCEPT !.street = s, !.kind = "address", !.limit = Page]
           found == [s \in cands |-> SearchStrict(E, x(s))]
           good == {s \in DOMAIN found : found[s] # <<>> /\ RequestedAddressMatches(q, found[s][1], s)}
           hits == UNION {{Plain(d) : d \in {y \in ToSet(found[s]) : RequestedAddressMatches(q, y, s)}} : s \in good}
<1>1. RepairStreet(w, q, original) \in {<<>>, OneAddress(hits, q)}
  BY DEF RepairStreet, TryCandidates, RepairedBy
<1> HIDE DEF cands
<1>2. E \in SUBSET D /\ Known(D)
  BY PickSome DEF Open
<1>3. \A s \in cands : Shaped(x(s))
  BY QueryAssumption DEF Asked, Shaped
<1> HIDE DEF x, E
<1>4. \A s \in cands : ToSet(found[s]) \subseteq Versions(D)
  <2> TAKE s \in cands
  <2>1. Found(SearchStrict(E, x(s)), D, x(s))
    BY <1>2, <1>3, SearchStrictFound
  <2>2. SearchStrict(E, x(s)) \in Seq(Versions(D))
    BY <2>1 DEF Found
  <2> QED
    BY <2>2, ToSetFinite
<1>5. good \subseteq cands
  OBVIOUS
<1> HIDE DEF found, good
<1>6. ASSUME NEW h \in hits PROVE \E e \in Versions(D) : h = Plain(e) /\ RequestedAddressMatches(q, e, <<>>)
  <2>1. PICK s \in good : h \in {Plain(d) : d \in {y \in ToSet(found[s]) : RequestedAddressMatches(q, y, s)}}
    OBVIOUS
  <2>2. PICK e \in ToSet(found[s]) : h = Plain(e) /\ RequestedAddressMatches(q, e, s)
    BY <2>1
  <2>3. RequestedAddressMatches(q, e, <<>>)
    BY <2>2 DEF RequestedAddressMatches
  <2> QED
    BY <1>4, <1>5, <2>2, <2>3
<1> HIDE DEF hits
<1>7. Repairs(OneAddress(hits, q), D, q)
  BY <1>2, <1>6, PlainHitsRepair
<1> QED
  BY <1>1, <1>7, RepairsNothing DEF Asked

\* The repair of the fields of a structured query is one.
LEMMA RepairFieldsRepairs ==
    ASSUME NEW w, Open(w), NEW q, Asked(q), NEW original
    PROVE  Repairs(RepairFields(w, q, original), DocsOf(w), q)
<1>1. RepairFields(w, q, original) \in {<<>>, RepairStreet(w, q, original)}
  BY DEF RepairFields
<1> QED
  BY <1>1, RepairStreetRepairs, RepairsNothing DEF Asked

\* A repair of a query that agrees is a repair.
LEMMA RepairsAgree ==
    ASSUME NEW D, NEW x, NEW q, Agrees(x, q), x.limit = q.limit, NEW s, Repairs(s, D, x)
    PROVE  Repairs(s, D, q)
<1>1. Limit(x) = Limit(q)
  BY DEF Limit
<1>2. \A i \in 1..Len(s) : RequestedAddressMatches(q, s[i], <<>>)
  BY RequestedAgrees DEF Repairs
<1> QED
  BY <1>1, <1>2 DEF Repairs

\* The repair of sections that are read as fields is one.
LEMMA RepairSectionsRepairs ==
    ASSUME NEW w, Open(w), NEW q, Asked(q), NEW original, NEW sections, NEW unit
    PROVE  Repairs(RepairSections(w, q, original, sections, unit), DocsOf(w), q)
<1> DEFINE cc == CHOOSE c \in q.cc : TRUE
           head == sections[1]
           code == IF Len(Last(sections)) = 1 /\ EndsInPostcode(Last(sections), cc) THEN Last(sections)[1] ELSE None
           mid == SubSeq(sections, 2, IF code = None THEN Len(sections) ELSE Len(sections) - 1)
           city == IF mid = <<>> THEN <<>> ELSE mid[1]
           state == IF Len(mid) < 2 THEN <<>> ELSE StateName(cc, mid[2])
           number == HeadHouse(head)
           x == [q EXCEPT !.text = <<>>, !.street = Tail(head), !.house = number,
                          !.unit = Kept(@, unit, None),
                          !.city = Kept(@, city, <<>>), !.state = Kept(@, state, <<>>),
                          !.pc = Kept(@, code, None)]
           s == RepairSections(w, q, original, sections, unit)
<1>1. s = <<>> \/ (q.house \in {None, number} /\ s = RepairFields(w, x, original))
  BY DEF RepairSections
<1> HIDE DEF cc, head, code, mid, city, state, number, s
<1>2. Asked(x) /\ x.limit = q.limit
  BY DEF Asked, Shaped
<1>3. q.house \in {None, number} => Agrees(x, q)
  BY DEF Asked, Shaped, Agrees, Kept
<1> HIDE DEF x
<1>4. Repairs(RepairFields(w, x, original), DocsOf(w), x)
  BY <1>2, RepairFieldsRepairs
<1>5. Repairs(s, DocsOf(w), q)
  BY <1>1, <1>2, <1>3, <1>4, RepairsAgree, RepairsNothing DEF Asked
<1> QED
  BY <1>5 DEF s

\* The repair of a freeform text between commas is one.
LEMMA RepairDelimitedRepairs ==
    ASSUME NEW w, Open(w), NEW q, Asked(q), NEW original
    PROVE  Repairs(RepairDelimited(w, q, original), DocsOf(w), q)
<1>1. \/ RepairDelimited(w, q, original) = <<>>
      \/ \E sections, unit : RepairDelimited(w, q, original) = RepairSections(w, q, original, sections, unit)
  BY DEF RepairDelimited
<1> QED
  BY <1>1, RepairSectionsRepairs, RepairsNothing DEF Asked

\* Readings of a text, each of which asks for what the query asks for.
ReadingsOf(X, q) == \A x \in X : Shaped(x.q) /\ Agrees(x.q, q)

\* What the typed and the edited readings of a text give is a repair.
LEMMA TryReadingsRepairs ==
    ASSUME NEW D, Known(D), NEW E \in SUBSET D, NEW q, Asked(q), NEW original,
           NEW typed, NEW edits, ReadingsOf(typed, q), ReadingsOf(edits, q)
    PROVE  Repairs(TryReadings(E, q, original, typed, edits), D, q)
<1> DEFINE X == typed \cup edits
           found == [x \in X |-> SearchStrict(E, x.q)]
           good == {x \in DOMAIN found : \E d \in ToSet(found[x]) : Fits(x, d)}
           hits == UNION {{Plain(d) : d \in {y \in ToSet(found[x]) : Fits(x, y)}} : x \in good}
<1>1. TryReadings(E, q, original, typed, edits) \in {<<>>, OneAddress(hits, q)}
  BY DEF TryReadings, UniqueRepair
<1>2. \A x \in X : Shaped(x.q) /\ Agrees(x.q, q)
  BY DEF ReadingsOf
<1> HIDE DEF X
<1>3. \A x \in X : ToSet(found[x]) \subseteq Versions(D)
  <2> TAKE x \in X
  <2>1. Found(SearchStrict(E, x.q), D, x.q)
    BY <1>2, SearchStrictFound
  <2>2. SearchStrict(E, x.q) \in Seq(Versions(D))
    BY <2>1 DEF Found
  <2> QED
    BY <2>2, ToSetFinite
<1>4. good \subseteq X
  OBVIOUS
<1> HIDE DEF found, good
<1>5. ASSUME NEW h \in hits PROVE \E e \in Versions(D) : h = Plain(e) /\ RequestedAddressMatches(q, e, <<>>)
  <2>1. PICK x \in good : h \in {Plain(d) : d \in {y \in ToSet(found[x]) : Fits(x, y)}}
    OBVIOUS
  <2>2. PICK e \in ToSet(found[x]) : h = Plain(e) /\ Fits(x, e)
    BY <2>1
  <2>3. RequestedAddressMatches(q, e, <<>>)
    BY <1>2, <1>4, <2>2, RequestedAgrees DEF Fits
  <2> QED
    BY <1>3, <1>4, <2>2, <2>3
<1> HIDE DEF hits
<1>6. Repairs(OneAddress(hits, q), D, q)
  BY <1>5, PlainHitsRepair
<1> QED
  BY <1>1, <1>6, RepairsNothing DEF Asked

\* What the spans of a text give is a repair.
LEMMA TrySpansRepairs ==
    ASSUME NEW D, Known(D), NEW E \in SUBSET D, NEW q, Asked(q), NEW original, NEW t, NEW spans
    PROVE  Repairs(TrySpans(E, q, original, t, spans), D, q)
<1> DEFINE ws == t.ws
           known == UNION {Localities(d) \cup ToSet(d.state) : d \in E}
           tried == {b \in spans :
                       LET rest == SubSeq(ws, b + 1, Len(ws))
                           p == Parse([q EXCEPT !.text = <<rest>>]) IN
                       /\ q.house \in {None, HeadHouse(ws)}
                       /\ t.unit # None => q.unit \in {None, t.unit}
                       /\ t.code # None => q.pc \in {None, t.code}
                       /\ rest # <<>> \/ t.code # None \/ q.city # <<>> \/ q.pc # None
                       /\ ToSet(p.rest) \cup ToSet(p.state) \subseteq known}
           typed == {Reading(q, t, b, SubSeq(ws, 2, b)) : b \in tried}
           edits == UNION {{Reading(q, t, b, s) : s \in WhitespaceCandidates(E, SubSeq(ws, 2, b))} :
                             b \in tried}
<1>1. TrySpans(E, q, original, t, spans) \in {<<>>, TryReadings(E, q, original, typed, edits)}
  BY DEF TrySpans
<1>2. tried # {} => q.house \in {None, HeadHouse(ws)}
  OBVIOUS
<1> HIDE DEF tried
<1>3. \A b \in tried : \A s : Shaped(Reading(q, t, b, s).q) /\ Agrees(Reading(q, t, b, s).q, q)
  <2> TAKE b \in tried
  <2> TAKE s
  <2> DEFINE text == IF b = Len(ws) THEN <<>> ELSE <<SubSeq(ws, b + 1, Len(ws))>>
             n == HeadHouse(ws)
             x == [q EXCEPT !.text = text, !.house = n, !.unit = Kept(@, t.unit, None),
                            !.pc = Kept(@, t.code, None), !.street = s, !.kind = "address", !.limit = Page]
  <2>1. Reading(q, t, b, s).q = x
    BY DEF Reading
  <2>2. q.house \in {None, n}
    BY <1>2
  <2> HIDE DEF text, n
  <2>3. Shaped(x)
    BY QueryAssumption DEF Asked, Shaped
  <2>4. Agrees(x, q)
    BY <2>2 DEF Asked, Shaped, Agrees, Kept
  <2> HIDE DEF x
  <2> QED
    BY <2>1, <2>3, <2>4
<1>4. ReadingsOf(typed, q) /\ ReadingsOf(edits, q)
  BY <1>3 DEF ReadingsOf
<1> HIDE DEF typed, edits
<1>5. Repairs(TryReadings(E, q, original, typed, edits), D, q)
  BY <1>4, TryReadingsRepairs
<1> QED
  BY <1>1, <1>5, RepairsNothing DEF Asked

\* The repair of a freeform text is one.
LEMMA RepairFreeformRepairs ==
    ASSUME NEW w, Open(w), NEW q, Asked(q), NEW original
    PROVE  Repairs(RepairFreeform(w, q, original), DocsOf(w), q)
<1>1. Pick(w, q.cc) \in SUBSET DocsOf(w) /\ Known(DocsOf(w))
  BY PickSome DEF Open
<1>2. Repairs(RepairPlain(w, q, original), DocsOf(w), q)
  <2>1. \A ws, apart, code : Repairs(PlainWords(Pick(w, q.cc), q, original, ws, apart, code), DocsOf(w), q)
    BY <1>1, TrySpansRepairs DEF PlainWords
  <2>2. \/ RepairPlain(w, q, original) = <<>>
        \/ \E ws, apart, code :
             RepairPlain(w, q, original) = PlainWords(Pick(w, q.cc), q, original, ws, apart, code)
    BY DEF RepairPlain
  <2> QED
    BY <2>1, <2>2, RepairsNothing DEF Asked
<1>3. RepairFreeform(w, q, original) \in {<<>>, RepairDelimited(w, q, original), RepairPlain(w, q, original)}
  BY DEF RepairFreeform
<1> QED
  BY <1>2, <1>3, RepairDelimitedRepairs, RepairsNothing DEF Asked

\* Whichever form a query has, its repair is one, and keeps the filters.
LEMMA RepairedRepairs ==
    ASSUME NEW w, Open(w), NEW q, Asked(q), NEW hits
    PROVE  Repairs(Repaired(w, q, hits), DocsOf(w), q) /\ Found(Repaired(w, q, hits), DocsOf(w), q)
<1> DEFINE s == Repaired(w, q, hits)
<1>1. Repairs(s, DocsOf(w), q)
  BY RepairFreeformRepairs, RepairStreetRepairs DEF Repaired
<1>2. s = <<>> \/ AddressKind(q)
  BY DEF Repaired, RepairFreeform, Repairable, RepairStreet
<1> HIDE DEF s
<1>3. CASE s = <<>>
  BY <1>1, <1>3, FoundNothing DEF s, Asked
<1>4. CASE AddressKind(q)
  <2>1. \A i \in 1..Len(s) : Meets(s[i], q)
    BY <1>1, <1>4, RequestedMeets DEF Repairs
  <2> QED
    BY <1>1, <2>1 DEF Repairs, Found, s
<1> QED
  BY <1>2, <1>3, <1>4

-----------------------------------------------------------------------------
(* Correction of spelling and the whole search. *)

\* The query with the spelling of its city corrected.
Corrected(w, q) == [q EXCEPT !.city = Correct(SpellingDocs(w, q), @)]

\* A corrected spelling keeps every filter of the corrected query.
LEMMA SpellingFound ==
    ASSUME NEW w, Open(w), NEW q, Asked(q), NEW find, FindOK(find)
    PROVE  Found(Spelling(w, q, find), DocsOf(w), Corrected(w, q))
<1> DEFINE docs == SpellingDocs(w, q)
           D == DocsOf(w)
           text == [i \in DOMAIN q.text |-> Correct(docs, q.text[i])]
           street == Correct(docs, q.street)
           city == Correct(docs, q.city)
           fixed == [q EXCEPT !.text = text, !.street = street, !.city = city]
           kept == UNION {KeptWords(docs, f) :
                            f \in {x \in {Flat(q.text), q.street, q.city} : Correct(docs, x) # x}}
           hits == SearchInner(w, fixed, find)
           I == {i \in DOMAIN hits : HitNamesAll(hits[i], kept)}
           c == [q EXCEPT !.city = city]
<1>1. fixed = [q EXCEPT !.text = [i \in DOMAIN q.text |-> Correct(docs, q.text[i])],
                        !.street = Correct(docs, @), !.city = Correct(docs, @)]
  BY DEF Asked, Shaped
<1>2. Spelling(w, q, find) \in {<<>>, Picked(hits, I)}
  BY <1>1 DEF Spelling, SpellingIn, Respelt, NamingAll
<1>3. Corrected(w, q) = c
  BY DEF Corrected
<1> HIDE DEF docs, text, street, city, kept
<1>4. Asked(fixed) /\ Shaped(c)
  BY DEF Asked, Shaped
<1>5. \A d : Meets(d, fixed) => Meets(d, c)
  BY DEF Asked, Shaped, Meets, AddressKind
<1>6. Limit(fixed) = Limit(c)
  BY DEF Limit, Asked, Shaped
<1> HIDE DEF fixed, c
<1>7. Found(hits, D, fixed)
  BY <1>4, SearchInnerFound
<1> HIDE DEF hits
<1>8. hits \in Seq(Versions(D)) /\ Len(hits) <= Limit(c) /\ \A i \in 1..Len(hits) : Meets(hits[i], c)
  BY <1>5, <1>6, <1>7 DEF Found
<1>9. I \in SUBSET (1..Len(hits))
  BY <1>8
<1> HIDE DEF I
<1>10. Found(Picked(hits, I), D, c)
  <2> DEFINE p == Picked(hits, I)
             T == {hits[i] : i \in I}
  <2>1. p \in Seq(T) /\ Len(p) <= Len(hits)
    BY <1>8, <1>9, PickedSome
  <2>2. T \subseteq Versions(D) /\ \A d \in T : Meets(d, c)
    BY <1>8, <1>9
  <2> HIDE DEF p, T
  <2>3. p \in Seq(Versions(D)) /\ \A k \in 1..Len(p) : Meets(p[k], c)
    BY <2>1, <2>2, SeqMonotonic
  <2>4. Limit(c) \in Nat /\ Len(hits) \in Nat /\ Len(p) \in Nat
    <3>1. Limit(c) \in Nat
      <4>1. Limit(c) \in 1..50
        BY <1>4, LimitType
      <4> QED
        BY <4>1
    <3>2. Len(hits) \in Nat
      BY <1>8
    <3>3. Len(p) \in Nat
      BY <2>1
    <3> QED
      BY <3>1, <3>2, <3>3, Zenon
  <2>5. Len(p) <= Limit(c)
    BY <1>8, <2>1, <2>4
  <2> QED
    BY <2>3, <2>5 DEF Found, p
<1> QED
  BY <1>2, <1>3, <1>4, <1>10, FoundNothing

\* The answer to a search: hits that meet its filters, or those of the query with
\* the city's spelling corrected.
LEMMA SearchFromFound ==
    ASSUME NEW w, Open(w), NEW q, Asked(q), NEW find, FindOK(find)
    PROVE  Found(SearchFrom(w, q, find), DocsOf(w), q) \/ Found(SearchFrom(w, q, find), DocsOf(w), Corrected(w, q))
<1> DEFINE hits == SearchInner(w, q, find)
<1>1. SearchFrom(w, q, find) \in {Repaired(w, q, hits), hits, Spelling(w, q, find)}
  BY DEF SearchFrom, OrRepaired, Or
<1> QED
  BY <1>1, RepairedRepairs, SearchInnerFound, SpellingFound

\* The query for the place of a text is one that can be asked.
LEMMA PlaceQueryAsked ==
    ASSUME NEW text, NEW state, NEW cc, IsFiniteSet(cc)
    PROVE  Asked([NoQuery EXCEPT !.text = text, !.state = state, !.cc = cc, !.kind = "place", !.limit = 1])
<1> DEFINE n == NoQuery
           y == [n EXCEPT !.text = text, !.state = state, !.cc = cc, !.kind = "place", !.limit = 1]
<1>1. Shaped(n)
  BY NoQueryShaped
<1> HIDE DEF n
<1>2. DOMAIN y = DOMAIN n /\ y = [f \in DOMAIN y |-> y[f]]
  BY <1>1 DEF Shaped
<1>3. y.bias = n.bias /\ y.limit = 1 /\ y.cc = cc
  BY <1>1 DEF Shaped
<1> HIDE DEF y
<1>4. Shaped(y)
  BY <1>1, <1>2, <1>3 DEF Shaped
<1>5. Asked(y)
  BY <1>3, <1>4 DEF Asked
<1> QED
  BY <1>5 DEF y, n

\* A search of FindPlace finds documents.
LEMMA FindPlaceOK ==
    ASSUME NEW w, Open(w)
    PROVE  FindOK(<<>>) /\ FindOK(FindPlace(w))
<1>1. FindOK(<<>>)
  BY DEF FindOK
<1>2. ASSUME NEW x \in Seq(STRING) \X Seq(STRING) \X {cc \in SUBSET STRING : IsFiniteSet(cc)}
      PROVE  FindPlace(w)[x] \in Seq(Documents)
  <2> DEFINE q == [NoQuery EXCEPT !.text = <<x[1]>>, !.state = x[2], !.cc = x[3], !.kind = "place", !.limit = 1]
             s == SearchFrom(w, q, <<>>)
  <2>1. FindPlace(w)[x] = s
    BY DEF FindPlace
  <2>2. IsFiniteSet(x[3])
    OBVIOUS
  <2>3. Asked(q)
    BY <2>2, PlaceQueryAsked
  <2> HIDE DEF q
  <2>4. s \in Seq(Versions(DocsOf(w)))
    BY <1>1, <2>3, SearchFromFound DEF Found
  <2>5. Versions(DocsOf(w)) \subseteq Documents
    BY DEF Versions
  <2> HIDE DEF s
  <2> QED
    BY <2>1, <2>4, <2>5, SeqMonotonic
<1>3. DOMAIN FindPlace(w) = Seq(STRING) \X Seq(STRING) \X {cc \in SUBSET STRING : IsFiniteSet(cc)}
  BY DEF FindPlace
<1> QED
  BY <1>1, <1>2, <1>3 DEF FindOK

\* The whole search keeps the filters of the query or of the corrected one.
LEMMA SearchStructuredFound ==
    ASSUME NEW w, Open(w), NEW q, Asked(q)
    PROVE  \/ Found(SearchStructured(w, q), DocsOf(w), q)
           \/ Found(SearchStructured(w, q), DocsOf(w), Corrected(w, q))
BY FindPlaceOK, SearchFromFound DEF SearchStructured

\* The worlds and the questions of the specification are such.
LEMMA WorldsOpen ==
    ASSUME NEW w \in Worlds
    PROVE  Open(w)
<1> DEFINE X == DOMAIN w
           f == [x \in X |-> w[x]]
<1>1. /\ IsFiniteSet(X) /\ \A x \in X : f[x] \subseteq Documents /\ IsFiniteSet(f[x])
      /\ \A x, y \in X : \A d \in f[x], e \in f[y] : d.id = e.id => d = e
  BY WorldAssumption
<1>2. DocsOf(w) = UNION {f[x] : x \in X}
  BY DEF DocsOf
<1>3. X \subseteq DOMAIN f
  OBVIOUS
<1> HIDE DEF f
<1>4. IsFiniteSet(UNION {f[x] : x \in X})
  BY <1>1, <1>3, UnionFinite
<1>5. UNION {f[x] : x \in X} \subseteq Documents
  BY <1>1
<1>6. \A d, e \in UNION {f[x] : x \in X} : d.id = e.id => d = e
  BY <1>1
<1> QED
  BY <1>1, <1>2, <1>4, <1>5, <1>6 DEF Open, Known

\* Every query of a request has the shape of a query.
LEMMA QueriesShaped ==
    ASSUME NEW q \in Queries
    PROVE  Shaped(q) /\ q.limit <= 50
<1>1. DOMAIN q = {"text", "street", "house", "unit", "pc", "city", "state", "cc", "kind", "bias", "limit"}
  BY DEF Queries
<1>2. q = [f \in DOMAIN q |-> q[f]]
  BY DEF Queries
<1>3. q.bias \in Int /\ q.limit \in 0..50
  BY DEF Queries
<1> QED
  BY <1>1, <1>2, <1>3 DEF Shaped

\* "Explicit filters remain constraints": every hit of a search, whatever rung,
\* country, repair or correction found it.
THEOREM SearchKeepsFilters ==
    ASSUME NEW w \in Worlds, NEW q \in Questions
    PROVE  /\ SearchStructured(w, q) \in Seq(Versions(DocsOf(w)))
           /\ Len(SearchStructured(w, q)) <= Limit(q)
           /\ \A i \in 1..Len(SearchStructured(w, q)) :
                \/ Meets(SearchStructured(w, q)[i], q)
                \/ Meets(SearchStructured(w, q)[i], [q EXCEPT !.city = Correct(SpellingDocs(w, q), @)])
<1> DEFINE s == SearchStructured(w, q)
<1>1. Open(w) /\ q \in Queries /\ IsFiniteSet(q.cc)
  BY WorldsOpen, QuestionAssumption
<1>2. Asked(q)
  BY <1>1, QueriesShaped DEF Asked
<1>3. Found(s, DocsOf(w), q) \/ Found(s, DocsOf(w), Corrected(w, q))
  BY <1>1, <1>2, SearchStructuredFound
<1>4. Limit(Corrected(w, q)) = Limit(q)
  BY <1>2 DEF Corrected, Limit, Asked, Shaped
<1> HIDE DEF s
<1> QED
  BY <1>3, <1>4 DEF Found, Corrected, s

-----------------------------------------------------------------------------
(* /nearby. *)

\* The first number of a key decides before the others.
LEMMA FirstKey ==
    ASSUME NEW a, NEW b, Higher(a, b), DOMAIN a = 1..Len(a), Len(a) \in Nat, a[1] \in Int, b[1] \in Int
    PROVE  b[1] <= a[1]
<1>1. PICK i \in DOMAIN a : a[i] > b[i] /\ \A j \in 1 .. i - 1 : a[j] = b[j]
  BY DEF Higher
<1>2. CASE i = 1
  BY <1>1, <1>2
<1>3. CASE i # 1
  BY <1>1, <1>3
<1> QED
  BY <1>2, <1>3

\* Documents in the order of their distance, nearest first, and none left out.
LEMMA NearestFirst ==
    ASSUME NEW D, Known(D), NEW S \in SUBSET Versions(D), IsFiniteSet(S), NEW b \in Int
    PROVE  LET o == Ordered(S, [d \in S |-> <<-DistM(d.pos, b)>>]) IN
           /\ o \in Seq(S) /\ Len(o) = Cardinality(S)
           /\ \A d \in S : DistM(d.pos, b) \in Nat /\ \E i \in 1..Len(o) : o[i] = d
           /\ \A i, j \in 1..Len(o) : i < j => DistM(o[i].pos, b) <= DistM(o[j].pos, b)
<1> DEFINE key == [d \in S |-> <<-DistM(d.pos, b)>>]
           o == Ordered(S, key)
           n == Cardinality(S)
<1>1. \A d \in S : DistM(d.pos, b) \in Nat /\ d.id \in Int /\ d.score \in Int /\ d.ci \in Int
  BY DEF DistM, Versions, Documents
<1>2. \A d \in S : key[d] = <<-DistM(d.pos, b)>>
  OBVIOUS
<1>3. \A d \in S : key[d] \in Seq(Int) /\ Len(key[d]) = 1 /\ key[d][1] = -DistM(d.pos, b)
  BY <1>1, <1>2
<1> HIDE DEF key
<1>4. /\ o \in Seq(S) /\ Len(o) = n
      /\ \A i, j \in 1..n : i < j => Higher(FullKey(o[i], key), FullKey(o[j], key))
      /\ \A d \in S : \E i \in 1..n : o[i] = d
  <2>1. 1 \in Nat
    OBVIOUS
  <2> QED
    BY <1>3, <2>1, OrderedHits
<1> HIDE DEF o
<1>5. n \in Nat
  BY FS_CardinalityType
<1> HIDE DEF n
<1>6. \A d \in S : /\ FullKey(d, key)[1] = -DistM(d.pos, b) /\ Len(FullKey(d, key)) \in Nat
                   /\ DOMAIN FullKey(d, key) = 1..Len(FullKey(d, key))
  <2> TAKE d \in S
  <2> DEFINE k == key[d]
             t == <<-d.id, d.score, d.ci>>
             u == k \o t
  <2>1. k \in Seq(Int) /\ Len(k) = 1 /\ k[1] = -DistM(d.pos, b)
    BY <1>3
  <2>2. t \in Seq(Int)
    BY <1>1
  <2>3. FullKey(d, key) = u
    BY DEF FullKey
  <2> HIDE DEF k, t
  <2>4. u \in Seq(Int) /\ u[1] = k[1]
    <3>1. Len(t) \in Nat /\ 1 \in 1..Len(k) + Len(t) /\ 1 <= Len(k)
      BY <2>1, <2>2
    <3> QED
      BY <2>1, <2>2, <3>1, ConcatProperties
  <2> HIDE DEF u
  <2> QED
    BY <2>1, <2>3, <2>4
<1>7. \A i, j \in 1..n : i < j => DistM(o[i].pos, b) <= DistM(o[j].pos, b)
  <2> SUFFICES ASSUME NEW i \in 1..n, NEW j \in 1..n, i < j
               PROVE  DistM(o[i].pos, b) <= DistM(o[j].pos, b)
    OBVIOUS
  <2> DEFINE x == DistM(o[i].pos, b)
             y == DistM(o[j].pos, b)
             f == FullKey(o[i], key)
             g == FullKey(o[j], key)
  <2>1. o[i] \in S /\ o[j] \in S
    BY <1>4, <1>5
  <2>2. f[1] = -x /\ g[1] = -y /\ x \in Nat /\ y \in Nat
    BY <1>1, <1>6, <2>1
  <2>3. Higher(f, g) /\ Len(f) \in Nat /\ DOMAIN f = 1..Len(f)
    BY <1>4, <1>6, <2>1
  <2> HIDE DEF x, y, f, g
  <2>4. f[1] \in Int /\ g[1] \in Int
    BY <2>2
  <2>5. g[1] <= f[1]
    BY <2>3, <2>4, FirstKey
  <2> QED
    BY <2>2, <2>5 DEF x, y
<1>8. /\ o \in Seq(S) /\ Len(o) = Cardinality(S)
      /\ \A d \in S : DistM(d.pos, b) \in Nat /\ \E i \in 1..Len(o) : o[i] = d
      /\ \A i, j \in 1..Len(o) : i < j => DistM(o[i].pos, b) <= DistM(o[j].pos, b)
  BY <1>1, <1>4, <1>7 DEF n
<1> QED
  BY <1>8, Zenon DEF o, key

\* The documents that are fetched: all that match, unless they are too many.
LEMMA NearbyFetched ==
    ASSUME NEW D, Known(D), NEW F \in SUBSET D, NEW m \in Nat
    PROVE  LET pool == ToSet(Truncate(Ordered(F, [d \in F |-> <<d.score>>]), m)) IN
           pool \subseteq F /\ IsFiniteSet(pool) /\ (Cardinality(F) <= m => pool = F)
<1> DEFINE key == [d \in F |-> <<d.score>>]
           o == Ordered(F, key)
           t == Truncate(o, m)
<1>1. F \in SUBSET Versions(D) /\ IsFiniteSet(F)
  BY DocsAreVersions, FS_Subset DEF Known
<1>2. \A d \in F : key[d] \in Seq(Int) /\ Len(key[d]) = 1
  BY DEF Known, Documents
<1> HIDE DEF key
<1>3. o \in Seq(F) /\ Len(o) = Cardinality(F) /\ \A d \in F : \E i \in 1..Cardinality(F) : o[i] = d
  <2>1. 1 \in Nat
    OBVIOUS
  <2> QED
    BY <1>1, <1>2, <2>1, OrderedHits
<1> HIDE DEF o
<1>4. t \in Seq(F) /\ (Len(o) <= m => t = o)
  BY <1>3, TruncateSome
<1> HIDE DEF t
<1>5. ToSet(t) \subseteq F /\ IsFiniteSet(ToSet(t))
  BY <1>4, ToSetFinite
<1>6. ASSUME Cardinality(F) <= m, NEW d \in F PROVE d \in ToSet(t)
  <2>1. t = o /\ DOMAIN o = 1..Cardinality(F)
    BY <1>3, <1>4, <1>6
  <2> QED
    BY <1>3, <2>1 DEF ToSet
<1>7. ToSet(t) \subseteq F /\ IsFiniteSet(ToSet(t)) /\ (Cardinality(F) <= m => ToSet(t) = F)
  BY <1>5, <1>6
<1> QED
  BY <1>7, Zenon DEF t, o, key

\* What /nearby answers: documents within the radius, the nearest first, and none
\* that matches is left out for a farther one.
NearestOf(s, w, q) ==
    /\ s \in Seq(DocsOf(w))
    /\ \A i \in 1..Len(s) : DistM(s[i].pos, q.bias) <= NearRadius
    /\ \A i, j \in 1..Len(s) : i < j => DistM(s[i].pos, q.bias) <= DistM(s[j].pos, q.bias)
    /\ Cardinality(NearbyMatching(w, q)) <= NearbyPool(q) =>
         \A d \in NearbyMatching(w, q) : \A i \in 1..Len(s) :
           d \notin ToSet(s) => DistM(s[i].pos, q.bias) <= DistM(d.pos, q.bias)

\* The nearby search answers with the nearest documents of its pool.
LEMMA SearchNearbyNearest ==
    ASSUME NEW w, Open(w), NEW q, Shaped(q)
    PROVE  NearestOf(SearchNearby(w, q), w, q)
<1> DEFINE D == DocsOf(w)
           b == q.bias
           F == NearbyMatching(w, q)
           m == NearbyPool(q)
           P == ToSet(Truncate(Ordered(F, [d \in F |-> <<d.score>>]), m))
           S == {d \in P : DistM(d.pos, b) <= NearRadius}
           o == Ordered(S, [d \in S |-> <<-DistM(d.pos, b)>>])
           s == Truncate(o, Limit(q))
           Far(d) == DistM(d.pos, b)
<1>1. SearchNearby(w, q) = s
  BY DEF SearchNearby
<1>2. F \in SUBSET D /\ Known(D)
  BY PickSome DEF NearbyMatching, Open
<1>3. Limit(q) \in Nat
  <2>1. Limit(q) \in 1..50
    BY LimitType
  <2> QED
    BY <2>1
<1>4. m \in Nat /\ b \in Int
  BY <1>3 DEF NearbyPool, Min2, Shaped
<1> HIDE DEF F, m, b, D
<1>5. P \subseteq F /\ IsFiniteSet(P) /\ (Cardinality(F) <= m => P = F)
  BY <1>2, <1>4, NearbyFetched
<1> HIDE DEF P
<1>6. S \in SUBSET Versions(D) /\ IsFiniteSet(S) /\ S \subseteq D
  BY <1>2, <1>5, DocsAreVersions, FS_Subset
<1>7. \A d \in S : Far(d) <= NearRadius
  OBVIOUS
<1>8. \A d \in P : d \notin S => ~(Far(d) <= NearRadius)
  OBVIOUS
<1> HIDE DEF S
<1>9. /\ o \in Seq(S)
      /\ \A d \in S : Far(d) \in Nat /\ \E i \in 1..Len(o) : o[i] = d
      /\ \A i, j \in 1..Len(o) : i < j => Far(o[i]) <= Far(o[j])
  BY <1>2, <1>4, <1>6, NearestFirst
<1> HIDE DEF o
<1>10. /\ s \in Seq(S) /\ Len(s) <= Len(o) /\ \A i \in 1..Len(s) : s[i] = o[i]
  BY <1>3, <1>9, TruncateSome
<1>11. Len(s) \in Nat /\ Len(o) \in Nat
  BY <1>9, <1>10
<1> HIDE DEF s
<1>12. s \in Seq(D)
  BY <1>6, <1>10, SeqMonotonic
<1>13. \A i \in 1..Len(s) : s[i] \in S /\ Far(s[i]) <= NearRadius
  BY <1>7, <1>10
<1>14. \A i, j \in 1..Len(s) : i < j => Far(s[i]) <= Far(s[j])
  <2> TAKE i, j \in 1..Len(s)
  <2>1. i \in 1..Len(o) /\ j \in 1..Len(o) /\ s[i] = o[i] /\ s[j] = o[j]
    BY <1>10, <1>11
  <2> QED
    BY <1>9, <2>1
<1>15. ASSUME NEW d \in P, NEW i \in 1..Len(s), d \notin ToSet(s)
       PROVE  Far(s[i]) <= Far(d)
  <2>1. Far(s[i]) \in Nat /\ Far(s[i]) <= NearRadius /\ NearRadius \in Nat
    BY <1>9, <1>13, QueryAssumption
  <2>2. CASE d \in S
    <3>1. PICK k \in 1..Len(o) : o[k] = d
      BY <1>9, <2>2
    <3>2. ~(k \in 1..Len(s))
      BY <1>10, <1>15, <3>1 DEF ToSet
    <3>3. i < k /\ i \in 1..Len(o)
      BY <1>10, <1>11, <3>1, <3>2
    <3> QED
      BY <1>9, <1>10, <3>1, <3>3
  <2>3. CASE d \notin S
    <3>1. d.pos \in Nat
      BY <1>2, <1>5 DEF Known, Documents
    <3>2. Far(d) \in Int
      BY <1>4, <3>1 DEF DistM
    <3> HIDE DEF Far
    <3> QED
      BY <1>8, <2>1, <2>3, <3>2
  <2> QED
    BY <2>2, <2>3
<1>16. Cardinality(F) <= m => \A d \in F : \A i \in 1..Len(s) : d \notin ToSet(s) => Far(s[i]) <= Far(d)
  BY <1>5, <1>15
<1> QED
  BY <1>1, <1>12, <1>13, <1>14, <1>16 DEF NearestOf, D, F, m, b

-----------------------------------------------------------------------------
(* The specification. *)

\* An answer is that of the question.
AnswerInv ==
    \/ asked.op = "none" /\ answer = <<>>
    \/ \E q \in Questions : asked = [op |-> "search", q |-> q] /\ answer = SearchStructured(world, q)
    \/ \E q \in NearbyQuestions : asked = [op |-> "nearby", q |-> q] /\ answer = SearchNearby(world, q)

\* A commit that was shown answers this city for the tail in these countries.
Answered(city, cc, tail) == \E w \in shown : city = LookupCity(Pick(w, cc), cc, tail)

\* The cache of one directory.
EntriesOf(dir) == {k \in DOMAIN cache : k[1] = dir}

\* Every entry of a cache is what a shown commit answers: this, which no property
\* says, is what makes a hit right.
CacheInv ==
    /\ IsFiniteSet(DOMAIN cache) /\ \A dir : Cardinality(EntriesOf(dir)) <= CacheCap
    /\ \A k \in DOMAIN cache : Answered(cache[k], k[2], k[3])

Lookup(x) == /\ DOMAIN x = {"step", "cc", "tail", "city"} /\ x = [f \in DOMAIN x |-> x[f]]
             /\ x.step \in {"found", "done"} => Answered(x.city, x.cc, x.tail)

ReqInv == /\ DOMAIN req = Requests /\ req = [r \in DOMAIN req |-> req[r]]
          /\ \A r \in Requests : Lookup(req[r])

IInv == world \in Worlds /\ world \in shown /\ AnswerInv /\ CacheInv /\ ReqInv

\* The invariant holds at the start, when nothing is asked or cached.
LEMMA InitIInv == Init => IInv
<1> SUFFICES ASSUME Init PROVE IInv
  OBVIOUS
<1>1. world \in Worlds /\ world \in shown /\ AnswerInv
  BY DEF Init, AnswerInv, NoAnswer
<1>2. CacheInv
  <2>1. cache = <<>> /\ DOMAIN cache = {}
    BY DEF Init
  <2>2. IsFiniteSet({}) /\ Cardinality({}) = 0
    BY FS_EmptySet
  <2>3. \A dir : EntriesOf(dir) = {}
    BY <2>1 DEF EntriesOf
  <2>4. 0 <= CacheCap
    BY QueryAssumption
  <2>5. \A dir : Cardinality(EntriesOf(dir)) <= CacheCap
    BY <2>2, <2>3, <2>4
  <2> QED
    BY <2>1, <2>2, <2>5 DEF CacheInv
<1>3. ReqInv
  <2>1. Lookup(Idle)
    BY DEF Lookup, Idle
  <2> QED
    BY <2>1 DEF Init, ReqInv
<1> QED
  BY <1>1, <1>2, <1>3 DEF IInv

\* A question leaves the world and the caches alone.
LEMMA SearchStep == IInv /\ (Search \/ Nearby) => IInv'
<1> SUFFICES ASSUME IInv, Search \/ Nearby PROVE IInv'
  OBVIOUS
<1>1. world' = world /\ shown' = shown /\ cache' = cache /\ req' = req
  BY DEF Search, Nearby
<1>2. CacheInv' /\ ReqInv' /\ (world \in Worlds)' /\ (world \in shown)'
  BY <1>1 DEF IInv, CacheInv, EntriesOf, ReqInv, Lookup, Answered
<1>3. AnswerInv'
  BY <1>1 DEF Search, Nearby, AnswerInv
<1> QED
  BY <1>2, <1>3 DEF IInv

\* A reload adds a commit to those that were shown, so that what was an answer of
\* one of them still is.
LEMMA ReloadStep == IInv /\ Reload => IInv'
<1> SUFFICES ASSUME IInv, Reload PROVE IInv'
  OBVIOUS
<1>1. /\ world' \in CacheWorlds /\ shown' = shown \cup {world'}
      /\ cache' = cache /\ req' = req /\ asked' = asked /\ answer' = answer
  BY DEF Reload
<1>2. (world \in Worlds)' /\ (world \in shown)'
  BY <1>1, QueryAssumption
<1>3. asked.op = "none"
  BY DEF Reload
<1>4. AnswerInv'
  <2>1. asked.op = "none" /\ answer = <<>>
    BY <1>3 DEF IInv, AnswerInv
  <2> QED
    BY <1>1, <2>1 DEF AnswerInv
<1>5. \A city, cc, tail : Answered(city, cc, tail) => Answered(city, cc, tail)'
  BY <1>1 DEF Answered
<1>6. CacheInv'
  <2>1. \A k \in DOMAIN cache : Answered(cache[k], k[2], k[3])'
    BY <1>1, <1>5 DEF IInv, CacheInv
  <2> QED
    BY <1>1, <2>1 DEF IInv, CacheInv, EntriesOf
<1>7. ReqInv'
  <2>1. \A y : Lookup(y) => Lookup(y)'
    BY <1>5 DEF Lookup
  <2> QED
    BY <1>1, <2>1 DEF IInv, ReqInv
<1> QED
  BY <1>2, <1>4, <1>6, <1>7 DEF IInv

\* A step of a request changes its record alone.
LEMMA RequestStep ==
    ASSUME IInv, UNCHANGED <<world, shown, asked, answer>>, NEW r \in Requests, NEW x, Lookup(x),
           req' = [req EXCEPT ![r] = x], CacheInv'
    PROVE  IInv'
<1>1. AnswerInv' /\ (world \in Worlds)' /\ (world \in shown)'
  BY DEF IInv, AnswerInv
<1>2. \A y : Lookup(y)' <=> Lookup(y)
  BY DEF Lookup, Answered
<1>3. DOMAIN req' = Requests /\ req' = [i \in DOMAIN req' |-> req'[i]]
  BY DEF IInv, ReqInv
<1>4. \A i \in Requests : req'[i] = IF i = r THEN x ELSE req[i]
  BY DEF IInv, ReqInv
<1>5. \A i \in Requests : Lookup(req'[i])
  BY <1>4 DEF IInv, ReqInv
<1>6. ReqInv'
  BY <1>3, <1>5 DEF ReqInv, Lookup, Answered
<1> QED
  BY <1>1, <1>6 DEF IInv

\* The caches stay as they are while they do not change.
LEMMA CacheSame ==
    ASSUME IInv, UNCHANGED <<shown, cache>>
    PROVE  CacheInv'
BY DEF IInv, CacheInv, EntriesOf, Answered

\* A lookup that begins keeps the invariant.
LEMMA BeginStep ==
    ASSUME NEW r \in Requests, IInv, BeginLookup(r)
    PROVE  IInv'
<1>1. PICK t \in Tails :
        req' = [req EXCEPT ![r] = [step |-> "get", cc |-> t.cc, tail |-> t.tail, city |-> NoCity]]
  BY DEF BeginLookup
<1>2. Lookup([step |-> "get", cc |-> t.cc, tail |-> t.tail, city |-> NoCity])
  BY DEF Lookup
<1>3. CacheInv'
  BY CacheSame DEF BeginLookup
<1> QED
  BY <1>1, <1>2, <1>3, RequestStep DEF BeginLookup

\* A lookup that finds or misses its entry keeps the invariant.
LEMMA GetStep ==
    ASSUME NEW r \in Requests, IInv, GetCached(r)
    PROVE  IInv'
<1> DEFINE x == req[r]
           k == KeyOf(x)
           hit == [x EXCEPT !.step = "done", !.city = cache[k]]
           miss == [x EXCEPT !.step = "miss"]
<1>1. Lookup(x) /\ k[2] = x.cc /\ k[3] = x.tail /\ DOMAIN req = Requests
  BY DEF IInv, ReqInv, KeyOf, Key
<1>2. CacheInv'
  BY CacheSame DEF GetCached
<1>3. CASE k \in DOMAIN cache
  <2>1. req' = [req EXCEPT ![r] = hit]
    BY <1>1, <1>3 DEF GetCached, IInv, ReqInv
  <2>2. Answered(cache[k], x.cc, x.tail)
    BY <1>1, <1>3 DEF IInv, CacheInv
  <2>3. Lookup(hit)
    <3> HIDE DEF x, k
    <3> QED
      BY <1>1, <2>2 DEF Lookup
  <2> QED
    BY <1>2, <2>1, <2>3, RequestStep DEF GetCached
<1>4. CASE k \notin DOMAIN cache
  <2>1. req' = [req EXCEPT ![r] = miss]
    BY <1>1, <1>4 DEF GetCached, IInv, ReqInv
  <2>2. Lookup(miss)
    <3> HIDE DEF x, k
    <3> QED
      BY <1>1 DEF Lookup
  <2> QED
    BY <1>2, <2>1, <2>2, RequestStep DEF GetCached
<1> QED
  BY <1>3, <1>4

\* A lookup that asks the index gets what the commit now shown answers.
LEMMA FindStep ==
    ASSUME NEW r \in Requests, IInv, FindCity(r)
    PROVE  IInv'
<1> DEFINE x == req[r]
           city == LookupCity(Pick(world, x.cc), x.cc, x.tail)
           found == [x EXCEPT !.step = "found", !.city = city]
<1>1. Lookup(x) /\ DOMAIN req = Requests
  BY DEF IInv, ReqInv
<1>2. Answered(city, x.cc, x.tail)
  BY DEF Answered, IInv
<1>3. req' = [req EXCEPT ![r] = found]
  BY <1>1 DEF FindCity, IInv, ReqInv
<1>4. Lookup(found)
  <2> HIDE DEF x, city
  <2> QED
    BY <1>1, <1>2 DEF Lookup
<1>5. CacheInv'
  BY CacheSame DEF FindCity
<1> QED
  BY <1>3, <1>4, <1>5, RequestStep DEF FindCity

\* There is room for one more entry of a directory.
LEMMA RoomLeft ==
    ASSUME CacheInv, NEW dir
    PROVE  /\ Room(dir) \subseteq DOMAIN cache /\ IsFiniteSet(Room(dir))
           /\ Cardinality({k \in Room(dir) : k[1] = dir}) < CacheCap
<1>1. Room(dir) \subseteq DOMAIN cache /\ IsFiniteSet(Room(dir))
  BY FS_Subset DEF Room, CacheInv
<1>2. CASE Cardinality(EntriesOf(dir)) < CacheCap
  <2>1. {k \in Room(dir) : k[1] = dir} = EntriesOf(dir)
    BY <1>2 DEF Room, EntriesOf
  <2> QED
    BY <1>1, <1>2, <2>1
<1>3. CASE ~(Cardinality(EntriesOf(dir)) < CacheCap)
  <2>1. {k \in Room(dir) : k[1] = dir} = {}
    BY <1>3 DEF Room, EntriesOf
  <2>2. Cardinality({}) = 0 /\ 0 < CacheCap
    BY FS_EmptySet, QueryAssumption
  <2> QED
    BY <1>1, <2>1, <2>2
<1> QED
  BY <1>2, <1>3

\* A lookup that puts its answer keeps the invariant.
LEMMA PutStep ==
    ASSUME NEW r \in Requests, IInv, PutCached(r)
    PROVE  IInv'
<1> DEFINE x == req[r]
           k == KeyOf(x)
           room == Room(k[1])
           done == [x EXCEPT !.step = "done"]
<1>1. Lookup(x) /\ k[2] = x.cc /\ k[3] = x.tail /\ DOMAIN req = Requests /\ x.step = "found"
  BY DEF IInv, ReqInv, KeyOf, Key, PutCached
<1>2. /\ cache' = [y \in room \cup {k} |-> IF y = k THEN x.city ELSE cache[y]]
      /\ req' = [req EXCEPT ![r] = done]
  BY <1>1 DEF PutCached, IInv, ReqInv
<1>3. Answered(x.city, x.cc, x.tail)
  BY <1>1 DEF Lookup
<1>4. Lookup(done)
  <2> HIDE DEF x
  <2> QED
    BY <1>1, <1>3 DEF Lookup
<1>5. /\ room \subseteq DOMAIN cache /\ IsFiniteSet(room)
      /\ Cardinality({y \in room : y[1] = k[1]}) < CacheCap
  BY RoomLeft DEF IInv
<1> HIDE DEF k, room, x
<1>6. DOMAIN cache' = room \cup {k} /\ IsFiniteSet(room \cup {k})
  BY <1>2, <1>5, FS_AddElement
<1>7. ASSUME NEW dir PROVE Cardinality(EntriesOf(dir)') <= CacheCap
  <2> DEFINE S == {y \in room : y[1] = dir}
  <2>1. IsFiniteSet(S) /\ Cardinality(S) \in Nat
    BY <1>5, FS_Subset, FS_CardinalityType
  <2>2. CASE dir = k[1]
    <3>1. EntriesOf(dir)' = S \cup {k} /\ Cardinality(S) < CacheCap
      BY <1>5, <1>6, <2>2 DEF EntriesOf
    <3>2. Cardinality(S \cup {k}) \in {Cardinality(S), Cardinality(S) + 1}
      BY <2>1, FS_AddElement
    <3> HIDE DEF S
    <3> QED
      BY <2>1, <3>1, <3>2, QueryAssumption
  <2>3. CASE dir # k[1]
    <3>1. EntriesOf(dir)' \subseteq EntriesOf(dir)
      BY <1>5, <1>6, <2>3 DEF EntriesOf
    <3>2. IsFiniteSet(EntriesOf(dir)) /\ Cardinality(EntriesOf(dir)) <= CacheCap
      BY FS_Subset DEF EntriesOf, IInv, CacheInv
    <3>3. IsFiniteSet(EntriesOf(dir)') /\ Cardinality(EntriesOf(dir)') <= Cardinality(EntriesOf(dir))
      BY <3>1, <3>2, FS_Subset
    <3>4. Cardinality(EntriesOf(dir)) \in Nat /\ Cardinality(EntriesOf(dir)') \in Nat
      BY <3>2, <3>3, FS_CardinalityType
    <3> QED
      BY <3>2, <3>3, <3>4, QueryAssumption
  <2> QED
    BY <2>2, <2>3
<1>8. ASSUME NEW y \in room \cup {k} PROVE Answered(cache'[y], y[2], y[3])
  <2>1. CASE y = k
    BY <1>1, <1>2, <1>3, <2>1
  <2>2. CASE y # k
    BY <1>2, <1>5, <2>2 DEF IInv, CacheInv
  <2> QED
    BY <2>1, <2>2
<1>9. CacheInv'
  <2>1. shown' = shown
    BY DEF PutCached
  <2>2. \A y \in DOMAIN cache' : Answered(cache[y], y[2], y[3])'
    BY <1>6, <1>8, <2>1 DEF Answered
  <2> QED
    BY <1>6, <1>7, <2>2 DEF CacheInv
<1> QED
  BY <1>2, <1>4, <1>9, RequestStep DEF PutCached

\* Every step keeps the invariant.
LEMMA NextIInv == IInv /\ [Next]_vars => IInv'
<1> SUFFICES ASSUME IInv, [Next]_vars PROVE IInv'
  OBVIOUS
<1>1. CASE Search \/ Nearby
  BY <1>1, SearchStep
<1>2. CASE Reload
  BY <1>2, ReloadStep
<1>3. ASSUME NEW r \in Requests, BeginLookup(r) PROVE IInv'
  BY <1>3, BeginStep
<1>4. ASSUME NEW r \in Requests, GetCached(r) PROVE IInv'
  BY <1>4, GetStep
<1>5. ASSUME NEW r \in Requests, FindCity(r) PROVE IInv'
  BY <1>5, FindStep
<1>6. ASSUME NEW r \in Requests, PutCached(r) PROVE IInv'
  BY <1>6, PutStep
<1>7. CASE UNCHANGED vars
  BY <1>7 DEF vars, IInv, AnswerInv, CacheInv, EntriesOf, ReqInv, Lookup, Answered
<1> QED
  BY <1>1, <1>2, <1>3, <1>4, <1>5, <1>6, <1>7 DEF Next

\* The hits of an answer are versions of documents of the world.
LEMMA AnswerKnown ==
    ASSUME IInv
    PROVE  /\ answer \in Seq(Versions(Docs))
           /\ Searched => Len(answer) <= Limit(asked.q) /\ FiltersHold
<1>1. Docs = DocsOf(world) /\ world \in Worlds /\ Open(world)
  BY WorldsOpen DEF Docs, DocsOf, IInv
<1>2. CASE asked.op = "none" /\ answer = <<>>
  BY <1>2 DEF Searched
<1>3. ASSUME NEW q \in Questions, asked = [op |-> "search", q |-> q], answer = SearchStructured(world, q)
      PROVE  /\ answer \in Seq(Versions(Docs)) /\ Len(answer) <= Limit(asked.q)
             /\ FiltersHold
  <2>1. asked.q = q
    BY <1>3
  <2> DEFINE s == SearchStructured(world, q)
             c == [q EXCEPT !.city = Correct(SpellingDocs(world, q), @)]
  <2>2. /\ s \in Seq(Versions(Docs)) /\ Len(s) <= Limit(q)
        /\ \A i \in 1..Len(s) : Meets(s[i], q) \/ Meets(s[i], c)
    BY <1>1, SearchKeepsFilters
  <2>3. c = [asked.q EXCEPT !.city = Correct(SpellingDocs(world, asked.q), @)]
    BY <2>1
  <2>4. s = answer
    BY <1>3
  <2> HIDE DEF s, c
  <2>5. \A d \in ToSet(answer) : Meets(d, asked.q) \/ Meets(d, c)
    BY <2>1, <2>2, <2>4 DEF ToSet
  <2>6. FiltersHold
    BY <2>3, <2>5 DEF FiltersHold
  <2> QED
    BY <2>1, <2>2, <2>4, <2>6
<1>4. ASSUME NEW q \in NearbyQuestions, asked = [op |-> "nearby", q |-> q], answer = SearchNearby(world, q)
      PROVE  answer \in Seq(Versions(Docs)) /\ ~Searched
  <2>1. Shaped(q)
    BY QuestionAssumption, QueriesShaped
  <2>2. answer \in Seq(Docs)
    BY <1>1, <1>4, <2>1, SearchNearbyNearest DEF NearestOf
  <2>3. Docs \subseteq Versions(Docs)
    BY <1>1, DocsAreVersions DEF Open
  <2>4. answer \in Seq(Versions(Docs))
    BY <2>2, <2>3, SeqMonotonic
  <2> QED
    BY <1>4, <2>4 DEF Searched
<1> QED
  BY <1>2, <1>3, <1>4 DEF IInv, AnswerInv

\* A nearby answer is of the nearest documents.
LEMMA NearbyHolds ==
    ASSUME IInv
    PROVE  NearbyIsNearest
<1> SUFFICES ASSUME asked.op = "nearby" PROVE NearbyIsNearest
  BY DEF NearbyIsNearest
<1>1. PICK q \in NearbyQuestions : asked = [op |-> "nearby", q |-> q] /\ answer = SearchNearby(world, q)
  BY DEF IInv, AnswerInv
<1>2. asked.q = q
  BY <1>1
<1>3. Shaped(q) /\ Open(world)
  BY QuestionAssumption, QueriesShaped, WorldsOpen DEF IInv
<1>4. NearestOf(answer, world, q)
  BY <1>1, <1>3, SearchNearbyNearest
<1> DEFINE Far(d) == DistM(d.pos, q.bias)
           F == NearbyMatching(world, q)
<1>5. DOMAIN answer = 1..Len(answer)
  BY <1>4 DEF NearestOf
<1>6. \A i, j \in DOMAIN answer : Far(answer[i]) <= NearRadius /\ (i < j => Far(answer[i]) <= Far(answer[j]))
  BY <1>4, <1>5 DEF NearestOf
<1>7. ASSUME Cardinality(F) <= NearbyPool(q), NEW d \in Pick(world, q.cc), NEW i \in DOMAIN answer,
             d.id \notin {x.id : x \in ToSet(answer)}, q.cc # {} => d.cc \in q.cc,
             q.kind \in {AnyKind, d.kind}, ToSet(Parse(q).rest) \subseteq ToSet(d.name)
      PROVE  Far(answer[i]) <= Far(d)
  <2>1. d \in F
    BY <1>7 DEF NearbyMatching
  <2>2. d \notin ToSet(answer)
    BY <1>7
  <2> QED
    BY <1>4, <1>5, <1>7, <2>1, <2>2 DEF NearestOf
<1> QED
  BY <1>2, <1>6, <1>7 DEF NearbyIsNearest

\* A hit of an answer has the id of a document.
LEMMA CacheKept ==
    ASSUME IInv
    PROVE  CacheHolds
<1>1. Open(world) /\ Docs = DocsOf(world)
  BY WorldsOpen DEF Docs, DocsOf, IInv
<1>2. \A d \in ToSet(answer) : \E e \in Docs : d.id = e.id
  <2> TAKE d \in ToSet(answer)
  <2>1. d \in Versions(Docs)
    BY AnswerKnown DEF ToSet
  <2>2. PICK e \in Docs : Plain(d) = Plain(e)
    BY <2>1 DEF Versions
  <2>3. d \in Documents /\ e \in Documents
    BY <1>1, <2>1 DEF Versions, Open, Known
  <2>4. SameFields(d, e)
    BY <2>2, <2>3, PlainFields
  <2> QED
    BY <2>4 DEF SameFields
<1>3. TypeOK
  BY <1>2, AnswerKnown DEF TypeOK, IInv, CacheInv, EntriesOf
<1>4. CacheTransparent
  BY DEF CacheTransparent, IInv, ReqInv, Lookup, Answered
<1> QED
  BY <1>3, <1>4 DEF CacheHolds

\* The invariant holds at every step.
LEMMA Invariance == Spec => []IInv
  BY InitIInv, NextIInv, PTL DEF Spec

\* trailing_city: whatever other requests look up, put and clear between its two
\* locks and whatever builds commit, a look-up through the cache answers what the
\* index answers or has answered since the server started, the cache of each
\* directory keeps to its capacity, and an answer is made of documents that are open.
THEOREM CacheIsTransparent == Spec => []CacheHolds
<1>1. IInv => CacheHolds
  BY CacheKept
<1> QED
  BY <1>1, Invariance, PTL

\* Explicit filters remain constraints on whatever rung, country, repair or
\* correction finds a hit, and /nearby answers with the nearest.
THEOREM FiltersAreConstraints == Spec => []AnswersAreMeant
<1>1. IInv => AnswersAreMeant
  <2> SUFFICES ASSUME IInv PROVE AnswersAreMeant
    OBVIOUS
  <2>1. FiltersHold
    BY AnswerKnown DEF FiltersHold
  <2> QED
    BY <2>1, NearbyHolds DEF AnswersAreMeant
<1> QED
  BY <1>1, Invariance, PTL

\* repair_street_whitespace and repair_freeform_whitespace guess only when one
\* address is left: what a repair answers, whatever the hits it follows, are
\* versions of one address, no more than were asked for, with every field that is
\* asked for, and they meet the filters.
THEOREM RepairsAreOneAddress ==
    ASSUME NEW w \in Worlds, NEW q \in Questions, NEW hits
    PROVE  LET s == Repaired(w, q, hits) IN
           /\ s \in Seq(Versions(DocsOf(w))) /\ Len(s) <= Limit(q)
           /\ \A i, j \in 1..Len(s) : /\ RequestedAddressMatches(q, s[i], <<>>) /\ Meets(s[i], q)
                                      /\ SameRepairedAddress(s[i], s[j])
<1> DEFINE s == Repaired(w, q, hits)
<1>1. Open(w) /\ Asked(q)
  BY WorldsOpen, QuestionAssumption, QueriesShaped DEF Asked
<1>2. Repairs(s, DocsOf(w), q) /\ Found(s, DocsOf(w), q)
  BY <1>1, RepairedRepairs
<1> HIDE DEF s
<1>3. /\ s \in Seq(Versions(DocsOf(w))) /\ Len(s) <= Limit(q)
      /\ \A i, j \in 1..Len(s) : /\ RequestedAddressMatches(q, s[i], <<>>) /\ Meets(s[i], q)
                                 /\ SameRepairedAddress(s[i], s[j])
  BY <1>2 DEF Repairs, Found
<1> QED
  BY <1>3, Zenon DEF s
=============================================================================
