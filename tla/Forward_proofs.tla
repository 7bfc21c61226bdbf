--------------------------- MODULE Forward_proofs ---------------------------
(***************************************************************************)
(* Proofs about ForwardIndex, for any data sets that satisfy the           *)
(* assumptions, any number of builds and any countries; and about          *)
(* ForwardText, for any texts, countries and tables.                       *)
(*                                                                         *)
(* The operators of ForwardText that run along a text are functions by     *)
(* recursion.  A lemma for each (PrefixesExist, MergedExist, GrownExist,   *)
(* TurnsExist) shows that the function exists, and what holds of all its   *)
(* values is shown by FirstFailure: where it would first fail, it holds    *)
(* one earlier, and the step keeps it.                                     *)
(***************************************************************************)
EXTENDS ForwardIndex, ForwardText, SequenceTheorems, WellFoundedInduction, TLAPS

-----------------------------------------------------------------------------
(* The first and the largest of a list. *)

\* Every non-empty set of naturals has a least element.
LEMMA LeastExists ==
    ASSUME NEW T, T \subseteq Nat, T # {}
    PROVE  \E x \in T : \A y \in T : x <= y
<1> DEFINE R == OpToRel(<, Nat)
<1>1. IsWellFoundedOn(R, Nat)
  BY NatLessThanWellFounded
<1> HIDE DEF R
<1>2. PICK x \in T : \A y \in T : ~ (<<y, x>> \in R)
  BY <1>1, WFMin
<1>3. \A y \in T : ~(y < x)
  BY <1>2 DEF R, OpToRel
<1> QED
  BY <1>2, <1>3

\* The numbers of a list are bounded.
LEMMA BoundExists ==
    ASSUME NEW n \in Nat, NEW f, \A k \in 1..n : f[k] \in Nat
    PROVE  \E b \in Nat : \A k \in 1..n : f[k] <= b
<1> DEFINE Bounded(m) == \E b \in Nat : \A k \in 1..m : f[k] <= b
           T == {m \in 0..n : ~Bounded(m)}
<1> SUFFICES ASSUME T # {} PROVE FALSE
  <2>1. n \in 0..n /\ n \notin T => Bounded(n)
    OBVIOUS
  <2> HIDE DEF T
  <2> QED
    BY <2>1
<1>1. PICK m \in T : \A y \in T : m <= y
  <2>1. T \subseteq Nat
    OBVIOUS
  <2> HIDE DEF T
  <2> QED
    BY <2>1, LeastExists
<1>2. m # 0
  <2>1. 0 \in Nat /\ \A k \in 1..0 : f[k] <= 0
    OBVIOUS
  <2>2. Bounded(0)
    BY <2>1
  <2> QED
    BY <1>1, <2>2
<1>3. m - 1 \in 0..n /\ m - 1 \notin T
  <2>1. m \in 0..n
    BY <1>1
  <2>2. m - 1 \in 0..n /\ ~(m <= m - 1)
    BY <1>2, <2>1
  <2> QED
    BY <1>1, <2>2
<1>4. PICK b \in Nat : \A k \in 1..(m - 1) : f[k] <= b
  BY <1>3
<1>5. f[m] \in Nat
  BY <1>1, <1>2
<1>6. \A k \in 1..m : f[k] <= IF b < f[m] THEN f[m] ELSE b
  <2> TAKE k \in 1..m
  <2>1. CASE k = m
    BY <1>4, <1>5, <2>1
  <2>2. CASE k # m
    <3>1. k \in 1..(m - 1) /\ f[k] \in Nat
      BY <1>1, <2>2
    <3> QED
      BY <1>4, <1>5, <3>1
  <2> QED
    BY <2>1, <2>2
<1>7. Bounded(m)
  <2>1. (IF b < f[m] THEN f[m] ELSE b) \in Nat
    BY <1>4, <1>5
  <2> QED
    BY <1>6, <2>1
<1> QED
  BY <1>1, <1>7

-----------------------------------------------------------------------------
(* Names that survive. *)

\* A list has natural positions.
LEMMA ListDomain ==
    ASSUME NEW d \in AllData
    PROVE  /\ DOMAIN d.points \subseteq Nat /\ DOMAIN d.ways \subseteq Nat
           /\ Len(d.polys) \in Nat /\ DOMAIN d.polys = 1..Len(d.polys)
BY DataAssumption

\* misplaced_place_twins drops a point only for a home point of its name, and
\* the first of those stays.
LEMMA TwinKept ==
    ASSUME NEW d \in AllData, NEW i \in DOMAIN d.points
    PROVE  \E k \in DOMAIN d.points \ MisplacedPlaceTwins(d) : d.points[k].name = d.points[i].name
<1>1. CASE i \notin MisplacedPlaceTwins(d)
  BY <1>1
<1>2. CASE i \in MisplacedPlaceTwins(d)
  <2> DEFINE T == {k \in DOMAIN d.points :
                     /\ d.points[k].name = d.points[i].name /\ d.points[k].rank = d.points[i].rank
                     /\ HomePoint(d.points[k])}
  <2>1. T # {}
    BY <1>2 DEF MisplacedPlaceTwins
  <2>2. T \subseteq Nat
    BY ListDomain
  <2>3. PICK x \in T : \A y \in T : x <= y
    <3> HIDE DEF T
    <3> QED
      BY <2>1, <2>2, LeastExists
  <2>4. x \notin MisplacedPlaceTwins(d)
    <3> SUFFICES ASSUME x \in MisplacedPlaceTwins(d) PROVE FALSE
      OBVIOUS
    <3>1. PICK j \in DOMAIN d.points :
             /\ d.points[j].name = d.points[x].name /\ d.points[j].rank = d.points[x].rank
             /\ HomePoint(d.points[j]) /\ j < x
      BY <2>3 DEF MisplacedPlaceTwins
    <3>2. j \in T /\ j \in Nat /\ x \in Nat
      BY <2>2, <2>3, <3>1
    <3> QED
      BY <2>3, <3>1, <3>2
  <2> QED
    BY <2>3, <2>4
<1> QED
  BY <1>1, <1>2

\* A place point leaves a place document of its name.
LEMMA PointNamed ==
    ASSUME NEW d \in AllData, NEW i \in DOMAIN d.points
    PROVE  \E x \in PlaceDocs(d) : x.name = d.points[i].name
<1>1. PICK k \in DOMAIN d.points \ MisplacedPlaceTwins(d) : d.points[k].name = d.points[i].name
  BY TwinKept
<1> DEFINE p == d.points[k]
           x == Doc("place", p.name, Alternates(p) \cup ForPlace(d, Admin[p.pos].cc, p.name, p.pos),
                    p.rank, p.pos, {Admin[p.pos].city}, Admin[p.pos].cc)
<1>2. x \in PlaceDocs(d)
  BY DEF PlaceDocs
<1>3. x.name = p.name
  BY DEF Doc
<1> QED
  BY <1>1, <1>2, <1>3

\* build_admin_metro_keep_set keeps one of each cluster: the first of the
\* largest.
LEMMA ClusterKept ==
    ASSUME NEW d \in AllData, NEW i \in Named(d)
    PROVE  \E k \in AdminMetroKeepSet(d) : d.polys[k].name = d.polys[i].name
<1> DEFINE P == d.polys
           C == {j \in Named(d) : SameCluster(P[i], P[j])}
           area == [j \in DOMAIN P |-> P[j].area]
<1>1. /\ Named(d) \subseteq DOMAIN P /\ DOMAIN P = 1..Len(P) /\ Len(P) \in Nat
      /\ \A j \in DOMAIN P : j \in Nat /\ area[j] \in Nat
  BY ListDomain, DataAssumption DEF Named
<1>2. i \in C
  BY DEF SameCluster
<1>3. PICK b \in Nat : \A j \in DOMAIN P : area[j] <= b
  <2> HIDE DEF area
  <2> QED
    BY <1>1, BoundExists
<1> HIDE DEF area
<1>4. PICK top \in C : \A j \in C : area[j] <= area[top]
  <2> DEFINE M == {b - area[j] : j \in C}
  <2>1. C \subseteq DOMAIN P
    BY <1>1
  <2>2. M \subseteq Nat /\ M # {}
    BY <1>1, <1>2, <1>3, <2>1
  <2>3. PICK m \in M : \A y \in M : m <= y
    <3> HIDE DEF M
    <3> QED
      BY <2>2, LeastExists
  <2>4. PICK top \in C : m = b - area[top]
    BY <2>3
  <2>5. \A j \in C : area[j] <= area[top]
    <3> TAKE j \in C
    <3>1. b - area[top] <= b - area[j]
      BY <2>3, <2>4
    <3>2. area[j] \in Nat /\ area[top] \in Nat
      BY <1>1, <2>1
    <3> QED
      BY <3>1, <3>2
  <2> QED
    BY <2>5
<1> DEFINE E == {j \in C : area[j] = area[top]}
<1>5. PICK k \in E : \A j \in E : k <= j
  <2>1. E \subseteq Nat /\ E # {}
    BY <1>1, <1>4
  <2> HIDE DEF E
  <2> QED
    BY <2>1, LeastExists
<1>6. k \in AdminMetroKeepSet(d)
  <2> SUFFICES ASSUME NEW j \in Named(d) \ {k}, SameCluster(P[k], P[j])
               PROVE  P[j].area < P[k].area \/ (P[j].area = P[k].area /\ k < j)
    BY <1>5 DEF AdminMetroKeepSet
  <2>1. j \in C
    BY <1>5 DEF SameCluster
  <2>2. /\ area[j] = P[j].area /\ area[k] = P[k].area /\ area[j] \in Nat /\ area[k] \in Nat
        /\ j \in Nat /\ k \in Nat
    BY <1>1, <1>5 DEF area
  <2>3. area[j] <= area[k]
    BY <1>4, <1>5, <2>1
  <2>4. area[j] = area[k] => k <= j
    BY <1>5, <2>1
  <2> QED
    BY <2>2, <2>3, <2>4
<1>7. P[k].name = P[i].name
  BY <1>5 DEF SameCluster
<1> QED
  BY <1>6, <1>7

\* A polygon of a named level leaves a document of its name, its own or a point's.
LEMMA PolygonNamed ==
    ASSUME NEW d \in AllData, NEW i \in Named(d)
    PROVE  \E x \in PlaceDocs(d) \cup PolygonDocs(d) : x.name = d.polys[i].name
<1>1. PICK k \in AdminMetroKeepSet(d) : d.polys[k].name = d.polys[i].name
  BY ClusterKept
<1> DEFINE g == d.polys[k]
           pos == Centroid(g.ring)
           x == Doc("place", g.name, Alternates(g) \cup ForPlace(d, Admin[pos].cc, g.name, pos),
                    g.level + 8, pos, {Admin[pos].city}, Admin[pos].cc)
<1>2. CASE CoveredByPlace(d, g)
  <2>1. PICK j \in DOMAIN d.points : d.points[j].name = g.name
    BY <1>2 DEF CoveredByPlace
  <2> QED
    BY <1>1, <2>1, PointNamed
<1>3. CASE ~CoveredByPlace(d, g)
  <2>1. x \in PolygonDocs(d)
    BY <1>3 DEF PolygonDocs
  <2>2. x.name = g.name
    BY DEF Doc
  <2> QED
    BY <1>1, <2>1, <2>2
<1> QED
  BY <1>2, <1>3

-----------------------------------------------------------------------------
(* The documents of the two layouts. *)

\* What the layouts have in common.
Others(d) == PlaceDocs(d) \cup PolygonDocs(d) \cup PoiDocs(d)
               \cup OsmAddressDocs(d) \cup GnafDocs(d) \cup OpenAddressesDocs(d)

\* The fields of a document.
LEMMA DocFields ==
    ASSUME NEW kind, NEW name, NEW alternates, NEW rank, NEW pos, NEW suburb, NEW cc
    PROVE  LET x == Doc(kind, name, alternates, rank, pos, suburb, cc)
           IN  /\ x.kind = kind /\ x.name = name /\ x.alt = AltTokens(name, alternates)
               /\ x.pos = pos /\ x.suburb = suburb \ {None} /\ x.cc = cc
BY DEF Doc

\* The kind and the country of an address document.
LEMMA AddressFields ==
    ASSUME NEW street, NEW hn, NEW pos, NEW localities, NEW cc, NEW rank
    PROVE  LET x == AddressDoc(street, hn, pos, localities, cc, rank)
           IN  x.kind = "address" /\ x.cc = cc
BY DEF AddressDoc, Doc

\* Every document but a street comes with a country of the data, or none.
LEMMA OtherFacts ==
    ASSUME NEW d \in AllData, NEW x \in Others(d)
    PROVE  x.kind # "street" /\ x.cc \in Countries \cup {None}
<1>1. CASE x \in PlaceDocs(d)
  <2>1. PICK i \in DOMAIN d.points :
           \E name, alts, rank, pos, suburb :
             x = Doc("place", name, alts, rank, pos, suburb, Admin[d.points[i].pos].cc)
    BY <1>1 DEF PlaceDocs
  <2>2. x.kind = "place" /\ x.cc = Admin[d.points[i].pos].cc
    BY <2>1, DocFields
  <2> QED
    BY <2>2, IndexAssumption, DataAssumption
<1>2. CASE x \in PolygonDocs(d)
  <2>1. PICK i \in DOMAIN d.polys :
           \E name, alts, rank, pos, suburb :
             x = Doc("place", name, alts, rank, pos, suburb, Admin[Centroid(d.polys[i].ring)].cc)
    BY <1>2 DEF PolygonDocs, AdminMetroKeepSet, Named
  <2>2. x.kind = "place" /\ x.cc = Admin[Centroid(d.polys[i].ring)].cc
    BY <2>1, DocFields
  <2> QED
    BY <2>2, IndexAssumption, DataAssumption
<1>3. CASE x \in PoiDocs(d)
  <2>1. PICK i \in DOMAIN d.pois :
           \E name, alts, rank, pos, suburb :
             x = Doc("poi", name, alts, rank, pos, suburb, Admin[d.pois[i].pos].cc)
    BY <1>3 DEF PoiDocs
  <2>2. x.kind = "poi" /\ x.cc = Admin[d.pois[i].pos].cc
    BY <2>1, DocFields
  <2> QED
    BY <2>2, IndexAssumption, DataAssumption
<1>4. CASE x \in OsmAddressDocs(d)
  <2>1. PICK i \in DOMAIN d.osm :
           \E street, hn, pos, localities, rank :
             x = AddressDoc(street, hn, pos, localities, Admin[d.osm[i].pos].cc, rank)
    BY <1>4 DEF OsmAddressDocs
  <2>2. x.kind = "address" /\ x.cc = Admin[d.osm[i].pos].cc
    BY <2>1, AddressFields
  <2> QED
    BY <2>2, IndexAssumption, DataAssumption
<1>5. CASE x \in GnafDocs(d)
  <2>1. /\ d.hasGnaf
        /\ \E street, hn, pos, localities, rank :
             x = AddressDoc(street, hn, pos, localities, "AU", rank)
    BY <1>5 DEF GnafDocs
  <2>2. x.kind = "address" /\ x.cc = "AU"
    BY <2>1, AddressFields
  <2> QED
    BY <2>1, <2>2, DataAssumption
<1>6. CASE x \in OpenAddressesDocs(d)
  <2>1. PICK y \in ToSet(d.oa) :
           \E street, hn, pos, localities, rank :
             x = AddressDoc(street, hn, pos, localities, y.shard, rank)
    BY <1>6 DEF OpenAddressesDocs
  <2>2. x.kind = "address" /\ x.cc = y.shard
    BY <2>1, AddressFields
  <2> QED
    BY <2>1, <2>2, DataAssumption
<1> QED
  BY <1>1, <1>2, <1>3, <1>4, <1>5, <1>6 DEF Others

\* The street document of a way, and the ways of which it is made.
StreetDoc(w) == Doc("street", w.name, {}, 26, w.mid, {CityWithPlace(Admin[w.mid])}, Admin[w.mid].cc)
StreetKey(w, layout) == <<w.name, CityWithPlace(Admin[w.mid]),
                          IF layout = Default THEN None ELSE Admin[w.mid].cc>>
Ways(d, layout) == {i \in DOMAIN d.ways : layout = Default \/ Admin[d.ways[i].mid].cc # None}

\* The fields of a street document that the properties read.
LEMMA StreetFields ==
    ASSUME NEW w
    PROVE  /\ StreetDoc(w).kind = "street" /\ StreetDoc(w).name = w.name
           /\ StreetDoc(w).suburb = {CityWithPlace(Admin[w.mid])} \ {None}
           /\ StreetDoc(w).cc = Admin[w.mid].cc
BY DocFields DEF StreetDoc

\* The street documents are those of the first way of each key.
LEMMA StreetsAreWays ==
    ASSUME NEW d, NEW layout
    PROVE  StreetDocs(d, layout) =
             {StreetDoc(d.ways[i]) :
                i \in {k \in Ways(d, layout) : \A j \in Ways(d, layout) : j < k =>
                         StreetKey(d.ways[j], layout) # StreetKey(d.ways[k], layout)}}
BY DEF StreetDocs, StreetDoc, StreetKey, Ways

\* A street document is that of a way, and in a country of the data or none.
LEMMA StreetFacts ==
    ASSUME NEW d \in AllData, NEW layout, NEW x \in StreetDocs(d, layout)
    PROVE  /\ x.kind = "street" /\ x.cc \in Countries \cup {None}
           /\ \E i \in Ways(d, layout) : x = StreetDoc(d.ways[i])
<1>1. PICK i \in Ways(d, layout) : x = StreetDoc(d.ways[i])
  BY StreetsAreWays
<1>2. Admin[d.ways[i].mid].cc \in Countries \cup {None}
  BY IndexAssumption, DataAssumption DEF Ways
<1> QED
  BY <1>1, <1>2, StreetFields

\* Each way that is offered has the document of the first way of its key.
LEMMA WayHasStreet ==
    ASSUME NEW d \in AllData, NEW layout, NEW i \in Ways(d, layout)
    PROVE  \E k \in Ways(d, layout) : /\ StreetKey(d.ways[k], layout) = StreetKey(d.ways[i], layout)
                                      /\ StreetDoc(d.ways[k]) \in StreetDocs(d, layout)
<1> DEFINE T == {k \in Ways(d, layout) : StreetKey(d.ways[k], layout) = StreetKey(d.ways[i], layout)}
<1>1. T \subseteq Nat /\ T # {}
  BY ListDomain DEF Ways
<1>2. PICK k \in T : \A y \in T : k <= y
  <2> HIDE DEF T
  <2> QED
    BY <1>1, LeastExists
<1>3. \A j \in Ways(d, layout) : j < k => StreetKey(d.ways[j], layout) # StreetKey(d.ways[k], layout)
  <2> SUFFICES ASSUME NEW j \in Ways(d, layout), j < k,
                      StreetKey(d.ways[j], layout) = StreetKey(d.ways[k], layout)
               PROVE  FALSE
    OBVIOUS
  <2>1. j \in T /\ j \in Nat /\ k \in Nat
    BY <1>1, <1>2
  <2> QED
    BY <1>2, <2>1
<1>4. StreetDoc(d.ways[k]) \in StreetDocs(d, layout)
  BY <1>2, <1>3, StreetsAreWays
<1> QED
  BY <1>2, <1>4

\* The documents of a layout are streets and others.
LEMMA CandidatesSplit ==
    ASSUME NEW d, NEW layout
    PROVE  Candidates(d, layout) = Others(d) \cup StreetDocs(d, layout)
BY DEF Candidates, Others

\* Directories are those of countries.
LEMMA BucketsAreCountries ==
    ASSUME NEW d \in AllData
    PROVE  Buckets(d) \subseteq Countries
<1>1. \A x \in Candidates(d, "partitioned") : x.cc \in Countries \cup {None}
  BY CandidatesSplit, OtherFacts, StreetFacts
<1>2. /\ \A x \in ToSet(d.oa) : x.shard \in Countries
      /\ d.hasGnaf => "AU" \in Countries
  BY DataAssumption
<1> QED
  BY <1>1, <1>2 DEF Buckets

\* The directories of a partitioned build hold every document that has a country.
LEMMA PartsAre ==
    ASSUME NEW d \in AllData
    PROVE  UNION {DirDocs(d, cc) : cc \in Buckets(d)} = {x \in Candidates(d, "partitioned") : x.cc # None}
<1>1. \A cc \in Buckets(d) : /\ cc # None /\ cc # Default
                             /\ DirDocs(d, cc) = {x \in Candidates(d, "partitioned") : x.cc = cc}
  BY BucketsAreCountries, IndexAssumption DEF DirDocs
<1>2. \A x \in Candidates(d, "partitioned") : x.cc # None => x.cc \in Buckets(d)
  BY DEF Buckets
<1> QED
  BY <1>1, <1>2

\* The directories of the countries together hold what the default directory holds
\* in known countries, streets up to their name and suburb.
LEMMA LayoutFacts ==
    ASSUME NEW d \in AllData
    PROVE  LET mono == Candidates(d, Default)
               parts == UNION {DirDocs(d, cc) : cc \in Buckets(d)}
           IN /\ {x \in mono : x.kind # "street" /\ x.cc # None} = {x \in parts : x.kind # "street"}
              /\ \A x \in mono : (x.kind = "street" /\ x.cc # None) =>
                   \E y \in parts : <<y.kind, y.name, y.suburb, y.cc>> = <<x.kind, x.name, x.suburb, x.cc>>
              /\ \A y \in parts : y.kind = "street" =>
                   \E x \in mono : <<x.kind, x.name, x.suburb>> = <<y.kind, y.name, y.suburb>>
<1> DEFINE mono == Candidates(d, Default)
           parts == UNION {DirDocs(d, cc) : cc \in Buckets(d)}
<1>1. parts = {x \in Others(d) \cup StreetDocs(d, "partitioned") : x.cc # None}
  BY PartsAre, CandidatesSplit
<1>2. mono = Others(d) \cup StreetDocs(d, Default)
  BY CandidatesSplit
<1>3. /\ \A x \in Others(d) : x.kind # "street"
      /\ \A x \in StreetDocs(d, Default) \cup StreetDocs(d, "partitioned") : x.kind = "street"
  BY OtherFacts, StreetFacts
<1> HIDE DEF mono, parts
<1>4. {x \in mono : x.kind # "street" /\ x.cc # None} = {x \in parts : x.kind # "street"}
  BY <1>1, <1>2, <1>3
<1>5. ASSUME NEW x \in mono, x.kind = "street", x.cc # None
      PROVE  \E y \in parts : <<y.kind, y.name, y.suburb, y.cc>> = <<x.kind, x.name, x.suburb, x.cc>>
  <2>1. PICK i \in Ways(d, Default) : x = StreetDoc(d.ways[i])
    BY <1>2, <1>3, <1>5, StreetFacts
  <2>2. i \in Ways(d, "partitioned")
    BY <1>5, <2>1, StreetFields DEF Ways
  <2>3. PICK k \in Ways(d, "partitioned") :
           /\ StreetKey(d.ways[k], "partitioned") = StreetKey(d.ways[i], "partitioned")
           /\ StreetDoc(d.ways[k]) \in StreetDocs(d, "partitioned")
    BY <2>2, WayHasStreet
  <2> DEFINE y == StreetDoc(d.ways[k])
  <2>4. y.kind = x.kind /\ y.name = x.name /\ y.suburb = x.suburb /\ y.cc = x.cc
    BY <2>1, <2>3, StreetFields DEF StreetKey, Default
  <2> HIDE DEF y
  <2>5. y \in parts
    BY <1>1, <1>5, <2>3, <2>4 DEF y
  <2> QED
    BY <2>4, <2>5
<1>6. ASSUME NEW y \in parts, y.kind = "street"
      PROVE  \E x \in mono : <<x.kind, x.name, x.suburb>> = <<y.kind, y.name, y.suburb>>
  <2>1. PICK i \in Ways(d, "partitioned") : y = StreetDoc(d.ways[i])
    BY <1>1, <1>3, <1>6, StreetFacts
  <2>2. i \in Ways(d, Default)
    BY DEF Ways
  <2>3. PICK k \in Ways(d, Default) :
           /\ StreetKey(d.ways[k], Default) = StreetKey(d.ways[i], Default)
           /\ StreetDoc(d.ways[k]) \in StreetDocs(d, Default)
    BY <2>2, WayHasStreet
  <2> DEFINE x == StreetDoc(d.ways[k])
  <2>4. x.kind = y.kind /\ x.name = y.name /\ x.suburb = y.suburb
    BY <2>1, <2>3, StreetFields DEF StreetKey
  <2> HIDE DEF x
  <2>5. x \in mono
    BY <1>2, <2>3 DEF x
  <2> QED
    BY <2>4, <2>5
<1> QED
  BY <1>4, <1>5, <1>6 DEF mono, parts

-----------------------------------------------------------------------------
(* Alternates. *)

\* An alternate's tokens are indexed with its place, those of one word by themselves.
LEMMA AltTokensHave ==
    ASSUME NEW name, NEW alternates, NEW alt \in alternates
    PROVE  /\ ToSet(Tokens[alt]) \subseteq ToSet(Tokens[name]) \cup AltTokens(name, alternates)
           /\ Len(Tokens[alt]) = 1 => ToSet(Tokens[alt]) \subseteq AltTokens(name, alternates)
<1> DEFINE Short(a) == IF Len(Tokens[a]) = 1 THEN ToSet(Tokens[a]) ELSE {}
           Added(a) == Short(a) \cup (ToSet(Tokens[a]) \ ToSet(Tokens[name]))
<1>1. Added(alt) \subseteq AltTokens(name, alternates)
  BY DEF AltTokens
<1> QED
  BY <1>1

\* A document with the alternates of an entity is found by each of them.
LEMMA FoundByOwn ==
    ASSUME NEW p, NEW more, NEW kind, NEW rank, NEW pos, NEW suburb, NEW cc, NEW docs,
           Doc(kind, p.name, Alternates(p) \cup more, rank, pos, suburb, cc) \in docs
    PROVE  FoundByAlternates(p, pos, docs)
<1> DEFINE x == Doc(kind, p.name, Alternates(p) \cup more, rank, pos, suburb, cc)
<1>1. x.name = p.name /\ x.pos = pos /\ x.alt = AltTokens(p.name, Alternates(p) \cup more)
  BY DocFields
<1> HIDE DEF x
<1>2. x \in docs
  BY DEF x
<1> SUFFICES ASSUME NEW alt \in Alternates(p)
             PROVE  /\ ToSet(Tokens[alt]) \subseteq ToSet(Tokens[x.name]) \cup x.alt
                    /\ Len(Tokens[alt]) = 1 => ToSet(Tokens[alt]) \subseteq x.alt
  BY <1>1, <1>2 DEF FoundByAlternates
<1>3. alt \in Alternates(p) \cup more
  OBVIOUS
<1> QED
  BY <1>1, <1>3, AltTokensHave

\* Places, polygons and POIs are found by their alternates.
LEMMA AlternateFacts ==
    ASSUME NEW d \in AllData
    PROVE  /\ \A i \in DOMAIN d.points \ MisplacedPlaceTwins(d) :
                FoundByAlternates(d.points[i], d.points[i].pos, PlaceDocs(d))
           /\ \A i \in AdminMetroKeepSet(d) : ~CoveredByPlace(d, d.polys[i]) =>
                FoundByAlternates(d.polys[i], Centroid(d.polys[i].ring), PolygonDocs(d))
           /\ \A i \in DOMAIN d.pois : FoundByAlternates(d.pois[i], d.pois[i].pos, PoiDocs(d))
<1>1. ASSUME NEW i \in DOMAIN d.points \ MisplacedPlaceTwins(d)
      PROVE  FoundByAlternates(d.points[i], d.points[i].pos, PlaceDocs(d))
  <2> DEFINE p == d.points[i]
             more == ForPlace(d, Admin[p.pos].cc, p.name, p.pos)
  <2>1. Doc("place", p.name, Alternates(p) \cup more, p.rank, p.pos, {Admin[p.pos].city}, Admin[p.pos].cc)
          \in PlaceDocs(d)
    BY DEF PlaceDocs
  <2> QED
    BY <2>1, FoundByOwn
<1>2. ASSUME NEW i \in AdminMetroKeepSet(d), ~CoveredByPlace(d, d.polys[i])
      PROVE  FoundByAlternates(d.polys[i], Centroid(d.polys[i].ring), PolygonDocs(d))
  <2> DEFINE g == d.polys[i]
             pos == Centroid(g.ring)
             more == ForPlace(d, Admin[pos].cc, g.name, pos)
  <2>1. Doc("place", g.name, Alternates(g) \cup more, g.level + 8, pos, {Admin[pos].city}, Admin[pos].cc)
          \in PolygonDocs(d)
    BY <1>2 DEF PolygonDocs
  <2> QED
    BY <2>1, FoundByOwn
<1>3. ASSUME NEW i \in DOMAIN d.pois
      PROVE  FoundByAlternates(d.pois[i], d.pois[i].pos, PoiDocs(d))
  <2> DEFINE p == d.pois[i]
             suburb == {IF p.parent # None THEN p.parent ELSE Admin[p.pos].city}
  <2>1. Doc("poi", p.name, Alternates(p), p.rank, p.pos, suburb, Admin[p.pos].cc) \in PoiDocs(d)
    BY DEF PoiDocs
  <2>2. Alternates(p) = Alternates(p) \cup {}
    OBVIOUS
  <2> QED
    BY <2>1, <2>2, FoundByOwn
<1> QED
  BY <1>1, <1>2, <1>3

-----------------------------------------------------------------------------
(* The inductive invariant. *)

\* The data sets that were built are data sets.
SourcesOK == data \in AllData /\ sources \in Seq(AllData)

\* A directory, or what a server shows of it: documents are there only after a
\* commit, and then all those of the build that committed them.
WholeCommit(s, dir, built) ==
    /\ DOMAIN s = {"state", "build", "docs"}
    /\ s.state \in {"absent", "created", "committed"} /\ s.build \in 0..Len(built)
    /\ s.docs # {} => /\ s.state = "committed" /\ s.build # 0
                      /\ s.docs = DirDocs(built[s.build], dir)

DiskOK == DOMAIN disk = Dirs /\ \A dir \in Dirs : WholeCommit(disk[dir], dir, sources)

\* A build owns the directories it has yet to commit; while it runs none of its
\* directories is uncommitted behind its back, and the manifest is of an earlier
\* build.
BuildOK ==
    /\ DOMAIN build = {"phase", "layout", "todo", "open", "ok"}
    /\ build.phase \in {"idle", "writing"} /\ build.ok \in BOOLEAN
    /\ build.todo \subseteq Dirs /\ build.open \subseteq Dirs /\ build.todo \cap build.open = {}
    /\ build.phase = "idle" => build.todo = {} /\ build.open = {}
    /\ \A dir \in build.open : disk[dir].build = builds /\ builds # 0
    /\ build.phase = "writing" =>
         /\ manifest.build < builds
         /\ build.ok => \A dir \in Dirs :
              disk[dir].build = builds => dir \in build.open \/ disk[dir].state = "committed"

ManifestOK == manifest.build \in 0..builds /\ ManifestNotAhead

ServerOK ==
    /\ DOMAIN server = {"up", "shows"} /\ server.up \in BOOLEAN
    /\ DOMAIN server.shows \subseteq Dirs
    /\ \A dir \in DOMAIN server.shows : WholeCommit(server.shows[dir], dir, sources)

IInv == SourcesOK /\ DiskOK /\ BuildOK /\ ManifestOK /\ ServerOK

\* A further build does not change what earlier ones were of.
LEMMA WholeStays ==
    ASSUME NEW built \in Seq(AllData), NEW d \in AllData, NEW s, NEW dir,
           WholeCommit(s, dir, built)
    PROVE  WholeCommit(s, dir, Append(built, d))
<1>1. /\ Len(Append(built, d)) = Len(built) + 1 /\ Len(built) \in Nat
      /\ \A b \in 1..Len(built) : Append(built, d)[b] = built[b]
  OBVIOUS
<1>2. s.build \in 0..Len(built)
  BY DEF WholeCommit
<1>3. s.build \in 0..(Len(built) + 1) /\ (s.build # 0 => s.build \in 1..Len(built))
  BY <1>1, <1>2
<1> QED
  BY <1>1, <1>3 DEF WholeCommit

\* Nothing is built at first.
LEMMA InitOK == Init => IInv
<1> SUFFICES ASSUME Init PROVE IInv
  OBVIOUS
<1>1. SourcesOK /\ Len(sources) = 0
  BY IndexAssumption DEF Init, SourcesOK
<1>2. DiskOK
  <2>1. \A dir \in Dirs : disk[dir] = Absent
    BY DEF Init
  <2>2. \A dir \in Dirs : WholeCommit(Absent, dir, sources)
    BY <1>1 DEF WholeCommit, Absent
  <2> QED
    BY <2>1, <2>2 DEF DiskOK, Init
<1>3. BuildOK
  BY DEF Init, BuildOK, NoBuild
<1>4. ManifestOK
  BY <1>1 DEF Init, ManifestOK, ManifestNotAhead, builds
<1>5. ServerOK
  BY DEF Init, ServerOK, Down
<1> QED
  BY <1>1, <1>2, <1>3, <1>4, <1>5 DEF IInv

\* A build begins: its directories are still those of earlier builds.
LEMMA StartBuildOK ==
    ASSUME IInv, NEW layout \in {Default, "partitioned"}, StartBuild(layout)
    PROVE  IInv'
<1>1. /\ data \in AllData /\ sources \in Seq(AllData) /\ sources' = Append(sources, data)
      /\ data' = data /\ disk' = disk /\ manifest' = manifest /\ server' = server
  BY DEF StartBuild, IInv, SourcesOK
<1>2. /\ sources' \in Seq(AllData) /\ Len(sources') = Len(sources) + 1 /\ Len(sources) \in Nat
  BY <1>1
<1>3. SourcesOK'
  BY <1>1, <1>2 DEF SourcesOK
<1>4. DiskOK'
  BY <1>1, WholeStays DEF IInv, DiskOK
<1>5. \A dir \in Dirs : disk[dir].build \in 0..Len(sources)
  BY DEF IInv, DiskOK, WholeCommit
<1>6. BuildOK'
  <2>1. build' = [phase |-> "writing", layout |-> layout, open |-> {}, ok |-> TRUE,
                  todo |-> IF layout = Default THEN {Default} ELSE Buckets(data)]
    BY DEF StartBuild
  <2>2. /\ DOMAIN build' = {"phase", "layout", "todo", "open", "ok"} /\ build'.phase = "writing"
        /\ build'.open = {} /\ build'.todo = IF layout = Default THEN {Default} ELSE Buckets(data)
    BY <2>1
  <2>3. build'.ok \in BOOLEAN
    BY <2>1
  <2>4. build'.todo \subseteq Dirs
    BY <1>1, <2>2, BucketsAreCountries DEF Dirs
  <2>5. manifest.build \in 0..Len(sources)
    BY DEF IInv, ManifestOK, builds
  <2>6. \A dir \in Dirs : disk'[dir].build # builds'
    BY <1>1, <1>2, <1>5 DEF builds
  <2> QED
    BY <1>1, <1>2, <2>2, <2>3, <2>4, <2>5, <2>6 DEF BuildOK, builds
<1>7. ManifestOK'
  BY <1>1, <1>2 DEF IInv, ManifestOK, ManifestNotAhead, builds
<1>8. ServerOK'
  BY <1>1, WholeStays DEF IInv, ServerOK
<1> QED
  BY <1>3, <1>4, <1>6, <1>7, <1>8 DEF IInv

\* Only what is on disk and the running build change; the data sets, the
\* manifest and the server do not.
LEMMA OneDirOK ==
    ASSUME IInv, UNCHANGED <<data, sources, manifest, server>>, NEW dir \in Dirs,
           NEW s, disk' = [disk EXCEPT ![dir] = s], WholeCommit(s, dir, sources),
           s.build = builds, manifest.build < builds, BuildOK'
    PROVE  IInv'
<1>1. SourcesOK' /\ ServerOK'
  BY DEF IInv, SourcesOK, ServerOK
<1>2. /\ DOMAIN disk' = Dirs /\ disk'[dir] = s
      /\ \A x \in Dirs : x # dir => disk'[x] = disk[x]
  BY DEF IInv, DiskOK
<1>3. DiskOK'
  BY <1>2 DEF IInv, DiskOK
<1>4. builds \in Nat /\ builds' = builds /\ manifest.build \in 0..builds
  BY DEF builds, IInv, SourcesOK, ManifestOK
<1>5. ManifestOK'
  BY <1>2, <1>4 DEF IInv, ManifestOK, ManifestNotAhead
<1> QED
  BY <1>1, <1>3, <1>5 DEF IInv

\* Clearing a directory leaves the others whole, and it is not committed.
LEMMA ClearDirOK ==
    ASSUME IInv, NEW dir \in Dirs, ClearDir(dir)
    PROVE  IInv'
<1> DEFINE s == [Absent EXCEPT !.build = builds]
<1>1. /\ build.phase = "writing" /\ dir \in build.todo
      /\ build' = [build EXCEPT !.todo = @ \ {dir}, !.open = @ \cup {dir}]
      /\ disk' = [disk EXCEPT ![dir] = s] /\ UNCHANGED <<data, sources, manifest, server>>
  BY DEF ClearDir
<1>2. /\ DOMAIN s = {"state", "build", "docs"} /\ s.state = "absent" /\ s.build = builds /\ s.docs = {}
  BY DEF Absent
<1> HIDE DEF s
<1>3. builds \in Nat /\ builds' = builds /\ manifest.build \in 0..builds /\ manifest.build < builds
  BY <1>1 DEF builds, IInv, SourcesOK, ManifestOK, BuildOK
<1>4. WholeCommit(s, dir, sources)
  BY <1>2, <1>3 DEF WholeCommit, builds
<1>5. BuildOK'
  <2>1. /\ DOMAIN build' = DOMAIN build /\ build'.phase = build.phase
        /\ build'.todo = build.todo \ {dir} /\ build'.open = build.open \cup {dir}
        /\ build'.ok = build.ok
    BY <1>1 DEF IInv, BuildOK
  <2>2. /\ disk'[dir] = s /\ \A x \in Dirs : x # dir => disk'[x] = disk[x]
    BY <1>1 DEF IInv, DiskOK
  <2>3. \A x \in build'.open : disk'[x].build = builds' /\ builds' # 0
    BY <1>2, <1>3, <2>1, <2>2 DEF IInv, BuildOK
  <2>4. build'.ok => \A x \in Dirs :
          disk'[x].build = builds' => x \in build'.open \/ disk'[x].state = "committed"
    BY <1>1, <1>3, <2>1, <2>2 DEF IInv, BuildOK
  <2>5. build'.ok \in BOOLEAN
    BY <2>1 DEF IInv, BuildOK
  <2> QED
    BY <1>1, <1>3, <2>1, <2>3, <2>4, <2>5 DEF IInv, BuildOK
<1> QED
  BY <1>1, <1>2, <1>3, <1>4, <1>5, OneDirOK

\* An index that was just created is empty, hence whole.
LEMMA CreateDirOK ==
    ASSUME IInv, NEW dir \in Dirs, CreateDir(dir)
    PROVE  IInv'
<1> DEFINE s == [disk[dir] EXCEPT !.state = "created"]
<1>1. /\ dir \in build.open /\ disk[dir].state = "absent" /\ build' = build
      /\ disk' = [disk EXCEPT ![dir] = s] /\ UNCHANGED <<data, sources, manifest, server>>
  BY DEF CreateDir
<1>2. /\ build.phase = "writing" /\ disk[dir].build = builds /\ builds # 0
      /\ WholeCommit(disk[dir], dir, sources)
  BY <1>1 DEF IInv, BuildOK, DiskOK
<1>3. /\ DOMAIN s = {"state", "build", "docs"} /\ s.state = "created" /\ s.build = builds
      /\ s.docs = {}
  BY <1>1, <1>2 DEF WholeCommit
<1> HIDE DEF s
<1>4. builds \in Nat /\ builds' = builds /\ manifest.build < builds
  BY <1>1, <1>2 DEF builds, IInv, SourcesOK, BuildOK
<1>5. WholeCommit(s, dir, sources)
  BY <1>3, <1>4 DEF WholeCommit, builds
<1>6. BuildOK'
  <2>1. /\ disk'[dir] = s /\ \A x \in Dirs : x # dir => disk'[x] = disk[x]
    BY <1>1 DEF IInv, DiskOK
  <2>2. \A x \in build.open : disk'[x].build = builds /\ builds # 0
    BY <1>3, <2>1 DEF IInv, BuildOK
  <2>3. build.ok => \A x \in Dirs :
          disk'[x].build = builds => x \in build.open \/ disk'[x].state = "committed"
    BY <1>1, <1>2, <2>1 DEF IInv, BuildOK
  <2> QED
    BY <1>1, <1>4, <2>2, <2>3 DEF IInv, BuildOK
<1> QED
  BY <1>1, <1>3, <1>4, <1>5, <1>6, OneDirOK

\* A commit writes the documents of the data set the build began with.
LEMMA CommitDirOK ==
    ASSUME IInv, NEW dir \in Dirs, CommitDir(dir)
    PROVE  IInv'
<1> DEFINE s == [state |-> "committed", build |-> builds, docs |-> DirDocs(sources[builds], dir)]
<1>1. /\ dir \in build.open /\ build' = [build EXCEPT !.open = @ \ {dir}]
      /\ disk' = [disk EXCEPT ![dir] = s] /\ UNCHANGED <<data, sources, manifest, server>>
  BY DEF CommitDir
<1>2. build.phase = "writing" /\ builds # 0
  BY <1>1 DEF IInv, BuildOK
<1>3. /\ DOMAIN s = {"state", "build", "docs"} /\ s.state = "committed" /\ s.build = builds
      /\ s.docs = DirDocs(sources[builds], dir)
  OBVIOUS
<1> HIDE DEF s
<1>4. builds \in Nat /\ builds' = builds /\ manifest.build < builds
  BY <1>1, <1>2 DEF builds, IInv, SourcesOK, BuildOK
<1>5. WholeCommit(s, dir, sources)
  BY <1>2, <1>3, <1>4 DEF WholeCommit, builds
<1>6. BuildOK'
  <2>1. /\ DOMAIN build' = DOMAIN build /\ build'.phase = build.phase
        /\ build'.todo = build.todo /\ build'.open = build.open \ {dir} /\ build'.ok = build.ok
    BY <1>1 DEF IInv, BuildOK
  <2>2. /\ disk'[dir] = s /\ \A x \in Dirs : x # dir => disk'[x] = disk[x]
    BY <1>1 DEF IInv, DiskOK
  <2>3. \A x \in build'.open : disk'[x].build = builds' /\ builds' # 0
    BY <1>4, <2>1, <2>2 DEF IInv, BuildOK
  <2>4. build'.ok => \A x \in Dirs :
          disk'[x].build = builds' => x \in build'.open \/ disk'[x].state = "committed"
    BY <1>2, <1>3, <1>4, <2>1, <2>2 DEF IInv, BuildOK
  <2>5. build'.ok \in BOOLEAN
    BY <2>1 DEF IInv, BuildOK
  <2> QED
    BY <1>1, <1>2, <1>4, <2>1, <2>3, <2>4, <2>5 DEF IInv, BuildOK
<1> QED
  BY <1>1, <1>3, <1>4, <1>5, <1>6, OneDirOK

\* A directory that fails is not committed.
LEMMA DirFailsOK ==
    ASSUME IInv, NEW dir \in Dirs, DirFails(dir)
    PROVE  IInv'
<1>1. /\ dir \in build.open /\ build' = [build EXCEPT !.open = @ \ {dir}, !.ok = FALSE]
      /\ UNCHANGED <<data, disk, sources, manifest, server>>
  BY DEF DirFails
<1>2. /\ DOMAIN build' = DOMAIN build /\ build'.phase = build.phase
      /\ build'.todo = build.todo /\ build'.open = build.open \ {dir}
  BY <1>1 DEF IInv, BuildOK
<1>3. build'.ok = FALSE
  BY <1>1 DEF IInv, BuildOK
<1>4. BuildOK'
  <2>1. build'.ok \in BOOLEAN
    BY <1>3
  <2> QED
    BY <1>1, <1>2, <1>3, <2>1 DEF IInv, BuildOK, builds
<1>5. SourcesOK' /\ DiskOK' /\ ManifestOK' /\ ServerOK'
  BY <1>1 DEF IInv, SourcesOK, DiskOK, ManifestOK, ManifestNotAhead, ServerOK, builds
<1> QED
  BY <1>4, <1>5 DEF IInv

\* The manifest is written when every directory of the build is committed.
LEMMA EndBuildOK ==
    ASSUME IInv, EndBuild
    PROVE  IInv'
<1>1. /\ build.phase = "writing" /\ build.open = {} /\ build' = NoBuild
      /\ UNCHANGED <<data, disk, sources, server>>
  BY DEF EndBuild
<1>2. BuildOK'
  BY <1>1 DEF BuildOK, NoBuild
<1>3. SourcesOK' /\ DiskOK' /\ ServerOK'
  BY <1>1 DEF IInv, SourcesOK, DiskOK, ServerOK
<1>4. builds \in Nat /\ builds' = builds
  BY <1>1 DEF builds, IInv, SourcesOK
<1>5. ManifestOK'
  <2>1. CASE build.ok
    <3>1. manifest' = [layout |-> build.layout, build |-> builds]
      BY <2>1 DEF EndBuild
    <3>2. \A dir \in Dirs : disk[dir].build = builds => disk[dir].state = "committed"
      BY <1>1, <2>1 DEF IInv, BuildOK
    <3> QED
      BY <1>1, <1>4, <3>1, <3>2 DEF ManifestOK, ManifestNotAhead
  <2>2. CASE ~build.ok
    <3>1. manifest' = manifest
      BY <2>2 DEF EndBuild
    <3> QED
      BY <1>1, <1>4, <3>1 DEF IInv, ManifestOK, ManifestNotAhead
  <2> QED
    BY <2>1, <2>2
<1> QED
  BY <1>2, <1>3, <1>5 DEF IInv

\* A kill leaves every directory as it is.
LEMMA KillBuildOK ==
    ASSUME IInv, KillBuild
    PROVE  IInv'
<1>1. build' = NoBuild /\ UNCHANGED <<data, disk, sources, manifest, server>>
  BY DEF KillBuild
<1>2. BuildOK'
  BY <1>1 DEF BuildOK, NoBuild
<1>3. SourcesOK' /\ DiskOK' /\ ManifestOK' /\ ServerOK'
  BY <1>1 DEF IInv, SourcesOK, DiskOK, ManifestOK, ManifestNotAhead, ServerOK, builds
<1> QED
  BY <1>2, <1>3 DEF IInv

\* What a server opens or follows is a directory as it is on disk.
LEMMA ServerStepOK ==
    ASSUME IInv, Open \/ Stop \/ \E dir \in Dirs : Reload(dir)
    PROVE  IInv'
<1>1. UNCHANGED <<data, disk, build, sources, manifest>>
  BY DEF Open, Stop, Reload
<1>2. SourcesOK' /\ DiskOK' /\ BuildOK' /\ ManifestOK'
  BY <1>1 DEF IInv, SourcesOK, DiskOK, BuildOK, ManifestOK, ManifestNotAhead, builds
<1>3. ASSUME Open PROVE ServerOK'
  <2>1. PICK dirs \in {{}, {x \in Dirs : Readable(x)}} :
          server' = [up |-> TRUE, shows |-> [dir \in dirs |-> disk[dir]]]
    BY <1>3 DEF Open
  <2> DEFINE shows == [dir \in dirs |-> disk[dir]]
  <2>2. DOMAIN server' = {"up", "shows"} /\ server'.up \in BOOLEAN /\ server'.shows = shows
    BY <2>1
  <2>3. DOMAIN shows \subseteq Dirs /\ \A dir \in DOMAIN shows : shows[dir] = disk[dir]
    OBVIOUS
  <2> HIDE DEF shows
  <2> QED
    BY <1>1, <2>2, <2>3 DEF IInv, DiskOK, ServerOK
<1>4. ASSUME Stop PROVE ServerOK'
  BY <1>4 DEF Stop, ServerOK, Down
<1>5. ASSUME NEW dir \in Dirs, Reload(dir) PROVE ServerOK'
  <2> DEFINE shows == [server.shows EXCEPT ![dir] = disk[dir]]
  <2>1. server' = [server EXCEPT !.shows = shows] /\ dir \in DOMAIN server.shows
    BY <1>5 DEF Reload
  <2>2. /\ DOMAIN shows = DOMAIN server.shows /\ shows[dir] = disk[dir]
        /\ \A x \in DOMAIN shows : x # dir => shows[x] = server.shows[x]
    BY <2>1
  <2> HIDE DEF shows
  <2>3. DOMAIN server' = {"up", "shows"} /\ server'.shows = shows /\ server'.up = server.up
    BY <2>1 DEF IInv, ServerOK
  <2>4. \A x \in DOMAIN shows : WholeCommit(shows[x], x, sources)
    BY <2>2 DEF IInv, ServerOK, DiskOK
  <2> QED
    BY <1>1, <2>2, <2>3, <2>4 DEF IInv, ServerOK
<1>6. ServerOK'
  BY <1>3, <1>4, <1>5
<1> QED
  BY <1>2, <1>6 DEF IInv

\* Every step keeps the invariant.
LEMMA NextOK == IInv /\ [Next]_vars => IInv'
<1> SUFFICES ASSUME IInv, [Next]_vars PROVE IInv'
  OBVIOUS
<1>1. CASE NewData
  <2>1. UNCHANGED <<disk, build, sources, manifest, server>> /\ data' \in AllData
    BY <1>1, IndexAssumption DEF NewData, IInv, SourcesOK
  <2> QED
    BY <2>1 DEF IInv, SourcesOK, DiskOK, BuildOK, ManifestOK, ManifestNotAhead, ServerOK, builds
<1>2. CASE UNCHANGED vars
  BY <1>2 DEF vars, IInv, SourcesOK, DiskOK, BuildOK, ManifestOK, ManifestNotAhead, ServerOK, builds
<1> QED
  BY <1>1, <1>2, StartBuildOK, ClearDirOK, CreateDirOK, CommitDirOK, DirFailsOK, EndBuildOK,
     KillBuildOK, ServerStepOK DEF Next

\* The invariant holds in every state.
LEMMA Inductive == Spec => []IInv
BY InitOK, NextOK, PTL DEF Spec

-----------------------------------------------------------------------------
(* Theorems. *)

\* Builds that fail, are killed or overlap a running server leave whole commits:
\* a server shows of a directory nothing or what one build wrote, and the
\* manifest never names a build with an uncommitted directory.
THEOREM BuildsStayWhole == Spec => []BuildsAreWhole
<1>1. IInv => BuildsAreWhole
  <2> SUFFICES ASSUME IInv PROVE BuildsAreWhole
    OBVIOUS
  <2>1. TypeOK
    BY DEF IInv, DiskOK, WholeCommit, BuildOK, ManifestOK, TypeOK, builds
  <2>2. ShownIsOneBuild
    BY DEF IInv, ServerOK, WholeCommit, ShownIsOneBuild
  <2> QED
    BY <2>1, <2>2 DEF IInv, ManifestOK, BuildsAreWhole
<1> QED
  BY <1>1, Inductive, PTL

\* Every name of a place keeps a document whatever the three rules drop, every
\* alternate of what is kept is searchable, and the two layouts hold the same
\* documents of each country.
THEOREM PlacesAlwaysFindable == Spec => []PlacesStayFindable
<1>1. IInv => PlacesStayFindable
  <2> SUFFICES ASSUME IInv PROVE PlacesStayFindable
    OBVIOUS
  <2>1. Classified \subseteq AllData
    <3>1. build.phase = "writing" /\ (\A dir \in Dirs : disk[dir].build < builds) => builds \in 1..Len(sources)
      <4>1. builds \in Nat /\ manifest.build \in 0..builds
        BY DEF IInv, SourcesOK, ManifestOK, builds
      <4>2. build.phase = "writing" => manifest.build < builds
        BY DEF IInv, BuildOK
      <4> QED
        BY <4>1, <4>2 DEF builds
    <3>2. \A b \in 1..Len(sources) : sources[b] \in AllData
      BY DEF IInv, SourcesOK
    <3> QED
      BY <3>1, <3>2 DEF Classified
  <2>2. NoNameLost
    BY <2>1, PointNamed, PolygonNamed DEF NoNameLost
  <2>3. AlternatesFound
    BY <2>1, AlternateFacts DEF AlternatesFound
  <2>4. LayoutsAgree
    BY <2>1, LayoutFacts DEF LayoutsAgree
  <2> QED
    BY <2>2, <2>3, <2>4 DEF PlacesStayFindable
<1> QED
  BY <1>1, Inductive, PTL

-----------------------------------------------------------------------------
(* ForwardText: concatenations, and the words that tables give. *)

\* Induction along an interval: a set that has not its first number, but has one,
\* has a number whose predecessor it has not.
LEMMA FirstFailure ==
    ASSUME NEW a \in Nat, NEW b \in Nat, NEW B \in SUBSET (a..b), B # {}, a \notin B
    PROVE  \E n \in B : n \in a + 1..b /\ n - 1 \in a..b /\ n - 1 \notin B
<1>1. B \subseteq Nat
  OBVIOUS
<1>2. PICK n \in B : \A k \in B : n <= k
  BY <1>1, LeastExists
<1>3. n \in a..b /\ n # a
  BY <1>2
<1>4. n \in a + 1..b /\ n - 1 \in a..b
  BY <1>3
<1>5. n - 1 \notin B
  BY <1>2, <1>4
<1> QED
  BY <1>2, <1>4, <1>5

\* The concatenations of the first k elements of s, for every k.
ArePrefixes(g, s, T) ==
    /\ g \in [0..Len(s) -> Seq(T)] /\ g[0] = <<>>
    /\ \A i \in 1..Len(s) : g[i] = g[i - 1] \o s[i]

\* The prefixes of the concatenation exist, by induction on how many there
\* are.
LEMMA PrefixesExist ==
    ASSUME NEW T, NEW s \in Seq(Seq(T))
    PROVE  \E g : ArePrefixes(g, s, T)
<1> DEFINE Up(g, n) == /\ g \in [0..n -> Seq(T)] /\ g[0] = <<>>
                       /\ \A i \in 1..n : g[i] = g[i - 1] \o s[i]
           Bad == {n \in 0..Len(s) : ~(\E g : Up(g, n))}
<1>1. Len(s) \in Nat
  OBVIOUS
<1>2. ASSUME Bad # {} PROVE FALSE
  <2>1. 0 \notin Bad
    <3> DEFINE g == [i \in 0..0 |-> <<>>]
    <3>1. Up(g, 0)
      OBVIOUS
    <3> QED
      BY <3>1
  <2>2. Bad \in SUBSET (0..Len(s))
    OBVIOUS
  <2>3. PICK n \in Bad : n \in 1..Len(s) /\ n - 1 \in 0..Len(s) /\ n - 1 \notin Bad
    <3>1. 0 \in Nat /\ 0 + 1 = 1
      OBVIOUS
    <3> HIDE DEF Bad
    <3> QED
      BY <1>1, <1>2, <2>1, <2>2, <3>1, FirstFailure
  <2>4. PICK g : Up(g, n - 1)
    BY <2>3
  <2> DEFINE h == [i \in 0..n |-> IF i = n THEN g[n - 1] \o s[n] ELSE g[i]]
  <2>5. s[n] \in Seq(T) /\ g[n - 1] \in Seq(T)
    BY <2>3, <2>4
  <2>6. g[n - 1] \o s[n] \in Seq(T)
    BY <2>5, ConcatProperties
  <2>7. h \in [0..n -> Seq(T)] /\ h[0] = <<>>
    BY <2>3, <2>4, <2>6
  <2>8. ASSUME NEW i \in 1..n PROVE h[i] = h[i - 1] \o s[i]
    <3>1. i - 1 \in 0..n /\ i \in 0..n /\ i - 1 # n /\ n \in Int
      BY <2>3
    <3>2. h[i - 1] = g[i - 1]
      BY <3>1
    <3>3. CASE i = n
      BY <3>1, <3>2, <3>3
    <3>4. CASE i # n
      <4>1. h[i] = g[i] /\ i \in 1..n - 1
        BY <3>1, <3>4
      <4> QED
        BY <2>4, <3>2, <4>1
    <3> QED
      BY <3>3, <3>4
  <2>9. Up(h, n)
    BY <2>7, <2>8
  <2> QED
    BY <2>3, <2>9
<1>3. Len(s) \in 0..Len(s) /\ Len(s) \notin Bad
  <2>1. Len(s) \in 0..Len(s)
    BY <1>1
  <2> HIDE DEF Bad
  <2> QED
    BY <1>2, <2>1
<1> QED
  BY <1>3 DEF ArePrefixes

\* FlattenSeq of the first k elements is the k-th of them.
LEMMA FlattenIs ==
    ASSUME NEW T, NEW s \in Seq(Seq(T)), NEW g, ArePrefixes(g, s, T), NEW k \in 0..Len(s)
    PROVE  FlattenSeq([i \in 1..k |-> s[i]]) = g[k]
<1> DEFINE u == [i \in 1..k |-> s[i]]
           Step(f, i) == IF i = 1 THEN u[i] ELSE f[i - 1] \o u[i]
           Is(f) == f = [i \in 1..k |-> Step(f, i)]
           F == CHOOSE f : Is(f)
<1>1. Len(s) \in Nat /\ k \in Nat /\ Len(u) = k
  OBVIOUS
<1>2. CASE k = 0
  BY <1>1, <1>2 DEF FlattenSeq, ArePrefixes
<1>3. CASE k # 0
  <2>1. FlattenSeq(u) = F[k]
    BY <1>1, <1>3 DEF FlattenSeq
  <2> DEFINE h == [i \in 1..k |-> g[i]]
  <2>2. \A i \in 1..k : g[i] = (IF i = 1 THEN s[i] ELSE g[i - 1] \o s[i])
    <3> TAKE i \in 1..k
    <3>0. i \in 1..Len(s)
      BY <1>1
    <3>1. s[i] \in Seq(T)
      BY <3>0
    <3>4. g[i] = g[i - 1] \o s[i]
      BY <3>0 DEF ArePrefixes
    <3>2. i = 1 => g[i - 1] = <<>>
      BY DEF ArePrefixes
    <3>3. <<>> \o s[i] = s[i]
      BY <3>1
    <3> QED
      BY <3>4, <3>2, <3>3
  <2>3. Is(h)
    BY <1>1, <2>2
  <2>4. Is(F)
    BY <2>3, Zenon
  <2> HIDE DEF F
  <2>5. \A i \in 1..k : F[i] = IF i = 1 THEN s[i] ELSE F[i - 1] \o s[i]
    BY <2>4
  <2> DEFINE Bad == {i \in 1..k : F[i] # g[i]}
  <2>6. ASSUME Bad # {} PROVE FALSE
    <3>1. Bad \in SUBSET (1..k) /\ 1 \notin Bad
      BY <2>2, <2>5
    <3>2. 1 \in Nat
      OBVIOUS
    <3>3. PICK i \in Bad : i \in 1 + 1..k /\ i - 1 \in 1..k /\ i - 1 \notin Bad
      <4> HIDE DEF Bad
      <4> QED
        BY <1>1, <2>6, <3>1, <3>2, FirstFailure
    <3>4. F[i - 1] = g[i - 1]
      BY <3>3
    <3>5. i \in 1..k /\ i # 1
      BY <3>3
    <3>6. F[i] = F[i - 1] \o s[i] /\ g[i] = g[i - 1] \o s[i]
      BY <2>2, <2>5, <3>5
    <3> QED
      BY <3>3, <3>4, <3>6
  <2>7. F[k] = g[k]
    BY <1>1, <1>3, <2>6
  <2> QED
    BY <2>1, <2>7
<1> QED
  BY <1>2, <1>3

\* How many elements the first k sequences have.
LenTo(s, k) == Len(FlattenSeq([i \in 1..k |-> s[i]]))

\* They add up.
LEMMA LensAdd ==
    ASSUME NEW T, NEW s \in Seq(Seq(T))
    PROVE  /\ FlattenSeq(s) \in Seq(T)
           /\ LenTo(s, 0) = 0 /\ LenTo(s, Len(s)) = Len(FlattenSeq(s))
           /\ \A k \in 0..Len(s) : LenTo(s, k) \in Nat
           /\ \A k \in 1..Len(s) : LenTo(s, k) = LenTo(s, k - 1) + Len(s[k])
<1>1. PICK g : ArePrefixes(g, s, T)
  BY PrefixesExist
<1>2. \A k \in 0..Len(s) : FlattenSeq([i \in 1..k |-> s[i]]) = g[k]
  BY <1>1, FlattenIs
<1>3. Len(s) \in Nat /\ Len(s) \in 0..Len(s) /\ 0 \in 0..Len(s)
  OBVIOUS
<1>4. [i \in 1..Len(s) |-> s[i]] = s
  OBVIOUS
<1>5. FlattenSeq(s) = g[Len(s)]
  BY <1>2, <1>3, <1>4
<1>6. \A k \in 0..Len(s) : g[k] \in Seq(T)
  BY <1>1 DEF ArePrefixes
<1>7. \A k \in 0..Len(s) : LenTo(s, k) = Len(g[k])
  BY <1>2 DEF LenTo
<1>8. \A k \in 0..Len(s) : LenTo(s, k) \in Nat
  BY <1>6, <1>7, LenProperties
<1>9. ASSUME NEW k \in 1..Len(s) PROVE LenTo(s, k) = LenTo(s, k - 1) + Len(s[k])
  <2>1. k - 1 \in 0..Len(s) /\ k \in 0..Len(s) /\ s[k] \in Seq(T)
    BY <1>3
  <2>2. g[k] = g[k - 1] \o s[k]
    BY <1>1 DEF ArePrefixes
  <2>3. Len(g[k]) = Len(g[k - 1]) + Len(s[k])
    BY <1>6, <2>1, <2>2, ConcatProperties
  <2> QED
    BY <1>7, <2>1, <2>3
<1>10. LenTo(s, 0) = 0
  BY <1>1, <1>3, <1>7 DEF ArePrefixes
<1>11. LenTo(s, Len(s)) = Len(FlattenSeq(s)) /\ FlattenSeq(s) \in Seq(T)
  BY <1>3, <1>5, <1>6, <1>7
<1> QED
  BY <1>8, <1>9, <1>10, <1>11

\* Sequences that are not longer are not longer together.
LEMMA ShorterTogether ==
    ASSUME NEW T, NEW s \in Seq(Seq(T)), NEW u \in Seq(Seq(T)), Len(u) = Len(s),
           \A i \in 1..Len(s) : Len(u[i]) <= Len(s[i])
    PROVE  Len(FlattenSeq(u)) <= Len(FlattenSeq(s))
<1> DEFINE n == Len(s)
           Bad == {k \in 0..n : ~(LenTo(u, k) <= LenTo(s, k))}
<1>1. n \in Nat /\ 0 \in Nat /\ 0 + 1 = 1 /\ n \in 0..n
  OBVIOUS
<1>2. /\ LenTo(s, 0) = 0 /\ LenTo(s, n) = Len(FlattenSeq(s))
      /\ \A k \in 0..n : LenTo(s, k) \in Nat
      /\ \A k \in 1..n : LenTo(s, k) = LenTo(s, k - 1) + Len(s[k])
  BY LensAdd
<1>3. /\ LenTo(u, 0) = 0 /\ LenTo(u, n) = Len(FlattenSeq(u))
      /\ \A k \in 0..n : LenTo(u, k) \in Nat
      /\ \A k \in 1..n : LenTo(u, k) = LenTo(u, k - 1) + Len(u[k])
  BY LensAdd
<1>4. ASSUME Bad # {} PROVE FALSE
  <2>1. 0 \notin Bad /\ Bad \in SUBSET (0..n)
    BY <1>2, <1>3
  <2>2. PICK k \in Bad : k \in 1..n /\ k - 1 \in 0..n /\ k - 1 \notin Bad
    <3> HIDE DEF Bad, n
    <3> QED
      BY <1>1, <1>4, <2>1, FirstFailure
  <2>3. LenTo(u, k - 1) <= LenTo(s, k - 1)
    BY <2>2
  <2>4. Len(u[k]) <= Len(s[k]) /\ Len(u[k]) \in Nat /\ Len(s[k]) \in Nat
    BY <2>2
  <2>5. LenTo(u, k - 1) \in Nat /\ LenTo(s, k - 1) \in Nat
    BY <1>2, <1>3, <2>2
  <2>6. LenTo(u, k) <= LenTo(s, k)
    <3>1. LenTo(u, k) = LenTo(u, k - 1) + Len(u[k]) /\ LenTo(s, k) = LenTo(s, k - 1) + Len(s[k])
      BY <1>2, <1>3, <2>2
    <3> QED
      BY <2>3, <2>4, <2>5, <3>1
  <2> QED
    BY <2>2, <2>6
<1>5. LenTo(u, n) <= LenTo(s, n)
  BY <1>1, <1>4
<1> QED
  BY <1>2, <1>3, <1>5

\* One more sequence adds its elements.
LEMMA OneMore ==
    ASSUME NEW T, NEW s \in Seq(Seq(T)), NEW x \in Seq(T)
    PROVE  Len(FlattenSeq(Append(s, x))) = Len(FlattenSeq(s)) + Len(x)
<1> DEFINE u == Append(s, x)
           n == Len(s)
<1>1. n \in Nat /\ u \in Seq(Seq(T)) /\ Len(u) = n + 1 /\ u[n + 1] = x
  BY AppendProperties
<1>2. [i \in 1..n |-> u[i]] = s
  <2>1. s = [i \in 1..n |-> s[i]]
    OBVIOUS
  <2>2. \A i \in 1..n : u[i] = s[i]
    BY AppendProperties
  <2> QED
    BY <2>1, <2>2
<1> HIDE DEF u
<1>3. LenTo(u, n) = Len(FlattenSeq(s))
  BY <1>2 DEF LenTo
<1>4. LenTo(u, n + 1) = LenTo(u, n) + Len(u[n + 1]) /\ LenTo(u, Len(u)) = Len(FlattenSeq(u))
  <2>1. PICK k : k = n + 1
    OBVIOUS
  <2>2. k \in 1..Len(u) /\ k - 1 = n
    BY <1>1, <2>1
  <2>3. /\ LenTo(u, Len(u)) = Len(FlattenSeq(u))
        /\ \A i \in 1..Len(u) : LenTo(u, i) = LenTo(u, i - 1) + Len(u[i])
    BY <1>1, LensAdd
  <2> QED
    BY <2>1, <2>2, <2>3
<1> QED
  BY <1>1, <1>3, <1>4 DEF u

\* The words there are.  That a literal is a member of STRING is no fact the
\* provers have, so the literals that ForwardText writes are named.
Word == STRING \cup {"doctor", "street", "none"}

\* A sequence that is not empty is what is in front of its last element, and that.
LEMMA FrontAndLast ==
    ASSUME NEW T, NEW s \in Seq(T), s # <<>>
    PROVE  /\ Front(s) \in Seq(T) /\ Last(s) \in T /\ s = Append(Front(s), Last(s))
           /\ Len(Front(s)) = Len(s) - 1
<1> DEFINE n == Len(s)
           f == Front(s)
<1>1. n \in Nat /\ n # 0 /\ n - 1 \in Nat
  BY EmptySeq
<1>2. f = [i \in 1..n - 1 |-> s[i]]
  BY <1>1 DEF Front
<1>3. f \in Seq(T) /\ Len(f) = n - 1
  BY <1>1, <1>2
<1>4. Last(s) = s[n] /\ s[n] \in T
  BY <1>1 DEF Last
<1>5. PICK a : a = Append(f, Last(s))
  OBVIOUS
<1>6. /\ a \in Seq(T) /\ Len(a) = Len(f) + 1 /\ a[Len(f) + 1] = Last(s)
      /\ \A i \in 1..Len(f) : a[i] = f[i]
  BY <1>3, <1>4, <1>5, AppendProperties
<1>7. Len(a) = n /\ a[n] = s[n]
  BY <1>1, <1>3, <1>4, <1>6
<1>8. \A i \in 1..n - 1 : a[i] = s[i]
  BY <1>2, <1>3, <1>6
<1>9. \A i \in 1..n : a[i] = s[i]
  BY <1>1, <1>7, <1>8
<1>10. a = s
  BY <1>6, <1>7, <1>9, SeqEqual
<1> QED
  BY <1>3, <1>4, <1>5, <1>10

\* Merging a word into a list makes it at most one longer.
LEMMA MergeShape ==
    ASSUME NEW acc \in Seq(Word), NEW w \in Word
    PROVE  MergeOrdinal(acc, w) \in Seq(Word) /\ Len(MergeOrdinal(acc, w)) <= Len(acc) + 1
<1>1. CASE acc # <<>> /\ <<Last(acc), w>> \in DOMAIN CompoundOf
  <2>1. CompoundOf[<<Last(acc), w>>] \in Word
    BY <1>1, WordsAssumption DEF Word
  <2>2. Front(acc) \in Seq(Word) /\ Len(Front(acc)) = Len(acc) - 1
    BY <1>1, FrontAndLast
  <2>3. MergeOrdinal(acc, w) = Append(Front(acc), CompoundOf[<<Last(acc), w>>])
    BY <1>1 DEF MergeOrdinal
  <2>4. MergeOrdinal(acc, w) \in Seq(Word) /\ Len(MergeOrdinal(acc, w)) = Len(Front(acc)) + 1
    BY <2>1, <2>2, <2>3, AppendProperties
  <2>5. PICK n \in Nat : n = Len(acc)
    OBVIOUS
  <2>6. Len(MergeOrdinal(acc, w)) = n - 1 + 1
    BY <2>2, <2>4, <2>5
  <2>7. n - 1 + 1 <= n + 1
    OBVIOUS
  <2> QED
    BY <2>4, <2>5, <2>6, <2>7, Zenon
<1>2. CASE ~(acc # <<>> /\ <<Last(acc), w>> \in DOMAIN CompoundOf)
  <2>1. MergeOrdinal(acc, w) = Append(acc, w)
    BY <1>2 DEF MergeOrdinal
  <2>2. PICK a : a = Append(acc, w)
    OBVIOUS
  <2>3. a \in Seq(Word) /\ Len(a) = Len(acc) + 1
    BY <2>2, AppendProperties
  <2>4. Len(acc) + 1 <= Len(acc) + 1
    OBVIOUS
  <2> QED
    BY <2>1, <2>2, <2>3, <2>4, Zenon
<1> QED
  BY <1>1, <1>2

\* The words merged so far, after each word.
AreMerged(g, ws, n) == g = [i \in 0..n |-> IF i = 0 THEN <<>> ELSE MergeOrdinal(g[i - 1], ws[i])]

\* They exist, by induction on how many there are.
LEMMA MergedExist ==
    ASSUME NEW ws, NEW n \in Nat
    PROVE  \E g : AreMerged(g, ws, n)
<1> DEFINE Bad == {k \in 0..n : ~\E f : AreMerged(f, ws, k)}
<1>1. ASSUME Bad # {} PROVE FALSE
  <2>1. 0 \notin Bad
    <3> DEFINE z == [i \in 0..0 |-> <<>>]
    <3>1. AreMerged(z, ws, 0)
      BY DEF AreMerged
    <3> QED
      BY <3>1
  <2>2. Bad \in SUBSET (0..n)
    OBVIOUS
  <2>3. PICK k \in Bad : k \in 1..n /\ k - 1 \in 0..n /\ k - 1 \notin Bad
    <3>1. 0 \in Nat /\ 0 + 1 = 1
      OBVIOUS
    <3> HIDE DEF Bad
    <3> QED
      BY <1>1, <2>1, <2>2, <3>1, FirstFailure
  <2>4. PICK f : AreMerged(f, ws, k - 1)
    BY <2>3
  <2> DEFINE h == [i \in 0..k |-> IF i = k THEN MergeOrdinal(f[k - 1], ws[k]) ELSE f[i]]
  <2>5. ASSUME NEW i \in 0..k PROVE h[i] = IF i = 0 THEN <<>> ELSE MergeOrdinal(h[i - 1], ws[i])
    <3>1. i = 0 \/ i - 1 \in 0..k - 1
      BY <2>3
    <3>2. i - 1 \in 0..k - 1 => h[i - 1] = f[i - 1]
      BY <2>3
    <3>3. i \in 0..k - 1 => h[i] = f[i] /\ f[i] = IF i = 0 THEN <<>> ELSE MergeOrdinal(f[i - 1], ws[i])
      BY <2>3, <2>4 DEF AreMerged
    <3>4. i = k \/ i \in 0..k - 1
      BY <2>3
    <3>5. k # 0
      BY <2>3
    <3> QED
      BY <3>1, <3>2, <3>3, <3>4, <3>5
  <2>6. AreMerged(h, ws, k)
    <3> DEFINE e == [i \in 0..k |-> IF i = 0 THEN <<>> ELSE MergeOrdinal(h[i - 1], ws[i])]
    <3>1. \A i \in 0..k : h[i] = e[i]
      BY <2>5
    <3>2. h = [i \in 0..k |-> h[i]]
      OBVIOUS
    <3> HIDE DEF h
    <3>3. h = e
      BY <3>1, <3>2
    <3> QED
      BY <3>3 DEF AreMerged
  <2> QED
    BY <2>3, <2>6
<1>2. n \in 0..n /\ n \notin Bad
  BY <1>1
<1> QED
  BY <1>2

\* Merging ordinals makes a list of words that is not longer.
LEMMA CompoundsShorter ==
    ASSUME NEW ws \in Seq(Word)
    PROVE  /\ CanonicaliseCompoundOrdinals(ws) \in Seq(Word)
           /\ Len(CanonicaliseCompoundOrdinals(ws)) <= Len(ws)
<1> DEFINE n == Len(ws)
           Is(f) == f = [i \in 0..n |-> IF i = 0 THEN <<>> ELSE MergeOrdinal(f[i - 1], ws[i])]
           F == CHOOSE f : Is(f)
           Bad == {i \in 0..n : ~(F[i] \in Seq(Word) /\ Len(F[i]) <= i)}
<1>1. n \in Nat /\ 0 \in Nat /\ 0 + 1 = 1 /\ n \in 0..n
  OBVIOUS
<1>2. CanonicaliseCompoundOrdinals(ws) = F[n]
  BY DEF CanonicaliseCompoundOrdinals
<1>3. \E f : Is(f)
  BY <1>1, MergedExist DEF AreMerged
<1>4. Is(F)
  BY <1>3, Zenon
<1> HIDE DEF F
<1>5. ASSUME Bad # {} PROVE FALSE
  <2>1. 0 \notin Bad /\ Bad \in SUBSET (0..n)
    BY <1>1, <1>4
  <2>2. PICK k \in Bad : k \in 1..n /\ k - 1 \in 0..n /\ k - 1 \notin Bad
    <3> HIDE DEF Bad, n
    <3> QED
      BY <1>1, <1>5, <2>1, FirstFailure
  <2>3. F[k - 1] \in Seq(Word) /\ Len(F[k - 1]) <= k - 1 /\ ws[k] \in Word
    BY <2>2
  <2>4. F[k] = MergeOrdinal(F[k - 1], ws[k])
    BY <1>4, <2>2
  <2>5. /\ MergeOrdinal(F[k - 1], ws[k]) \in Seq(Word)
        /\ Len(MergeOrdinal(F[k - 1], ws[k])) <= Len(F[k - 1]) + 1
    BY <2>3, MergeShape
  <2>6. PICK m \in Nat : m = Len(F[k - 1])
    BY <2>3
  <2>7. PICK j \in Nat : j = Len(F[k])
    BY <2>4, <2>5
  <2>8. j <= m + 1 /\ m <= k - 1 /\ k \in Int
    BY <2>2, <2>3, <2>4, <2>5, <2>6, <2>7
  <2>9. j <= k
    BY <2>8
  <2> QED
    BY <2>2, <2>4, <2>5, <2>7, <2>9
<1>6. F[n] \in Seq(Word) /\ Len(F[n]) <= n
  BY <1>1, <1>5
<1> QED
  BY <1>2, <1>6

\* Ordinals and place abbreviations are replaced word by word.
LEMMA OrdinalsShape ==
    ASSUME NEW ws \in Seq(Word), NEW firstIsHouse
    PROVE  /\ CanonicaliseOrdinals(ws, firstIsHouse) \in Seq(Word)
           /\ Len(CanonicaliseOrdinals(ws, firstIsHouse)) = Len(ws)
<1> DEFINE r == CanonicaliseOrdinals(ws, firstIsHouse)
<1>1. Len(ws) \in Nat /\ DOMAIN ws = 1..Len(ws) /\ DOMAIN r = 1..Len(ws)
  BY DEF CanonicaliseOrdinals
<1>2. ASSUME NEW i \in 1..Len(ws) PROVE r[i] \in Word
  <2>1. ws[i] \in Word
    OBVIOUS
  <2>2. ws[i] \in DOMAIN OrdinalOf => OrdinalOf[ws[i]] \in Word
    BY WordsAssumption DEF Word
  <2>3. ws[i] \in DOMAIN NumberOrdinal => NumberOrdinal[ws[i]] \in Word
    BY WordsAssumption DEF Word
  <2>4. \/ r[i] = ws[i]
        \/ ws[i] \in DOMAIN OrdinalOf /\ r[i] = OrdinalOf[ws[i]]
        \/ ws[i] \in DOMAIN NumberOrdinal /\ r[i] = NumberOrdinal[ws[i]]
    BY <1>1 DEF CanonicaliseOrdinals
  <2> QED
    BY <2>1, <2>2, <2>3, <2>4
<1>3. r = [i \in 1..Len(ws) |-> r[i]]
  BY <1>1 DEF CanonicaliseOrdinals
<1> HIDE DEF r
<1>4. r \in Seq(Word) /\ Len(r) = Len(ws)
  BY <1>1, <1>2, <1>3
<1> QED
  BY <1>4 DEF r

\* So are places.
LEMMA PlaceFoldShape ==
    ASSUME NEW ws \in Seq(Word)
    PROVE  /\ ApplyPlaceAbbreviationFold(ws) \in Seq(Word)
           /\ Len(ApplyPlaceAbbreviationFold(ws)) = Len(ws)
<1>1. Len(ws) \in Nat /\ DOMAIN ws = 1..Len(ws)
  OBVIOUS
<1>2. ASSUME NEW i \in 1..Len(ws) PROVE ApplyPlaceAbbreviationFold(ws)[i] \in Word
  <2>1. ws[i] \in Word
    OBVIOUS
  <2>2. ws[i] \in DOMAIN PlaceFold => PlaceFold[ws[i]] \in Word
    BY WordsAssumption DEF Word
  <2> QED
    BY <1>1, <2>1, <2>2 DEF ApplyPlaceAbbreviationFold
<1>3. ApplyPlaceAbbreviationFold(ws) = [i \in 1..Len(ws) |-> ApplyPlaceAbbreviationFold(ws)[i]]
  BY <1>1 DEF ApplyPlaceAbbreviationFold
<1> QED
  BY <1>1, <1>2, <1>3

\* A list of components after one more chunk.
Grown(acc, c) ==
    IF c.comma THEN Append(Append(Front(acc), Last(acc) \o c.ws), <<>>)
    ELSE Append(Front(acc), Last(acc) \o c.ws)

\* The components after each chunk.
AreGrown(g, t, n) == g = [i \in 0..n |-> IF i = 0 THEN << <<>> >> ELSE Grown(g[i - 1], t[i])]

\* They exist, by induction on how many there are.
LEMMA GrownExist ==
    ASSUME NEW t, NEW n \in Nat
    PROVE  \E g : AreGrown(g, t, n)
<1> DEFINE Bad == {k \in 0..n : ~\E f : AreGrown(f, t, k)}
<1>1. ASSUME Bad # {} PROVE FALSE
  <2>1. 0 \notin Bad
    <3> DEFINE z == [i \in 0..0 |-> << <<>> >>]
    <3>1. AreGrown(z, t, 0)
      BY DEF AreGrown
    <3> QED
      BY <3>1
  <2>2. Bad \in SUBSET (0..n)
    OBVIOUS
  <2>3. PICK k \in Bad : k \in 1..n /\ k - 1 \in 0..n /\ k - 1 \notin Bad
    <3>1. 0 \in Nat /\ 0 + 1 = 1
      OBVIOUS
    <3> HIDE DEF Bad
    <3> QED
      BY <1>1, <2>1, <2>2, <3>1, FirstFailure
  <2>4. PICK f : AreGrown(f, t, k - 1)
    BY <2>3
  <2> DEFINE h == [i \in 0..k |-> IF i = k THEN Grown(f[k - 1], t[k]) ELSE f[i]]
  <2>5. ASSUME NEW i \in 0..k PROVE h[i] = IF i = 0 THEN << <<>> >> ELSE Grown(h[i - 1], t[i])
    <3>1. i = 0 \/ i - 1 \in 0..k - 1
      BY <2>3
    <3>2. i - 1 \in 0..k - 1 => h[i - 1] = f[i - 1]
      BY <2>3
    <3>3. i \in 0..k - 1 => h[i] = f[i] /\ f[i] = IF i = 0 THEN << <<>> >> ELSE Grown(f[i - 1], t[i])
      BY <2>3, <2>4 DEF AreGrown
    <3>4. i = k \/ i \in 0..k - 1
      BY <2>3
    <3>5. k # 0
      BY <2>3
    <3> QED
      BY <3>1, <3>2, <3>3, <3>4, <3>5
  <2>6. AreGrown(h, t, k)
    <3> DEFINE e == [i \in 0..k |-> IF i = 0 THEN << <<>> >> ELSE Grown(h[i - 1], t[i])]
    <3>1. \A i \in 0..k : h[i] = e[i]
      BY <2>5
    <3>2. h = [i \in 0..k |-> h[i]]
      OBVIOUS
    <3> HIDE DEF h
    <3>3. h = e
      BY <3>1, <3>2
    <3> QED
      BY <3>3 DEF AreGrown
  <2> QED
    BY <2>3, <2>6
<1>2. n \in 0..n /\ n \notin Bad
  BY <1>1
<1> QED
  BY <1>2

\* The last of them are the components.
LEMMA ComponentsAre ==
    ASSUME NEW t, Len(t) \in Nat
    PROVE  \E g : AreGrown(g, t, Len(t)) /\ Components(t) = g[Len(t)]
<1> DEFINE n == Len(t)
           Is(f) == f = [i \in 0..n |->
               IF i = 0 THEN << <<>> >>
               ELSE IF t[i].comma
                    THEN Append(Append(Front(f[i - 1]), Last(f[i - 1]) \o t[i].ws), <<>>)
               ELSE Append(Front(f[i - 1]), Last(f[i - 1]) \o t[i].ws)]
           F == CHOOSE f : Is(f)
<1>1. Components(t) = F[n]
  BY DEF Components
<1>2. \E f : AreGrown(f, t, n)
  BY GrownExist
<1>3. \A f : AreGrown(f, t, n) <=> Is(f)
  BY Zenon DEF AreGrown, Grown
<1>4. Is(F)
  BY <1>2, <1>3, Zenon
<1>5. AreGrown(F, t, n)
  BY <1>3, <1>4
<1> HIDE DEF F
<1> QED
  BY <1>1, <1>5

\* A sequence with one more element.
LEMMA AppendIn ==
    ASSUME NEW T, NEW s \in Seq(T), NEW x \in T
    PROVE  Append(s, x) \in Seq(T) /\ Append(s, x) # <<>>
  BY AppendProperties

\* A chunk adds its words to the components.
LEMMA GrownShape ==
    ASSUME NEW acc \in Seq(Seq(Word)), acc # <<>>, NEW c, c.ws \in Seq(Word)
    PROVE  /\ Grown(acc, c) \in Seq(Seq(Word)) /\ Grown(acc, c) # <<>>
           /\ Len(FlattenSeq(Grown(acc, c))) = Len(FlattenSeq(acc)) + Len(c.ws)
<1> DEFINE f == Front(acc)
           l == Last(acc)
           a == Append(f, l \o c.ws)
<1>1. f \in Seq(Seq(Word)) /\ l \in Seq(Word) /\ acc = Append(f, l)
  BY FrontAndLast
<1>2. l \o c.ws \in Seq(Word) /\ Len(l \o c.ws) = Len(l) + Len(c.ws)
  BY <1>1, ConcatProperties
<1>3. <<>> \in Seq(Word) /\ Len(<<>>) = 0
  OBVIOUS
<1> HIDE DEF f, l
<1>4. Len(FlattenSeq(acc)) = Len(FlattenSeq(f)) + Len(l)
  BY <1>1, OneMore
<1>5. Len(FlattenSeq(a)) = Len(FlattenSeq(f)) + Len(l \o c.ws)
  BY <1>1, <1>2, OneMore
<1> DEFINE T == Seq(Word)
<1> HIDE DEF T
<1>6. a \in Seq(T) /\ a # <<>>
  <2>1. f \in Seq(T) /\ l \o c.ws \in T
    BY <1>1, <1>2 DEF T
  <2> QED
    BY <2>1, AppendIn, Zenon
<1> HIDE DEF a
<1>7. Len(FlattenSeq(Append(a, <<>>))) = Len(FlattenSeq(a)) + 0
  BY <1>3, <1>6, OneMore DEF T
<1>8. Append(a, <<>>) \in Seq(T) /\ Append(a, <<>>) # <<>>
  <2>1. <<>> \in T
    BY <1>3 DEF T
  <2> QED
    BY <1>6, <2>1, AppendIn, Zenon
<1>9. PICK x \in Nat, y \in Nat, z \in Nat :
          x = Len(FlattenSeq(f)) /\ y = Len(l) /\ z = Len(c.ws)
  <2>1. Len(FlattenSeq(f)) \in Nat /\ Len(l) \in Nat /\ Len(c.ws) \in Nat
    BY <1>1, LensAdd, LenProperties
  <2> QED
    BY <2>1
<1>10. Grown(acc, c) = IF c.comma THEN Append(a, <<>>) ELSE a
  BY Zenon DEF Grown, a, f, l
<1>11. Len(FlattenSeq(a)) = Len(FlattenSeq(acc)) + Len(c.ws)
  <2>1. Len(FlattenSeq(a)) = x + (y + z) /\ Len(FlattenSeq(acc)) = x + y
    BY <1>2, <1>4, <1>5, <1>9
  <2>2. x + (y + z) = (x + y) + z
    OBVIOUS
  <2> QED
    BY <1>9, <2>1, <2>2, Zenon
<1>12. Len(FlattenSeq(Append(a, <<>>))) = Len(FlattenSeq(acc)) + Len(c.ws)
  <2>1. Len(FlattenSeq(a)) \in Nat
    BY <1>6, LensAdd, LenProperties DEF T
  <2>2. Len(FlattenSeq(Append(a, <<>>))) = Len(FlattenSeq(a))
    BY <1>7, <2>1
  <2> QED
    BY <1>11, <2>2
<1> QED
  BY <1>6, <1>8, <1>10, <1>11, <1>12 DEF T

\* The words of the chunks.
WordsOf(t) == [i \in DOMAIN t |-> t[i].ws]

IsText(t) == t \in Seq([ws : Seq(Word), mark : STRING, comma : BOOLEAN])

\* They are lists of words, one for each chunk.
LEMMA WordsOfShape ==
    ASSUME NEW t, IsText(t)
    PROVE  /\ WordsOf(t) \in Seq(Seq(Word)) /\ Len(WordsOf(t)) = Len(t) /\ Len(t) \in Nat
           /\ \A i \in 1..Len(t) : WordsOf(t)[i] = t[i].ws /\ t[i].ws \in Seq(Word)
           /\ Words(t) = FlattenSeq(WordsOf(t))
<1>1. Len(t) \in Nat /\ DOMAIN t = 1..Len(t)
  BY DEF IsText
<1>2. ASSUME NEW i \in 1..Len(t) PROVE t[i].ws \in Seq(Word)
  <2>1. t[i] \in [ws : Seq(Word), mark : STRING, comma : BOOLEAN]
    BY ElementOfSeq DEF IsText
  <2> QED
    BY <2>1
<1> QED
  BY <1>1, <1>2 DEF WordsOf, Words

\* The components of a text have all of its words.
LEMMA ComponentsShape ==
    ASSUME NEW t, IsText(t)
    PROVE  /\ Components(t) \in Seq(Seq(Word))
           /\ Len(FlattenSeq(Components(t))) = Len(Words(t))
<1> DEFINE n == Len(t)
           s == WordsOf(t)
<1>1. /\ s \in Seq(Seq(Word)) /\ Len(s) = n /\ n \in Nat /\ 0 \in Nat /\ 0 + 1 = 1
      /\ \A i \in 1..n : s[i] = t[i].ws /\ t[i].ws \in Seq(Word)
      /\ Words(t) = FlattenSeq(s)
  BY WordsOfShape
<1>2. PICK g : AreGrown(g, t, n) /\ Components(t) = g[n]
  BY <1>1, ComponentsAre
<1> HIDE DEF s, n
<1>3. /\ LenTo(s, 0) = 0 /\ LenTo(s, n) = Len(FlattenSeq(s))
      /\ \A k \in 1..n : LenTo(s, k) = LenTo(s, k - 1) + Len(s[k])
  BY <1>1, LensAdd
<1> DEFINE Good(a, k) == /\ a \in Seq(Seq(Word)) /\ a # <<>>
                         /\ Len(FlattenSeq(a)) = LenTo(s, k)
           Bad == {k \in 0..n : ~Good(g[k], k)}
<1>4. g[0] = << <<>> >> /\ \A k \in 1..n : g[k] = Grown(g[k - 1], t[k])
  <2>1. \A k \in 0..n : g[k] = IF k = 0 THEN << <<>> >> ELSE Grown(g[k - 1], t[k])
    BY <1>2, Zenon DEF AreGrown
  <2>2. 0 \in 0..n /\ \A k \in 1..n : k \in 0..n /\ k # 0
    BY <1>1
  <2> QED
    BY <2>1, <2>2, Zenon
<1>5. Good(<< <<>> >>, 0)
  <2>1. << <<>> >> = Append(<<>>, <<>>) /\ <<>> \in Seq(Seq(Word)) /\ <<>> \in Seq(Word)
    OBVIOUS
  <2>2. Len(FlattenSeq(Append(<<>>, <<>>))) = Len(FlattenSeq(<<>>)) + Len(<<>>)
    BY <2>1, OneMore
  <2>3. FlattenSeq(<<>>) = <<>>
    BY DEF FlattenSeq
  <2>4. << <<>> >> \in Seq(Seq(Word)) /\ << <<>> >> # <<>>
    OBVIOUS
  <2>5. Len(FlattenSeq(<< <<>> >>)) = 0
    BY <2>1, <2>2, <2>3
  <2> QED
    BY <1>3, <2>4, <2>5
<1>6. ASSUME Bad # {} PROVE FALSE
  <2>1. 0 \notin Bad /\ Bad \in SUBSET (0..n)
    BY <1>4, <1>5
  <2>2. PICK k \in Bad : k \in 1..n /\ k - 1 \in 0..n /\ k - 1 \notin Bad
    <3> HIDE DEF Bad
    <3> QED
      BY <1>1, <1>6, <2>1, FirstFailure
  <2>3. Good(g[k - 1], k - 1)
    BY <2>2
  <2>4. /\ Grown(g[k - 1], t[k]) \in Seq(Seq(Word)) /\ Grown(g[k - 1], t[k]) # <<>>
        /\ Len(FlattenSeq(Grown(g[k - 1], t[k]))) = Len(FlattenSeq(g[k - 1])) + Len(t[k].ws)
    BY <1>1, <2>2, <2>3, GrownShape
  <2>5. Good(g[k], k)
    BY <1>1, <1>3, <1>4, <2>2, <2>3, <2>4
  <2> QED
    BY <2>2, <2>5
<1>7. n \in 0..n
  BY <1>1
<1>8. Good(g[n], n)
  BY <1>6, <1>7
<1> QED
  BY <1>1, <1>2, <1>3, <1>8

\* A component has not more tokens than words.
LEMMA TokensOfComponent ==
    ASSUME NEW ws \in Seq(Word)
    PROVE  TokenizeComponent(ws) \in Seq(Word) /\ Len(TokenizeComponent(ws)) <= Len(ws)
<1> DEFINE full == [i \in DOMAIN ws |-> IF i = 1 /\ ws[1] = "dr" /\ Len(ws) > 2
                                        THEN "doctor" ELSE CanonicaliseToken(ws[i])]
           st == StreetStPosition(full)
           road == [i \in DOMAIN full |-> IF i = st /\ full[i] = "st" THEN "street" ELSE full[i]]
           merged == CanonicaliseCompoundOrdinals(road)
<1>1. Len(ws) \in Nat /\ DOMAIN ws = 1..Len(ws)
  OBVIOUS
<1>2. \A w \in Word : CanonicaliseToken(w) \in Word
  BY WordsAssumption DEF CanonicaliseToken, Word
<1>3. full \in Seq(Word) /\ Len(full) = Len(ws)
  <2>1. ASSUME NEW i \in 1..Len(ws) PROVE full[i] \in Word
    <3>1. ws[i] \in Word
      OBVIOUS
    <3>4. "doctor" \in Word
      BY DEF Word
    <3>2. CanonicaliseToken(ws[i]) \in Word
      BY <1>2, <3>1
    <3> HIDE DEF st
    <3>3. full[i] = "doctor" \/ full[i] = CanonicaliseToken(ws[i])
      BY <1>1, Zenon
    <3> QED
      BY <3>2, <3>3, <3>4
  <2>2. full = [i \in 1..Len(ws) |-> full[i]]
    BY <1>1
  <2> HIDE DEF full
  <2>3. full \in [1..Len(ws) -> Word]
    BY <2>1, <2>2
  <2> QED
    BY <1>1, <2>3
<1> HIDE DEF full, st
<1>4. road \in Seq(Word) /\ Len(road) = Len(ws)
  <2>1. DOMAIN full = 1..Len(ws)
    BY <1>3
  <2>2. ASSUME NEW i \in 1..Len(ws) PROVE road[i] \in Word
    <3>1. full[i] \in Word
      BY <1>3
    <3>3. "street" \in Word
      BY DEF Word
    <3>2. road[i] = "street" \/ road[i] = full[i]
      BY <2>1, Zenon
    <3> QED
      BY <3>1, <3>2, <3>3
  <2>3. road = [i \in 1..Len(ws) |-> road[i]]
    BY <2>1
  <2> HIDE DEF road
  <2>4. road \in [1..Len(ws) -> Word]
    BY <2>2, <2>3
  <2> QED
    BY <1>1, <2>4
<1> HIDE DEF road
<1>5. merged \in Seq(Word) /\ Len(merged) <= Len(ws)
  BY <1>4, CompoundsShorter
<1> HIDE DEF merged
<1>6. /\ CanonicaliseOrdinals(merged, TRUE) \in Seq(Word)
      /\ Len(CanonicaliseOrdinals(merged, TRUE)) = Len(merged)
  BY <1>5, OrdinalsShape
<1>7. TokenizeComponent(ws) = CanonicaliseOrdinals(merged, TRUE)
  BY Zenon DEF TokenizeComponent, merged, road, st, full
<1> QED
  BY <1>5, <1>6, <1>7

\* A text has not more tokens than words.
LEMMA TokensShape ==
    ASSUME NEW t, IsText(t)
    PROVE  TokenizeUserInput(t) \in Seq(Word) /\ Len(TokenizeUserInput(t)) <= Len(Words(t))
<1> DEFINE parts == Components(t)
           u == [i \in DOMAIN parts |-> TokenizeComponent(parts[i])]
<1>1. parts \in Seq(Seq(Word)) /\ Len(FlattenSeq(parts)) = Len(Words(t))
  BY ComponentsShape
<1> HIDE DEF parts
<1>2. DOMAIN parts = 1..Len(parts) /\ Len(parts) \in Nat
      /\ \A i \in 1..Len(parts) : parts[i] \in Seq(Word)
  BY <1>1
<1>3. /\ u \in Seq(Seq(Word)) /\ Len(u) = Len(parts)
      /\ \A i \in 1..Len(parts) : Len(u[i]) <= Len(parts[i])
  <2>1. \A i \in 1..Len(parts) : u[i] \in Seq(Word) /\ Len(u[i]) <= Len(parts[i])
    BY <1>2, TokensOfComponent
  <2> QED
    BY <1>2, <2>1
<1> HIDE DEF u
<1>4. FlattenSeq(u) \in Seq(Word) /\ Len(FlattenSeq(u)) <= Len(FlattenSeq(parts))
  BY <1>1, <1>3, ShorterTogether, LensAdd
<1>5. /\ ApplyPlaceAbbreviationFold(FlattenSeq(u)) \in Seq(Word)
      /\ Len(ApplyPlaceAbbreviationFold(FlattenSeq(u))) = Len(FlattenSeq(u))
  BY <1>4, PlaceFoldShape
<1>6. TokenizeUserInput(t) = ApplyPlaceAbbreviationFold(FlattenSeq(u))
  BY Zenon DEF TokenizeUserInput, u, parts
<1> QED
  BY <1>1, <1>4, <1>5, <1>6

\* A sequence more, or one less: the elements of the one are the difference.
LEMMA OneLess ==
    ASSUME NEW T, NEW s \in Seq(Seq(T)), NEW r \in Seq(Seq(T)), NEW i \in 1..Len(s),
           Len(r) = Len(s) - 1,
           \A k \in 1..i - 1 : Len(r[k]) = Len(s[k]),
           \A k \in i..Len(r) : Len(r[k]) = Len(s[k + 1])
    PROVE  Len(FlattenSeq(s)) = Len(FlattenSeq(r)) + Len(s[i])
<1> DEFINE n == Len(s)
           m == Len(r)
<1>1. /\ n \in Nat /\ m \in Nat /\ m = n - 1 /\ i \in Nat /\ i - 1 \in Nat /\ i <= n
      /\ Len(s[i]) \in Nat
  BY LenProperties
<1>2. /\ LenTo(s, 0) = 0 /\ LenTo(s, n) = Len(FlattenSeq(s))
      /\ \A k \in 0..n : LenTo(s, k) \in Nat
      /\ \A k \in 1..n : LenTo(s, k) = LenTo(s, k - 1) + Len(s[k])
  BY LensAdd
<1>3. /\ LenTo(r, 0) = 0 /\ LenTo(r, m) = Len(FlattenSeq(r))
      /\ \A k \in 0..m : LenTo(r, k) \in Nat
      /\ \A k \in 1..m : LenTo(r, k) = LenTo(r, k - 1) + Len(r[k])
  BY LensAdd
<1>4. LenTo(r, i - 1) = LenTo(s, i - 1)
  <2> DEFINE Bad == {k \in 0..i - 1 : LenTo(r, k) # LenTo(s, k)}
  <2>1. ASSUME Bad # {} PROVE FALSE
    <3>1. 0 \notin Bad /\ Bad \in SUBSET (0..i - 1)
      BY <1>2, <1>3
    <3>2. 0 \in Nat /\ 0 + 1 = 1 /\ i - 1 \in Nat
      BY <1>1
    <3>3. PICK k \in Bad : k \in 1..i - 1 /\ k - 1 \in 0..i - 1 /\ k - 1 \notin Bad
      <4> HIDE DEF Bad
      <4> QED
        BY <2>1, <3>1, <3>2, FirstFailure
    <3>4. LenTo(r, k - 1) = LenTo(s, k - 1) /\ Len(r[k]) = Len(s[k])
      BY <3>3
    <3>5. k \in 1..n /\ k \in 1..m
      BY <1>1, <3>3
    <3>6. LenTo(r, k) = LenTo(s, k)
      BY <1>2, <1>3, <3>4, <3>5
    <3> QED
      BY <3>3, <3>6
  <2>2. i - 1 \in 0..i - 1
    BY <1>1
  <2> QED
    BY <2>1, <2>2
<1>5. LenTo(s, m + 1) = LenTo(r, m) + Len(s[i])
  <2> DEFINE Bad == {k \in i - 1..m : LenTo(s, k + 1) # LenTo(r, k) + Len(s[i])}
  <2>1. i - 1 \notin Bad
    <3>1. LenTo(s, i) = LenTo(s, i - 1) + Len(s[i])
      BY <1>2
    <3>2. PICK j : j = i - 1
      OBVIOUS
    <3>3. j + 1 = i
      BY <1>1, <3>2
    <3>4. LenTo(s, j + 1) = LenTo(r, j) + Len(s[i])
      BY <1>4, <3>1, <3>2, <3>3
    <3>5. j \notin Bad
      BY <3>4
    <3> QED
      BY <3>2, <3>5
  <2>2. ASSUME Bad # {} PROVE FALSE
    <3>1. Bad \in SUBSET (i - 1..m)
      OBVIOUS
    <3>2. PICK k \in Bad : k \in (i - 1) + 1..m /\ k - 1 \in i - 1..m /\ k - 1 \notin Bad
      <4>1. i - 1 \in Nat /\ m \in Nat
        BY <1>1
      <4> HIDE DEF Bad, m
      <4> QED
        BY <2>1, <2>2, <3>1, <4>1, FirstFailure
    <3>3. k \in i..m /\ k \in 1..m /\ k + 1 \in 1..n /\ (k - 1) + 1 = k /\ (k + 1) - 1 = k /\ k \in 0..n
      BY <1>1, <3>2
    <3>4. PICK h : h = k - 1
      OBVIOUS
    <3>5. PICK j : j = k + 1
      OBVIOUS
    <3>6. LenTo(s, h + 1) = LenTo(r, h) + Len(s[i])
      BY <3>2, <3>4
    <3>7. LenTo(s, k) = LenTo(r, h) + Len(s[i])
      BY <3>3, <3>4, <3>6
    <3>8. Len(r[k]) = Len(s[j])
      BY <3>3, <3>5
    <3>9. LenTo(s, j) = LenTo(s, k) + Len(s[j])
      <4>1. j \in 1..n /\ j - 1 = k
        BY <3>3, <3>5
      <4> QED
        BY <1>2, <4>1
    <3>10. LenTo(r, k) = LenTo(r, h) + Len(r[k])
      BY <1>3, <3>3, <3>4
    <3>11. PICK a \in Nat, b \in Nat, c \in Nat : a = LenTo(r, h) /\ b = Len(s[i]) /\ c = Len(r[k])
      <4>1. h \in 0..m /\ r[k] \in Seq(T)
        BY <1>1, <3>3, <3>4
      <4>2. LenTo(r, h) \in Nat /\ Len(r[k]) \in Nat
        BY <1>3, <4>1, LenProperties
      <4> QED
        BY <1>1, <4>2
    <3>12. LenTo(s, j) = (a + b) + c /\ LenTo(r, k) = a + c
      BY <3>7, <3>8, <3>9, <3>10, <3>11
    <3>13. (a + b) + c = (a + c) + b
      OBVIOUS
    <3>14. LenTo(s, k + 1) = LenTo(r, k) + Len(s[i])
      BY <3>5, <3>11, <3>12, <3>13, Zenon
    <3> QED
      BY <3>2, <3>14
  <2>3. m \in i - 1..m
    BY <1>1
  <2> QED
    BY <2>2, <2>3
<1>6. m + 1 = n
  BY <1>1
<1> QED
  BY <1>2, <1>3, <1>5, <1>6

\* A text without one of its chunks has the words of the others.
LEMMA CutShape ==
    ASSUME NEW t, IsText(t), NEW u, IsText(u), NEW i \in 1..Len(t), Len(u) = Len(t) - 1,
           \A k \in 1..i - 1 : u[k].ws = t[k].ws,
           \A k \in i..Len(u) : u[k].ws = t[k + 1].ws
    PROVE  Len(Words(t)) = Len(Words(u)) + Len(t[i].ws)
<1>1. /\ WordsOf(t) \in Seq(Seq(Word)) /\ Len(WordsOf(t)) = Len(t) /\ Len(t) \in Nat
      /\ \A k \in 1..Len(t) : WordsOf(t)[k] = t[k].ws
      /\ Words(t) = FlattenSeq(WordsOf(t))
  BY WordsOfShape
<1>2. /\ WordsOf(u) \in Seq(Seq(Word)) /\ Len(WordsOf(u)) = Len(u) /\ Len(u) \in Nat
      /\ \A k \in 1..Len(u) : WordsOf(u)[k] = u[k].ws
      /\ Words(u) = FlattenSeq(WordsOf(u))
  BY WordsOfShape
<1> DEFINE s == WordsOf(t)
           r == WordsOf(u)
<1>3. ASSUME NEW k \in 1..i - 1 PROVE Len(r[k]) = Len(s[k])
  <2>1. k \in 1..Len(t) /\ k \in 1..Len(u)
    BY <1>1
  <2> QED
    BY <1>1, <1>2, <2>1
<1>4. ASSUME NEW k \in i..Len(u) PROVE Len(r[k]) = Len(s[k + 1])
  <2>1. PICK j : j = k + 1
    OBVIOUS
  <2>2. k \in 1..Len(u) /\ j \in 1..Len(t)
    BY <1>1, <1>2, <2>1
  <2>3. r[k] = u[k].ws /\ s[j] = t[j].ws /\ u[k].ws = t[j].ws
    BY <1>1, <1>2, <2>1, <2>2
  <2> QED
    BY <2>1, <2>3
<1> HIDE DEF s, r
<1>5. s[i] = t[i].ws /\ i \in 1..Len(s) /\ Len(r) = Len(s) - 1 /\ Len(r) = Len(u)
  BY <1>1, <1>2 DEF s, r
<1>6. s \in Seq(Seq(Word)) /\ r \in Seq(Seq(Word))
  BY <1>1, <1>2 DEF s, r
<1>7. Len(FlattenSeq(s)) = Len(FlattenSeq(r)) + Len(s[i])
  BY <1>3, <1>4, <1>5, <1>6, OneLess
<1> QED
  BY <1>1, <1>2, <1>5, <1>7 DEF s, r

\* A sequence emptied: its elements are the difference.
LEMMA OneEmptied ==
    ASSUME NEW T, NEW s \in Seq(Seq(T)), NEW r \in Seq(Seq(T)), NEW i \in 1..Len(s),
           Len(r) = Len(s), Len(r[i]) = 0,
           \A k \in 1..Len(s) : k # i => Len(r[k]) = Len(s[k])
    PROVE  Len(FlattenSeq(s)) = Len(FlattenSeq(r)) + Len(s[i])
<1> DEFINE n == Len(s)
           Gap(k) == IF k < i THEN 0 ELSE Len(s[i])
           Bad == {k \in 0..n : LenTo(s, k) # LenTo(r, k) + Gap(k)}
<1>1. n \in Nat /\ 0 \in Nat /\ 0 + 1 = 1 /\ n \in 0..n /\ i \in 1..n /\ Len(s[i]) \in Nat
  BY LenProperties
<1>2. /\ LenTo(s, 0) = 0 /\ LenTo(s, n) = Len(FlattenSeq(s))
      /\ \A k \in 0..n : LenTo(s, k) \in Nat
      /\ \A k \in 1..n : LenTo(s, k) = LenTo(s, k - 1) + Len(s[k])
  BY LensAdd
<1>3. /\ LenTo(r, 0) = 0 /\ LenTo(r, n) = Len(FlattenSeq(r))
      /\ \A k \in 0..n : LenTo(r, k) \in Nat
      /\ \A k \in 1..n : LenTo(r, k) = LenTo(r, k - 1) + Len(r[k])
  BY LensAdd
<1>4. ASSUME Bad # {} PROVE FALSE
  <2>1. 0 \notin Bad /\ Bad \in SUBSET (0..n)
    BY <1>1, <1>2, <1>3
  <2>2. PICK k \in Bad : k \in 1..n /\ k - 1 \in 0..n /\ k - 1 \notin Bad
    <3> HIDE DEF Bad, n
    <3> QED
      BY <1>1, <1>4, <2>1, FirstFailure
  <2>3. PICK x \in Nat, y \in Nat, d \in Nat :
            x = LenTo(s, k - 1) /\ y = LenTo(r, k - 1) /\ d = Len(s[i])
    BY <1>1, <1>2, <1>3, <2>2
  <2>4. x = y + Gap(k - 1)
    BY <2>2, <2>3
  <2>5. LenTo(s, k) = x + Len(s[k]) /\ LenTo(r, k) = y + Len(r[k]) /\ Len(s[k]) \in Nat
    BY <1>2, <1>3, <2>2, <2>3, LenProperties
  <2>6. CASE k = i
    <3>1. Gap(k - 1) = 0 /\ Gap(k) = d /\ Len(r[k]) = 0 /\ Len(s[k]) = d
      BY <1>1, <2>3, <2>6
    <3>2. LenTo(s, k) = LenTo(r, k) + Gap(k)
      <4> HIDE DEF Gap
      <4> QED
        BY <2>3, <2>4, <2>5, <3>1
    <3> QED
      BY <2>2, <3>2
  <2>7. CASE k # i
    <3>1. Gap(k - 1) = Gap(k) /\ Len(r[k]) = Len(s[k]) /\ Gap(k) \in Nat
      BY <1>1, <2>2, <2>7
    <3>2. PICK z \in Nat, g \in Nat : z = Len(s[k]) /\ g = Gap(k)
      BY <2>5, <3>1
    <3>3. LenTo(s, k) = LenTo(r, k) + Gap(k)
      <4> HIDE DEF Gap
      <4> QED
        BY <2>3, <2>4, <2>5, <3>1, <3>2
    <3> QED
      BY <2>2, <3>3
  <2> QED
    BY <2>6, <2>7
<1>5. LenTo(s, n) = LenTo(r, n) + Gap(n)
  BY <1>1, <1>4
<1>6. Gap(n) = Len(s[i])
  BY <1>1
<1> QED
  BY <1>2, <1>3, <1>5, <1>6

Chunk == [ws : Seq(Word), mark : STRING, comma : BOOLEAN]

\* The chunk that is cut out takes its words along, and no other.
LEMMA CutHashShape ==
    ASSUME NEW t, IsText(t), NEW i \in 1..Len(t)
    PROVE  /\ IsText(CutHash(t, i))
           /\ Len(Words(t)) = Len(Words(CutHash(t, i))) + Len(t[i].ws)
<1> DEFINE c == [t[i] EXCEPT !.ws = <<>>]
<1>1. t \in Seq(Chunk) /\ t[i] \in Chunk
  BY ElementOfSeq DEF IsText, Chunk
<1>2. c \in Chunk /\ c.ws = <<>>
  <2>1. <<>> \in Seq(Word)
    OBVIOUS
  <2> HIDE DEF Word
  <2> QED
    BY <1>1, <2>1 DEF Chunk
<1>3. CutHash(t, i) = [t EXCEPT ![i] = c]
  BY DEF CutHash
<1> HIDE DEF c
<1>4. PICK u : u = [t EXCEPT ![i] = c]
  OBVIOUS
<1>5. u \in Seq(Chunk) /\ Len(u) = Len(t) /\ \A k \in 1..Len(t) : u[k] = IF k = i THEN c ELSE t[k]
  BY <1>1, <1>2, <1>4, ExceptSeq
<1>6. IsText(u)
  BY <1>5 DEF IsText, Chunk
<1>7. /\ WordsOf(t) \in Seq(Seq(Word)) /\ Len(WordsOf(t)) = Len(t)
      /\ \A k \in 1..Len(t) : WordsOf(t)[k] = t[k].ws
      /\ Words(t) = FlattenSeq(WordsOf(t))
  BY WordsOfShape
<1>8. /\ WordsOf(u) \in Seq(Seq(Word)) /\ Len(WordsOf(u)) = Len(u)
      /\ \A k \in 1..Len(u) : WordsOf(u)[k] = u[k].ws
      /\ Words(u) = FlattenSeq(WordsOf(u))
  BY <1>6, WordsOfShape
<1> DEFINE s == WordsOf(t)
           r == WordsOf(u)
<1>9. Len(r[i]) = 0 /\ s[i] = t[i].ws
  BY <1>2, <1>5, <1>7, <1>8
<1>10. \A k \in 1..Len(s) : k # i => Len(r[k]) = Len(s[k])
  BY <1>5, <1>7, <1>8
<1>11. s \in Seq(Seq(Word)) /\ r \in Seq(Seq(Word)) /\ i \in 1..Len(s) /\ Len(r) = Len(s)
  BY <1>5, <1>7, <1>8
<1> HIDE DEF s, r
<1>12. Len(FlattenSeq(s)) = Len(FlattenSeq(r)) + Len(s[i])
  BY <1>9, <1>10, <1>11, OneEmptied
<1> QED
  BY <1>3, <1>4, <1>6, <1>7, <1>8, <1>9, <1>12 DEF s, r

\* So does the first chunk.
LEMMA TailShape ==
    ASSUME NEW t, IsText(t), t # <<>>
    PROVE  /\ IsText(Tail(t)) /\ 1 \in 1..Len(t)
           /\ Len(Words(t)) = Len(Words(Tail(t))) + Len(t[1].ws)
<1> DEFINE u == Tail(t)
<1>1. t \in Seq(Chunk) /\ Len(t) \in Nat /\ Len(t) # 0
  BY EmptySeq DEF IsText, Chunk
<1>2. u \in Seq(Chunk) /\ Len(u) = Len(t) - 1 /\ \A k \in 1..Len(u) : u[k] = t[k + 1]
  BY <1>1, HeadTailProperties
<1> HIDE DEF u
<1>3. 1 \in 1..Len(t) /\ \A k \in 1..1 - 1 : u[k].ws = t[k].ws
  BY <1>1
<1>4. \A k \in 1..Len(u) : u[k].ws = t[k + 1].ws
  BY <1>2
<1>5. IsText(u)
  BY <1>2 DEF IsText, Chunk
<1>6. Len(Words(t)) = Len(Words(u)) + Len(t[1].ws)
  BY <1>2, <1>3, <1>4, <1>5, CutShape
<1> QED
  BY <1>3, <1>5, <1>6 DEF u

\* The states there are abbreviations of.
States == {"none"} \cup UNION {{StateOf[c][w] : w \in DOMAIN StateOf[c]} : c \in DOMAIN StateOf}

\* The parts of a query.
Parts == [house : Seq(Word), unit : Seq(Word), state : States, postcode : Seq(Word),
          rest : Seq(Word)]

\* How many words a house number, a unit and the rest have.
Total(p) == Len(p.house) + Len(p.unit) + Len(p.rest)

\* What was read before the tokens: no words but those of a house number and a unit.
OnlyMarks(p) == p.state = "none" /\ p.postcode = <<>> /\ p.rest = <<>>

\* A query with no part filled in.
LEMMA NoQueryShape == NoQuery \in Parts /\ OnlyMarks(NoQuery) /\ Total(NoQuery) = 0
<1>1. <<>> \in Seq(Word) /\ Len(<<>>) = 0
  OBVIOUS
<1>2. "none" \in States
  BY DEF States
<1>3. /\ NoQuery.house = <<>> /\ NoQuery.unit = <<>> /\ NoQuery.state = "none"
      /\ NoQuery.postcode = <<>> /\ NoQuery.rest = <<>>
  BY DEF NoQuery, Nothing
<1>4. NoQuery \in Parts
  BY <1>1, <1>2 DEF Parts, NoQuery, Nothing
<1> QED
  BY <1>1, <1>3, <1>4 DEF OnlyMarks, Total

\* The marks are read into the house number and the unit, and the text keeps
\* its other words.
LEMMA MarksShape ==
    ASSUME NEW t, IsText(t)
    PROVE  /\ IsText(ReadMarks(t).t)
           /\ ReadMarks(t).p \in Parts /\ OnlyMarks(ReadMarks(t).p)
           /\ Total(ReadMarks(t).p) + Len(Words(ReadMarks(t).t)) = Len(Words(t))
<1> DEFINE one == IF Slashed(t) THEN [p |-> [NoQuery EXCEPT !.unit = <<t[1].ws[1]>>,
                                                            !.house = <<t[1].ws[2]>>], t |-> Tail(t)]
                  ELSE IF Hyphened(t) THEN [p |-> [NoQuery EXCEPT !.house = t[1].ws], t |-> Tail(t)]
                  ELSE [p |-> NoQuery, t |-> t]
           Fits(m) == /\ IsText(m.t) /\ m.p \in Parts /\ OnlyMarks(m.p)
                      /\ Total(m.p) + Len(Words(m.t)) = Len(Words(t))
<1>1. \A u : IsText(u) => Len(Words(u)) \in Nat
  <2>1. ASSUME NEW u, IsText(u) PROVE Len(Words(u)) \in Nat
    <3>1. WordsOf(u) \in Seq(Seq(Word)) /\ Words(u) = FlattenSeq(WordsOf(u))
      BY <2>1, WordsOfShape
    <3> QED
      BY <3>1, LensAdd, LenProperties
  <2> QED
    BY <2>1
<1>2. ASSUME t # <<>> PROVE t[1].ws \in Seq(Word) /\ Len(t[1].ws) \in Nat
  <2>1. 1 \in 1..Len(t)
    BY <1>2, TailShape
  <2> QED
    BY <2>1, WordsOfShape, LenProperties
<1>3. ASSUME Slashed(t) PROVE Fits(one)
  <2> DEFINE p == [NoQuery EXCEPT !.unit = <<t[1].ws[1]>>, !.house = <<t[1].ws[2]>>]
  <2>1. t # <<>> /\ Len(t[1].ws) = 2
    BY <1>3 DEF Slashed
  <2>2. t[1].ws[1] \in Word /\ t[1].ws[2] \in Word
    BY <1>2, <2>1
  <2>3. <<t[1].ws[1]>> \in Seq(Word) /\ <<t[1].ws[2]>> \in Seq(Word)
    BY <2>2
  <2>4. p \in Parts /\ p.unit = <<t[1].ws[1]>> /\ p.house = <<t[1].ws[2]>> /\ p.rest = NoQuery.rest
        /\ p.state = NoQuery.state /\ p.postcode = NoQuery.postcode
    BY <2>3, NoQueryShape DEF Parts
  <2>5. Len(p.unit) = 1 /\ Len(p.house) = 1 /\ Len(p.rest) = 0
    BY <2>4, NoQueryShape DEF OnlyMarks
  <2>6. Total(p) = 2 /\ OnlyMarks(p)
    BY <2>4, <2>5, NoQueryShape DEF OnlyMarks, Total
  <2>7. IsText(Tail(t)) /\ Len(Words(t)) = Len(Words(Tail(t))) + 2
    BY <2>1, TailShape
  <2>8. one = [p |-> p, t |-> Tail(t)]
    BY <1>3, Zenon
  <2> HIDE DEF p, one
  <2>9. one.p = p /\ one.t = Tail(t)
    BY <2>8
  <2>10. 2 + Len(Words(Tail(t))) = Len(Words(t))
    BY <1>1, <2>7
  <2> QED
    BY <2>4, <2>6, <2>7, <2>9, <2>10
<1>4. ASSUME ~Slashed(t), Hyphened(t) PROVE Fits(one)
  <2> DEFINE p == [NoQuery EXCEPT !.house = t[1].ws]
  <2>1. t # <<>>
    <3>1. Len(t) > 1
      BY <1>4 DEF Hyphened
    <3> QED
      BY <3>1
  <2>2. p \in Parts /\ p.house = t[1].ws /\ p.unit = NoQuery.unit /\ p.rest = NoQuery.rest
        /\ p.state = NoQuery.state /\ p.postcode = NoQuery.postcode
    BY <1>2, <2>1, NoQueryShape DEF Parts
  <2>3. Len(p.unit) = 0 /\ Len(p.rest) = 0
    BY <2>2 DEF NoQuery, Nothing
  <2> HIDE DEF p
  <2>4. Total(p) = Len(t[1].ws) /\ OnlyMarks(p)
    <3>1. PICK a \in Nat : a = Len(t[1].ws)
      BY <1>2, <2>1
    <3>2. Total(p) = a + 0 + 0
      BY <2>2, <2>3, <3>1, Zenon DEF Total
    <3>3. OnlyMarks(p)
      BY <2>2, NoQueryShape DEF OnlyMarks
    <3> QED
      BY <3>1, <3>2, <3>3
  <2>5. IsText(Tail(t)) /\ Len(Words(t)) = Len(Words(Tail(t))) + Len(t[1].ws)
    BY <2>1, TailShape
  <2>6. one = [p |-> p, t |-> Tail(t)]
    BY <1>4, Zenon DEF p
  <2> HIDE DEF one
  <2>7. one.p = p /\ one.t = Tail(t)
    BY <2>6
  <2>8. Len(t[1].ws) + Len(Words(Tail(t))) = Len(Words(t))
    BY <1>1, <1>2, <2>1, <2>5
  <2> QED
    BY <2>2, <2>4, <2>5, <2>7, <2>8
<1>5. ASSUME ~Slashed(t), ~Hyphened(t) PROVE Fits(one)
  <2>1. one = [p |-> NoQuery, t |-> t]
    BY <1>5, Zenon
  <2> HIDE DEF one
  <2>2. one.p = NoQuery /\ one.t = t
    BY <2>1
  <2>3. 0 + Len(Words(t)) = Len(Words(t))
    BY <1>1
  <2> QED
    BY <2>2, <2>3, NoQueryShape
<1>6. Fits(one)
  BY <1>3, <1>4, <1>5
<1> HIDE DEF one
<1> DEFINE h == Hash(one.t)
           cut == [p |-> [one.p EXCEPT !.unit = one.t[Min(h)].ws], t |-> CutHash(one.t, Min(h))]
<1>7. ReadMarks(t) = IF one.p.unit = Nothing /\ h # {} THEN cut ELSE one
  BY Zenon DEF ReadMarks, one
<1>8. ASSUME one.p.unit = Nothing, h # {} PROVE Fits(cut)
  <2>1. Min(h) \in h
    <3>1. h \subseteq Nat /\ h # {}
      <4>1. Len(one.t) \in Nat /\ DOMAIN one.t = 1..Len(one.t)
        BY <1>6, WordsOfShape DEF IsText
      <4> QED
        BY <1>8, <4>1 DEF Hash
    <3> HIDE DEF h
    <3>2. \E x \in h : \A y \in h : x <= y
      BY <3>1, LeastExists
    <3> QED
      BY <3>2, Zenon DEF Min
  <2>2. PICK i : i = Min(h)
    OBVIOUS
  <2>3. i \in 1..Len(one.t)
    BY <1>6, <2>1, <2>2 DEF Hash, IsText
  <2> HIDE DEF h
  <2>4. one.t[i].ws \in Seq(Word) /\ Len(one.t[i].ws) \in Nat
    BY <1>6, <2>3, WordsOfShape, LenProperties
  <2> DEFINE p == [one.p EXCEPT !.unit = one.t[i].ws]
  <2>5. p \in Parts /\ p.unit = one.t[i].ws /\ p.house = one.p.house /\ p.rest = one.p.rest
        /\ p.state = one.p.state /\ p.postcode = one.p.postcode
    BY <1>6, <2>4 DEF Parts
  <2>6. OnlyMarks(p)
    BY <1>6, <2>5 DEF OnlyMarks
  <2>7. Len(one.p.unit) = 0 /\ Len(one.p.rest) = 0 /\ Len(one.p.house) \in Nat
    BY <1>6, <1>8 DEF Nothing, OnlyMarks, Parts
  <2>8. Total(p) = Len(one.p.house) + Len(one.t[i].ws) /\ Total(one.p) = Len(one.p.house)
    <3>1. PICK a \in Nat, b \in Nat : a = Len(one.p.house) /\ b = Len(one.t[i].ws)
      BY <2>4, <2>7
    <3> HIDE DEF p
    <3>2. Total(p) = a + b + 0 /\ Total(one.p) = a + 0 + 0
      BY <2>5, <2>7, <3>1, Zenon DEF Total
    <3> QED
      BY <3>1, <3>2
  <2>9. /\ IsText(CutHash(one.t, i))
        /\ Len(Words(one.t)) = Len(Words(CutHash(one.t, i))) + Len(one.t[i].ws)
    BY <1>6, <2>3, CutHashShape
  <2>10. Total(p) + Len(Words(CutHash(one.t, i))) = Len(Words(t))
    <3>1. PICK a \in Nat, b \in Nat, c \in Nat :
              /\ a = Len(one.p.house) /\ b = Len(one.t[i].ws)
              /\ c = Len(Words(CutHash(one.t, i)))
      BY <1>1, <2>4, <2>7, <2>9
    <3>2. Total(p) + Len(Words(CutHash(one.t, i))) = (a + b) + c
      BY <2>8, <3>1, Zenon
    <3>3. Len(Words(t)) = a + (c + b)
      BY <1>6, <2>8, <2>9, <3>1, Zenon
    <3> QED
      BY <3>2, <3>3
  <2> HIDE DEF p
  <2>11. cut = [p |-> p, t |-> CutHash(one.t, i)]
    BY <2>2, Zenon DEF p
  <2> HIDE DEF cut
  <2>12. cut.p = p /\ cut.t = CutHash(one.t, i)
    BY <2>11
  <2> QED
    BY <2>5, <2>6, <2>9, <2>10, <2>12
<1> HIDE DEF cut, h
<1>9. Fits(ReadMarks(t))
  <2>1. CASE one.p.unit = Nothing /\ h # {}
    BY <1>7, <1>8, <2>1
  <2>2. CASE ~(one.p.unit = Nothing /\ h # {})
    BY <1>6, <1>7, <2>2
  <2> QED
    BY <2>1, <2>2
<1> QED
  BY <1>9

\* One part of a query may hold more words than before, and none is taken out.
Grows(p, q) ==
    /\ TokenSet(p.house) \subseteq TokenSet(q.house) /\ TokenSet(p.unit) \subseteq TokenSet(q.unit)
    /\ TokenSet(p.rest) \subseteq TokenSet(q.rest)
    /\ TokenSet(p.postcode) \subseteq TokenSet(q.postcode)
    /\ p.state # "none" => q.state = p.state
    /\ p.unit # Nothing => q.unit # Nothing

\* What NoWordLost says of one word.
Kept(w, p) ==
    \/ w \in TokenSet(p.rest) \cup TokenSet(p.house)
             \cup TokenSet(p.unit) \cup TokenSet(p.postcode)
    \/ p.state # "none" /\ \E c \in DOMAIN StateOf :
         w \in DOMAIN StateOf[c] /\ StateOf[c][w] = p.state
    \/ w \in UnitWords /\ p.unit # Nothing
    \/ w = "floor" \/ FloorOrdinal(w)

\* A word that is in the parts stays in them when they grow.
LEMMA KeptGrows ==
    ASSUME NEW w, NEW p, NEW q, Grows(p, q), Kept(w, p)
    PROVE  Kept(w, q)
<1>1. CASE w \in TokenSet(p.rest) \cup TokenSet(p.house) \cup TokenSet(p.unit) \cup TokenSet(p.postcode)
  <2>1. w \in TokenSet(q.rest) \cup TokenSet(q.house) \cup TokenSet(q.unit) \cup TokenSet(q.postcode)
    BY <1>1 DEF Grows
  <2> QED
    BY <2>1 DEF Kept
<1>2. CASE p.state # "none" /\ \E c \in DOMAIN StateOf : w \in DOMAIN StateOf[c] /\ StateOf[c][w] = p.state
  <2>1. q.state = p.state
    BY <1>2 DEF Grows
  <2> QED
    BY <1>2, <2>1 DEF Kept
<1>3. CASE w \in UnitWords /\ p.unit # Nothing
  BY <1>3 DEF Grows, Kept
<1>4. CASE w = "floor" \/ FloorOrdinal(w)
  BY <1>4 DEF Kept
<1> QED
  BY <1>1, <1>2, <1>3, <1>4 DEF Kept

\* What grows twice has grown.
LEMMA GrowsOn ==
    ASSUME NEW p, NEW q, NEW r, Grows(p, q), Grows(q, r)
    PROVE  Grows(p, r)
<1>1. p.state # "none" => r.state = p.state
  BY DEF Grows
<1>2. p.unit # Nothing => r.unit # Nothing
  BY DEF Grows
<1> QED
  BY <1>1, <1>2 DEF Grows

\* A state stands for the abbreviation it was found by.
LEMMA StateAtIs ==
    ASSUME NEW ts, NEW i, NEW pc, NEW cc, StateAt(ts, i, pc, cc) # "none"
    PROVE  /\ StateAt(ts, i, pc, cc) \in States
           /\ \E c \in DOMAIN StateOf : /\ ts[i] \in DOMAIN StateOf[c]
                                        /\ StateOf[c][ts[i]] = StateAt(ts, i, pc, cc)
<1> DEFINE c == IF cc = NoCountry THEN "AU" ELSE cc
<1>1. c \in DOMAIN StateOf /\ ts[i] \in DOMAIN StateOf[c] /\ StateAt(ts, i, pc, cc) = StateOf[c][ts[i]]
  BY Zenon DEF StateAt
<1> HIDE DEF c
<1> QED
  BY <1>1 DEF States

\* A word that is one of a list of words.
LEMMA AppendTokens ==
    ASSUME NEW s \in Seq(Word), NEW w \in Word
    PROVE  /\ Append(s, w) \in Seq(Word) /\ Len(Append(s, w)) = Len(s) + 1
           /\ TokenSet(s) \subseteq TokenSet(Append(s, w)) /\ w \in TokenSet(Append(s, w))
<1>1. PICK a : a = Append(s, w)
  OBVIOUS
<1>2. /\ a \in Seq(Word) /\ Len(a) = Len(s) + 1 /\ a[Len(s) + 1] = w
      /\ \A k \in 1..Len(s) : a[k] = s[k]
  BY <1>1, AppendProperties
<1>3. PICK n \in Nat : n = Len(s)
  OBVIOUS
<1>4. DOMAIN a = 1..n + 1 /\ DOMAIN s = 1..n /\ n + 1 \in 1..n + 1 /\ 1..n \subseteq 1..n + 1
  BY <1>2, <1>3
<1>5. w \in TokenSet(a)
  BY <1>2, <1>3, <1>4 DEF TokenSet
<1>6. ASSUME NEW x \in TokenSet(s) PROVE x \in TokenSet(a)
  <2>1. PICK k \in 1..n : x = s[k]
    BY <1>4 DEF TokenSet
  <2>2. k \in DOMAIN a /\ a[k] = x
    BY <1>2, <1>3, <1>4, <2>1
  <2> QED
    BY <2>2 DEF TokenSet
<1> QED
  BY <1>1, <1>2, <1>5, <1>6

\* A part of one token.
LEMMA OneToken ==
    ASSUME NEW w \in Word
    PROVE  /\ <<w>> \in Seq(Word) /\ Len(<<w>>) = 1 /\ <<w>> # Nothing /\ w \in TokenSet(<<w>>)
           /\ Nothing \in Seq(Word) /\ Len(Nothing) = 0 /\ TokenSet(Nothing) = {}
<1>1. <<w>> \in Seq(Word) /\ Len(<<w>>) = 1
  OBVIOUS
<1>2. Nothing \in Seq(Word) /\ Len(Nothing) = 0 /\ DOMAIN Nothing = {}
  BY DEF Nothing
<1>3. <<w>> # Nothing
  BY <1>1, <1>2
<1>4. 1 \in DOMAIN <<w>> /\ <<w>>[1] = w
  OBVIOUS
<1> QED
  BY <1>1, <1>2, <1>3, <1>4 DEF TokenSet

\* The total length of the parts is a number.
LEMMA TotalIsNat ==
    ASSUME NEW p \in Parts
    PROVE  Total(p) \in Nat
<1>1. PICK x \in Nat, y \in Nat, z \in Nat : x = Len(p.house) /\ y = Len(p.unit) /\ z = Len(p.rest)
  <2>1. p.house \in Seq(Word) /\ p.unit \in Seq(Word) /\ p.rest \in Seq(Word)
    BY DEF Parts
  <2>2. Len(p.house) \in Nat /\ Len(p.unit) \in Nat /\ Len(p.rest) \in Nat
    BY <2>1, LenProperties
  <2> QED
    BY <2>2
<1>2. Total(p) = x + y + z
  BY <1>1, Zenon DEF Total
<1> QED
  BY <1>2

\* What the loop over the tokens carries.
Turn == [p : Parts, skip : BOOLEAN]

\* One turn adds at most one word to the parts, takes none out, and keeps the
\* token it read, unless an earlier turn has.
LEMMA TurnShape ==
    ASSUME NEW acc \in Turn, NEW ts \in Seq(Word), NEW i \in 1..Len(ts), NEW pc, NEW first,
           NEW cc, NEW b, b = ParseToken(acc, ts, i, pc, first, cc)
    PROVE  /\ b \in Turn /\ b.p.postcode = acc.p.postcode /\ Grows(acc.p, b.p)
           /\ Total(b.p) <= Total(acc.p) + 1
           /\ i >= pc => b = acc
           /\ ~(i >= pc) => acc.skip \/ Kept(ts[i], b.p)
           /\ ~(i >= pc) /\ b.skip /\ i < Len(ts) => ts[i + 1] \in TokenSet(b.p.unit)
<1> DEFINE w == ts[i]
           p == acc.p
           next == IF i < Len(ts) THEN ts[i + 1] ELSE "none"
           Fits(x) == /\ x \in Turn /\ x.p.postcode = acc.p.postcode /\ Grows(acc.p, x.p)
                      /\ Total(x.p) <= Total(acc.p) + 1
           Floor == \/ next = "floor" /\ FloorOrdinal(w)
                    \/ w = "floor" /\ i > 1 /\ FloorOrdinal(ts[i - 1])
           state == StateAt(ts, i, pc, cc)
<1>1. w \in Word /\ next \in Word /\ i \in Nat /\ Len(ts) \in Nat
  <2>1. "none" \in Word
    BY DEF Word
  <2>2. Len(ts) \in Nat /\ i \in Nat
    OBVIOUS
  <2>3. i < Len(ts) => ts[i + 1] \in Word
    BY <2>2, ElementOfSeq
  <2> QED
    BY <2>1, <2>2, <2>3, ElementOfSeq
<1>2. /\ p \in Parts /\ acc.skip \in BOOLEAN
      /\ p.house \in Seq(Word) /\ p.unit \in Seq(Word) /\ p.rest \in Seq(Word)
  BY DEF Turn, Parts
<1>3. PICK x \in Nat, y \in Nat, z \in Nat : x = Len(p.house) /\ y = Len(p.unit) /\ z = Len(p.rest)
  BY <1>2, LenProperties
<1>4. Total(p) = x + y + z
  BY <1>3, Zenon DEF Total
<1>5. Fits(acc)
  <2>1. Grows(p, p)
    BY DEF Grows
  <2>2. Total(p) <= Total(p) + 1
    BY <1>4
  <2> QED
    BY <2>1, <2>2
<1>6. CASE i >= pc
  <2>1. b = acc
    BY <1>6, Zenon DEF ParseToken
  <2> QED
    BY <1>5, <1>6, <2>1
<1>7. CASE ~(i >= pc) /\ acc.skip
  <2>1. b = [acc EXCEPT !.skip = FALSE]
    BY <1>7, Zenon DEF ParseToken
  <2>2. b \in Turn /\ b.p = acc.p /\ b.skip = FALSE
    BY <2>1 DEF Turn
  <2> QED
    BY <1>5, <1>7, <2>2
<1>8. CASE ~(i >= pc) /\ ~acc.skip
  <2>1. \/ /\ p.unit = Nothing /\ w \in UnitWords /\ next \in DigitLed \cup OneLetter
           /\ b = [p |-> [p EXCEPT !.unit = <<next>>], skip |-> TRUE]
        \/ Floor /\ b = acc
        \/ HouseAt(p, ts, i, first) /\ b = [acc EXCEPT !.p.house = <<w>>]
        \/ p.state = "none" /\ state # "none" /\ b = [acc EXCEPT !.p.state = state]
        \/ b = [acc EXCEPT !.p.rest = Append(@, w)]
    BY <1>8 DEF ParseToken
  <2> HIDE DEF next, Floor, state
  <2>2. CASE /\ p.unit = Nothing /\ w \in UnitWords
             /\ b = [p |-> [p EXCEPT !.unit = <<next>>], skip |-> TRUE]
    <3> DEFINE q == [p EXCEPT !.unit = <<next>>]
    <3>1. <<next>> \in Seq(Word) /\ Len(<<next>>) = 1 /\ <<next>> # Nothing /\ next \in TokenSet(<<next>>)
          /\ Len(Nothing) = 0 /\ TokenSet(Nothing) = {}
      BY <1>1, OneToken
    <3>2. /\ q \in Parts /\ q.unit = <<next>> /\ q.house = p.house /\ q.rest = p.rest
          /\ q.state = p.state /\ q.postcode = p.postcode
      BY <1>2, <3>1 DEF Parts
    <3> HIDE DEF q
    <3>3. b.p = q /\ b.skip = TRUE /\ b \in Turn
      BY <2>2, <3>2 DEF Turn, q
    <3>4. Grows(p, q)
      BY <2>2, <3>1, <3>2 DEF Grows
    <3>5. Total(q) <= Total(p) + 1
      <4>1. Total(q) = x + 1 + z /\ y = 0
        BY <1>3, <2>2, <3>1, <3>2, Zenon DEF Total
      <4>2. x + 1 + z <= x + y + z + 1
        BY <4>1
      <4> QED
        BY <1>4, <4>1, <4>2, Zenon
    <3>6. Kept(w, q)
      BY <2>2, <3>1, <3>2 DEF Kept
    <3>7. i < Len(ts) => ts[i + 1] \in TokenSet(q.unit)
      BY <3>1, <3>2, Zenon DEF next
    <3> QED
      BY <1>8, <3>2, <3>3, <3>4, <3>5, <3>6, <3>7
  <2>3. CASE Floor /\ b = acc
    <3>1. Kept(w, p)
      BY <2>3 DEF Floor, Kept
    <3> QED
      BY <1>5, <1>8, <2>3, <3>1
  <2>4. CASE HouseAt(p, ts, i, first) /\ b = [acc EXCEPT !.p.house = <<w>>]
    <3> DEFINE q == [p EXCEPT !.house = <<w>>]
    <3>1. <<w>> \in Seq(Word) /\ Len(<<w>>) = 1 /\ w \in TokenSet(<<w>>)
          /\ Len(Nothing) = 0 /\ TokenSet(Nothing) = {}
      BY <1>1, OneToken
    <3>2. /\ q \in Parts /\ q.house = <<w>> /\ q.unit = p.unit /\ q.rest = p.rest
          /\ q.state = p.state /\ q.postcode = p.postcode
      BY <1>2, <3>1 DEF Parts
    <3>3. p.house = Nothing
      BY <2>4 DEF HouseAt
    <3>4. b = [acc EXCEPT !.p = q]
      BY <2>4, Zenon
    <3> HIDE DEF q
    <3>5. b.p = q /\ b.skip = acc.skip /\ b \in Turn
      BY <3>2, <3>4 DEF Turn
    <3>6. Grows(p, q)
      BY <3>1, <3>2, <3>3 DEF Grows
    <3>7. Total(q) <= Total(p) + 1
      <4>1. Total(q) = 1 + y + z /\ x = 0
        BY <1>3, <3>1, <3>2, <3>3, Zenon DEF Total
      <4>2. 1 + y + z <= x + y + z + 1
        BY <4>1
      <4> QED
        BY <1>4, <4>1, <4>2, Zenon
    <3>8. Kept(w, q)
      BY <3>1, <3>2 DEF Kept
    <3> QED
      BY <1>8, <3>2, <3>5, <3>6, <3>7, <3>8
  <2>5. CASE p.state = "none" /\ state # "none" /\ b = [acc EXCEPT !.p.state = state]
    <3> DEFINE q == [p EXCEPT !.state = state]
    <3>1. state \in States /\ \E c \in DOMAIN StateOf : w \in DOMAIN StateOf[c] /\ StateOf[c][w] = state
      BY <2>5, StateAtIs DEF state
    <3>2. /\ q \in Parts /\ q.house = p.house /\ q.unit = p.unit /\ q.rest = p.rest
          /\ q.state = state /\ q.postcode = p.postcode
      BY <1>2, <3>1 DEF Parts
    <3>3. b = [acc EXCEPT !.p = q]
      BY <2>5, Zenon
    <3> HIDE DEF q
    <3>4. b.p = q /\ b.skip = acc.skip /\ b \in Turn
      BY <3>2, <3>3 DEF Turn
    <3>5. Grows(p, q)
      BY <2>5, <3>2 DEF Grows
    <3>6. Total(q) = Total(p)
      BY <3>2, Zenon DEF Total
    <3>7. Kept(w, q)
      BY <2>5, <3>1, <3>2 DEF Kept
    <3>8. Total(q) <= Total(p) + 1
      BY <1>4, <3>6
    <3> QED
      BY <1>8, <3>2, <3>4, <3>5, <3>7, <3>8
  <2>6. CASE b = [acc EXCEPT !.p.rest = Append(@, w)]
    <3> DEFINE a == Append(p.rest, w)
               q == [p EXCEPT !.rest = a]
    <3>1. a \in Seq(Word) /\ Len(a) = Len(p.rest) + 1 /\ TokenSet(p.rest) \subseteq TokenSet(a) /\ w \in TokenSet(a)
      BY <1>1, <1>2, AppendTokens
    <3>2. b = [acc EXCEPT !.p = q]
      BY <2>6, Zenon
    <3> HIDE DEF a
    <3>3. /\ q \in Parts /\ q.house = p.house /\ q.unit = p.unit /\ q.rest = a
          /\ q.state = p.state /\ q.postcode = p.postcode
      BY <1>2, <3>1 DEF Parts
    <3> HIDE DEF q
    <3>4. b.p = q /\ b.skip = acc.skip /\ b \in Turn
      BY <3>2, <3>3 DEF Turn
    <3>5. Grows(p, q)
      BY <3>1, <3>3 DEF Grows
    <3>6. Total(q) <= Total(p) + 1
      <4>1. Total(q) = x + y + (z + 1)
        BY <1>3, <3>1, <3>3, Zenon DEF Total
      <4>2. x + y + (z + 1) <= x + y + z + 1
        OBVIOUS
      <4> QED
        BY <1>4, <4>1, <4>2, Zenon
    <3>7. Kept(w, q)
      BY <3>1, <3>3 DEF Kept
    <3> QED
      BY <1>8, <3>3, <3>4, <3>5, <3>6, <3>7
  <2> QED
    BY <2>1, <2>2, <2>3, <2>4, <2>5, <2>6
<1> QED
  BY <1>6, <1>7, <1>8

\* What the loop carries after each token.
AreTurns(g, start, ts, pc, first, cc, n) ==
    g = [i \in 0..n |-> IF i = 0 THEN start ELSE ParseToken(g[i - 1], ts, i, pc, first, cc)]

\* It exists, by induction on how many tokens there are.
LEMMA TurnsExist ==
    ASSUME NEW start, NEW ts, NEW pc, NEW first, NEW cc, NEW n \in Nat
    PROVE  \E g : AreTurns(g, start, ts, pc, first, cc, n)
<1> DEFINE Bad == {k \in 0..n : ~\E f : AreTurns(f, start, ts, pc, first, cc, k)}
<1>1. ASSUME Bad # {} PROVE FALSE
  <2>1. 0 \notin Bad
    <3> DEFINE z == [i \in 0..0 |-> start]
    <3>1. AreTurns(z, start, ts, pc, first, cc, 0)
      BY DEF AreTurns
    <3> QED
      BY <3>1
  <2>2. Bad \in SUBSET (0..n)
    OBVIOUS
  <2>3. PICK k \in Bad : k \in 1..n /\ k - 1 \in 0..n /\ k - 1 \notin Bad
    <3>1. 0 \in Nat /\ 0 + 1 = 1
      OBVIOUS
    <3> HIDE DEF Bad
    <3> QED
      BY <1>1, <2>1, <2>2, <3>1, FirstFailure
  <2>4. PICK f : AreTurns(f, start, ts, pc, first, cc, k - 1)
    BY <2>3
  <2> DEFINE h == [i \in 0..k |-> IF i = k THEN ParseToken(f[k - 1], ts, k, pc, first, cc) ELSE f[i]]
  <2>5. ASSUME NEW i \in 0..k PROVE h[i] = IF i = 0 THEN start ELSE ParseToken(h[i - 1], ts, i, pc, first, cc)
    <3>1. i = 0 \/ i - 1 \in 0..k - 1
      BY <2>3
    <3>2. i - 1 \in 0..k - 1 => h[i - 1] = f[i - 1]
      BY <2>3
    <3>3. i \in 0..k - 1 => h[i] = f[i] /\ f[i] = IF i = 0 THEN start ELSE ParseToken(f[i - 1], ts, i, pc, first, cc)
      BY <2>3, <2>4 DEF AreTurns
    <3>4. i = k \/ i \in 0..k - 1
      BY <2>3
    <3>5. k # 0
      BY <2>3
    <3> QED
      BY <3>1, <3>2, <3>3, <3>4, <3>5
  <2>6. AreTurns(h, start, ts, pc, first, cc, k)
    <3> DEFINE e == [i \in 0..k |-> IF i = 0 THEN start ELSE ParseToken(h[i - 1], ts, i, pc, first, cc)]
    <3>1. \A i \in 0..k : h[i] = e[i]
      BY <2>5
    <3>2. h = [i \in 0..k |-> h[i]]
      OBVIOUS
    <3> HIDE DEF h
    <3>3. h = e
      BY <3>1, <3>2
    <3> QED
      BY <3>3 DEF AreTurns
  <2> QED
    BY <2>3, <2>6
<1>2. n \in 0..n /\ n \notin Bad
  BY <1>1
<1> QED
  BY <1>2

\* What the loop has done to the parts when it ends.
TurnsEnd(start, b, ts, pc) ==
    /\ b \in Turn /\ b.p.postcode = start.p.postcode /\ Grows(start.p, b.p)
    /\ Total(b.p) <= Total(start.p) + (pc - 1)
    /\ \A j \in 1..pc - 1 : Kept(ts[j], b.p)

\* The loop keeps every token in front of the postcode, and adds at most a word
\* for each of them.
LEMMA TurnsShape ==
    ASSUME NEW ts \in Seq(Word), NEW pc \in 1..Len(ts) + 1, NEW first, NEW cc,
           NEW start \in Turn, start.skip = FALSE,
           NEW g, AreTurns(g, start, ts, pc, first, cc, Len(ts)), NEW b, b = g[Len(ts)]
    PROVE  TurnsEnd(start, b, ts, pc)
<1> DEFINE n == Len(ts)
           Least(i) == IF i < pc THEN i ELSE pc - 1
           Good(a, i) == /\ a \in Turn /\ a.p.postcode = start.p.postcode /\ Grows(start.p, a.p)
                         /\ Total(a.p) <= Total(start.p) + Least(i)
                         /\ \A j \in 1..Least(i) : Kept(ts[j], a.p)
                         /\ a.skip /\ i + 1 < pc => ts[i + 1] \in TokenSet(a.p.unit)
           Bad == {i \in 0..n : ~Good(g[i], i)}
<1>1. n \in Nat /\ pc \in Nat /\ 1 <= pc /\ pc <= n + 1 /\ 0 \in Nat /\ 0 + 1 = 1
  BY LenProperties
<1>2. \A q \in Parts : Total(q) \in Nat
  BY TotalIsNat
<1>3. g[0] = start /\ \A i \in 1..n : g[i] = ParseToken(g[i - 1], ts, i, pc, first, cc)
  <2>1. \A i \in 0..n : g[i] = IF i = 0 THEN start ELSE ParseToken(g[i - 1], ts, i, pc, first, cc)
    BY Zenon DEF AreTurns
  <2>2. 0 \in 0..n /\ \A i \in 1..n : i \in 0..n /\ i # 0
    BY <1>1
  <2> QED
    BY <2>1, <2>2, Zenon
<1>4. Good(start, 0)
  <2>1. Least(0) = 0
    BY <1>1
  <2>2. Grows(start.p, start.p) /\ start.p \in Parts
    BY DEF Grows, Turn
  <2>3. Total(start.p) <= Total(start.p) + 0
    BY <1>2, <2>2
  <2> HIDE DEF Least
  <2>4. \A j \in 1..Least(0) : Kept(ts[j], start.p)
    BY <2>1
  <2> QED
    BY <2>1, <2>2, <2>3, <2>4
<1>5. ASSUME Bad # {} PROVE FALSE
  <2>1. 0 \notin Bad /\ Bad \in SUBSET (0..n)
    <3> HIDE DEF Good
    <3> QED
      BY <1>3, <1>4
  <2>2. PICK i \in Bad : i \in 1..n /\ i - 1 \in 0..n /\ i - 1 \notin Bad
    <3> HIDE DEF Bad, n
    <3> QED
      BY <1>1, <1>5, <2>1, FirstFailure
  <2>3. PICK h : h = i - 1
    OBVIOUS
  <2>4. h \in 0..n /\ h + 1 = i /\ i \in 1..n
    BY <2>2, <2>3
  <2>5. PICK a : a = g[h]
    OBVIOUS
  <2>6. Good(a, h)
    <3> HIDE DEF Good
    <3> QED
      BY <2>2, <2>3, <2>4, <2>5
  <2>7. PICK c : c = ParseToken(a, ts, i, pc, first, cc)
    OBVIOUS
  <2>8. g[i] = c
    BY <1>3, <2>3, <2>4, <2>5, <2>7, Zenon
  <2>9. /\ c \in Turn /\ c.p.postcode = a.p.postcode /\ Grows(a.p, c.p)
        /\ Total(c.p) <= Total(a.p) + 1
        /\ i >= pc => c = a
        /\ ~(i >= pc) => a.skip \/ Kept(ts[i], c.p)
        /\ ~(i >= pc) /\ c.skip /\ i < n => ts[i + 1] \in TokenSet(c.p.unit)
    BY <2>4, <2>6, <2>7, TurnShape
  <2>10. Good(c, i)
    <3>1. CASE i >= pc
      <4>1. Least(i) = pc - 1 /\ Least(h) = pc - 1 /\ ~(i + 1 < pc)
        BY <1>1, <2>4, <3>1
      <4> HIDE DEF Least
      <4> QED
        BY <2>6, <2>9, <3>1, <4>1
    <3>2. CASE ~(i >= pc)
      <4>1. Least(i) = i /\ Least(h) = h /\ h + 1 < pc /\ (i + 1 < pc => i < n)
        BY <1>1, <2>4, <3>2
      <4> HIDE DEF Least
      <4>2. Grows(start.p, c.p)
        BY <2>6, <2>9, GrowsOn
      <4>3. Total(c.p) <= Total(start.p) + i
        <5>1. PICK x \in Nat, y \in Nat, z \in Nat : x = Total(start.p) /\ y = Total(a.p) /\ z = Total(c.p)
          BY <1>2, <2>6, <2>9 DEF Turn
        <5>2. y <= x + h /\ z <= y + 1
          BY <2>6, <2>9, <4>1, <5>1
        <5>3. z <= x + i
          BY <2>4, <5>2
        <5> QED
          BY <5>1, <5>3
      <4>4. ASSUME NEW j \in 1..h PROVE Kept(ts[j], c.p)
        <5>1. Kept(ts[j], a.p)
          BY <2>6, <4>1
        <5> QED
          BY <2>9, <5>1, KeptGrows
      <4>5. Kept(ts[i], c.p)
        <5>1. CASE a.skip
          <6>1. ts[i] \in TokenSet(a.p.unit)
            BY <2>4, <2>6, <4>1, <5>1
          <6>2. Kept(ts[i], a.p)
            BY <6>1 DEF Kept
          <6> QED
            BY <2>9, <6>2, KeptGrows
        <5>2. CASE ~a.skip
          BY <2>9, <3>2, <5>2
        <5> QED
          BY <5>1, <5>2
      <4>6. \A j \in 1..i : j \in 1..h \/ j = i
        BY <2>4
      <4>7. \A j \in 1..i : Kept(ts[j], c.p)
        BY <4>4, <4>5, <4>6
      <4>8. c.skip /\ i + 1 < pc => ts[i + 1] \in TokenSet(c.p.unit)
        BY <2>9, <3>2, <4>1
      <4>9. c.p.postcode = start.p.postcode
        BY <2>6, <2>9
      <4> QED
        BY <2>9, <4>1, <4>2, <4>3, <4>7, <4>8, <4>9
    <3> QED
      BY <3>1, <3>2
  <2> HIDE DEF Good
  <2> QED
    BY <2>2, <2>8, <2>10
<1>6. Good(b, n)
  <2>1. n \in 0..n
    BY <1>1
  <2> HIDE DEF Good
  <2> QED
    BY <1>5, <2>1
<1>7. Least(n) = pc - 1
  BY <1>1
<1> HIDE DEF Least
<1> QED
  BY <1>6, <1>7 DEF TurnsEnd

\* A postcode begins at a token, or behind the last.
LEMMA PostcodeStarts ==
    ASSUME NEW ts \in Seq(Word), NEW cc
    PROVE  TrailingPostcode(ts, cc) \in 1..Len(ts) + 1
<1>1. PICK n \in Nat : n = Len(ts)
  BY LenProperties
<1>2. \/ n > 1 /\ TrailingPostcode(ts, cc) = n - 1
      \/ n > 0 /\ TrailingPostcode(ts, cc) = n
      \/ TrailingPostcode(ts, cc) = n + 1
  BY <1>1 DEF TrailingPostcode
<1>3. (n > 1 => n - 1 \in 1..n + 1) /\ (n > 0 => n \in 1..n + 1) /\ n + 1 \in 1..n + 1
  OBVIOUS
<1> QED
  BY <1>1, <1>2, <1>3

\* The tokens are all kept, in not more words than they are.
LEMMA ParseTokensShape ==
    ASSUME NEW p \in Parts, p.postcode = <<>>, NEW ts \in Seq(Word), NEW first,
           NEW cc, NEW q, q = ParseTokens(p, ts, first, cc)
    PROVE  /\ q \in Parts /\ Grows(p, q)
           /\ Total(q) + Len(q.postcode) <= Total(p) + Len(ts)
           /\ \A j \in 1..Len(ts) : Kept(ts[j], q)
<1> DEFINE n == Len(ts)
           pc == TrailingPostcode(ts, cc)
           code == SubSeq(ts, pc, n)
           p0 == [p EXCEPT !.postcode = code]
           start == [p |-> p0, skip |-> FALSE]
           Is(f) == f = [i \in 0..n |->
                      IF i = 0 THEN start ELSE ParseToken(f[i - 1], ts, i, pc, first, cc)]
           F == CHOOSE f : Is(f)
<1>1. q = F[n].p
  BY DEF ParseTokens
<1>2. n \in Nat /\ pc \in 1..n + 1
  BY PostcodeStarts, LenProperties
<1>3. \E f : Is(f)
  <2> HIDE DEF n, pc, start
  <2>1. \E f : AreTurns(f, start, ts, pc, first, cc, n)
    BY <1>2, TurnsExist
  <2> QED
    BY <2>1, Zenon DEF AreTurns
<1>4. Is(F)
  BY <1>3, Zenon
<1>5. AreTurns(F, start, ts, pc, first, cc, n)
  BY <1>4, Zenon DEF AreTurns
<1> HIDE DEF F, pc
<1>6. /\ code \in Seq(Word) /\ Len(code) = n + 1 - pc
      /\ \A j \in pc..n : ts[j] \in TokenSet(code)
  <2>1. \A j \in pc..n : ts[j] \in Word
    BY <1>2, ElementOfSeq
  <2>2. /\ code \in Seq(Word) /\ Len(code) = IF pc <= n THEN n - pc + 1 ELSE 0
        /\ \A j \in 1..n - pc + 1 : code[j] = ts[pc + j - 1]
    BY <1>2, <2>1, SubSeqProperties
  <2> HIDE DEF code, n
  <2>3. Len(code) = n + 1 - pc
    BY <1>2, <2>2
  <2>4. ASSUME NEW j \in pc..n PROVE ts[j] \in TokenSet(code)
    <3>1. PICK k : k = j - pc + 1
      OBVIOUS
    <3>2. k \in 1..n - pc + 1 /\ pc + k - 1 = j /\ k \in 1..n + 1 - pc
      BY <1>2, <3>1
    <3>3. k \in DOMAIN code
      BY <2>2, <2>3, <3>2
    <3>4. code[k] = ts[j]
      BY <2>2, <3>2
    <3> QED
      BY <3>3, <3>4 DEF TokenSet
  <2> QED
    BY <2>2, <2>3, <2>4
<1> HIDE DEF code
<1>7. /\ p0 \in Parts /\ p0.house = p.house /\ p0.unit = p.unit /\ p0.rest = p.rest
      /\ p0.state = p.state /\ p0.postcode = code
  BY <1>6 DEF Parts
<1> HIDE DEF p0
<1>8. start \in Turn /\ start.skip = FALSE /\ start.p = p0
  BY <1>7 DEF Turn
<1> HIDE DEF start
<1>9. PICK b : b = F[n]
  OBVIOUS
<1>10. /\ b \in Turn /\ b.p.postcode = code /\ Grows(p0, b.p)
       /\ Total(b.p) <= Total(p0) + (pc - 1)
       /\ \A j \in 1..pc - 1 : Kept(ts[j], b.p)
  <2>1. TurnsEnd(start, b, ts, pc)
    BY <1>2, <1>5, <1>8, <1>9, TurnsShape
  <2> QED
    BY <1>7, <1>8, <2>1, Zenon DEF TurnsEnd
<1>11. b.p = q /\ q \in Parts /\ q.postcode = code
  BY <1>1, <1>9, <1>10 DEF Turn
<1>12. Grows(p, q)
  <2>1. TokenSet(p.postcode) = {}
    BY DEF TokenSet
  <2> QED
    BY <1>7, <1>10, <1>11, <2>1 DEF Grows
<1>13. Total(q) + Len(q.postcode) <= Total(p) + n
  <2>1. Total(p0) = Total(p)
    BY <1>7, Zenon DEF Total
  <2>2. Total(p) \in Nat /\ Total(q) \in Nat
    BY <1>11, TotalIsNat
  <2>3. PICK x \in Nat, y \in Nat : x = Total(p) /\ y = Total(q)
    BY <2>2
  <2> HIDE DEF n
  <2>4. y <= x + (pc - 1)
    BY <1>10, <1>11, <2>1, <2>3
  <2>5. y + (n + 1 - pc) <= x + n
    BY <1>2, <2>4
  <2> QED
    BY <1>6, <1>11, <2>3, <2>5
<1>14. ASSUME NEW j \in 1..n PROVE Kept(ts[j], q)
  <2>1. CASE j < pc
    <3>1. j \in 1..pc - 1
      BY <1>2, <2>1
    <3> QED
      BY <1>10, <1>11, <3>1
  <2>2. CASE ~(j < pc)
    <3>1. ts[j] \in TokenSet(q.postcode)
      BY <1>2, <1>6, <1>11, <2>2
    <3> QED
      BY <3>1 DEF Kept
  <2> QED
    BY <2>1, <2>2
<1> QED
  BY <1>11, <1>12, <1>13, <1>14

\* The parts hold every token of what was typed, in not more words than were
\* typed.
LEMMA ParseShape ==
    ASSUME NEW t, IsText(t), NEW cc, NEW q, q = ParseFreeformQuery(t, cc)
    PROVE  /\ q \in Parts /\ Total(q) + Len(q.postcode) <= Len(Words(t))
           /\ \A w \in TokenSet(TokenizeUserInput(ReadMarks(t).t)) : Kept(w, q)
<1>1. PICK m : m = ReadMarks(t)
  OBVIOUS
<1>2. /\ IsText(m.t) /\ m.p \in Parts /\ OnlyMarks(m.p)
      /\ Total(m.p) + Len(Words(m.t)) = Len(Words(t))
  BY <1>1, MarksShape
<1>3. PICK ts : ts = TokenizeUserInput(m.t)
  OBVIOUS
<1>4. ts \in Seq(Word) /\ Len(ts) <= Len(Words(m.t)) /\ Len(ts) \in Nat
  BY <1>2, <1>3, TokensShape, LenProperties
<1>5. Len(Words(m.t)) \in Nat
  <2>1. WordsOf(m.t) \in Seq(Seq(Word)) /\ Words(m.t) = FlattenSeq(WordsOf(m.t))
    BY <1>2, WordsOfShape
  <2> QED
    BY <2>1, LensAdd, LenProperties
<1>6. PICK x \in Nat, y \in Nat, n \in Nat : x = Total(m.p) /\ y = Len(Words(m.t)) /\ n = Len(ts)
  BY <1>2, <1>4, <1>5, TotalIsNat
<1>7. Len(Words(t)) = x + y /\ n <= y
  BY <1>2, <1>4, <1>6
<1> DEFINE lead == m.p.unit = Nothing /\ Len(ts) > 2 /\ ts[1] \in UnitWords /\ ts[2] \in DigitLed
           p1 == [m.p EXCEPT !.unit = <<ts[2]>>]
           sub == SubSeq(ts, 3, Len(ts))
           end(k) == FirstComponentEnd(m.t, k)
<1>8. q = IF lead THEN ParseTokens(p1, sub, end(2), cc) ELSE ParseTokens(m.p, ts, end(0), cc)
  BY <1>1, <1>3, Zenon DEF ParseFreeformQuery
<1>9. m.p.postcode = <<>> /\ m.p.house \in Seq(Word) /\ m.p.rest \in Seq(Word)
  BY <1>2 DEF OnlyMarks, Parts
<1>10. /\ q \in Parts /\ Total(q) + Len(q.postcode) <= x + y
       /\ \A j \in 1..n : Kept(ts[j], q)
  <2>1. q \in Parts => Len(q.postcode) \in Nat /\ Total(q) \in Nat
    <3>1. q \in Parts => q.postcode \in Seq(Word)
      BY DEF Parts
    <3> QED
      BY <3>1, TotalIsNat, LenProperties
  <2>2. CASE ~lead
    <3>1. q = ParseTokens(m.p, ts, end(0), cc)
      BY <1>8, <2>2
    <3> HIDE DEF lead, end
    <3>2. /\ q \in Parts /\ Grows(m.p, q)
          /\ Total(q) + Len(q.postcode) <= Total(m.p) + Len(ts)
          /\ \A j \in 1..Len(ts) : Kept(ts[j], q)
      BY <1>2, <1>4, <1>9, <3>1, ParseTokensShape
    <3>3. Total(q) + Len(q.postcode) <= x + n
      BY <1>6, <3>2
    <3>4. Total(q) + Len(q.postcode) <= x + y
      BY <1>7, <2>1, <3>2, <3>3
    <3> QED
      BY <1>6, <3>2, <3>4
  <2>3. CASE lead
    <3>1. q = ParseTokens(p1, sub, end(2), cc)
      BY <1>8, <2>3
    <3>2. n > 2 /\ m.p.unit = Nothing /\ ts[1] \in UnitWords
      BY <1>6, <2>3
    <3>3. ts[2] \in Word
      BY <1>4, <1>6, <3>2
    <3>4. /\ <<ts[2]>> \in Seq(Word) /\ Len(<<ts[2]>>) = 1 /\ <<ts[2]>> # Nothing
          /\ ts[2] \in TokenSet(<<ts[2]>>) /\ Len(Nothing) = 0
      BY <3>3, OneToken
    <3>5. /\ p1 \in Parts /\ p1.unit = <<ts[2]>> /\ p1.house = m.p.house /\ p1.rest = m.p.rest
          /\ p1.postcode = <<>>
      BY <1>2, <1>9, <3>4 DEF Parts
    <3>6. sub \in Seq(Word) /\ Len(sub) = n - 2 /\ \A j \in 1..n - 2 : sub[j] = ts[j + 2]
      <4>1. \A j \in 3..n : ts[j] \in Word
        BY <1>4, <1>6, ElementOfSeq
      <4>2. sub = SubSeq(ts, 3, n)
        BY <1>6
      <4> HIDE DEF sub
      <4>3. /\ sub \in Seq(Word) /\ Len(sub) = IF 3 <= n THEN n - 3 + 1 ELSE 0
            /\ \A j \in 1..n - 3 + 1 : sub[j] = ts[3 + j - 1]
        BY <4>1, <4>2, SubSeqProperties
      <4>4. n - 3 + 1 = n - 2 /\ 3 <= n /\ \A j \in 1..n - 2 : 3 + j - 1 = j + 2
        BY <3>2
      <4> QED
        BY <4>3, <4>4
    <3> HIDE DEF lead, end, p1, sub
    <3>7. /\ q \in Parts /\ Grows(p1, q)
          /\ Total(q) + Len(q.postcode) <= Total(p1) + Len(sub)
          /\ \A j \in 1..Len(sub) : Kept(sub[j], q)
      BY <3>1, <3>5, <3>6, ParseTokensShape
    <3>8. Total(p1) = x + 1
      <4>1. PICK a \in Nat, b \in Nat : a = Len(m.p.house) /\ b = Len(m.p.rest)
        BY <1>9, LenProperties
      <4>2. Total(p1) = a + 1 + b /\ x = a + 0 + b
        BY <1>6, <3>2, <3>4, <3>5, <4>1, Zenon DEF Total
      <4> QED
        BY <4>2
    <3>9. Total(q) + Len(q.postcode) <= x + y
      <4>1. Total(q) + Len(q.postcode) <= (x + 1) + (n - 2)
        BY <3>6, <3>7, <3>8
      <4> QED
        BY <1>7, <2>1, <3>7, <4>1
    <3>10. ASSUME NEW j \in 1..n PROVE Kept(ts[j], q)
      <4>1. CASE j = 1
        <5>1. Kept(ts[1], p1)
          BY <3>2, <3>4, <3>5 DEF Kept
        <5> QED
          BY <3>7, <4>1, <5>1, KeptGrows
      <4>2. CASE j = 2
        <5>1. Kept(ts[2], p1)
          BY <3>4, <3>5 DEF Kept
        <5> QED
          BY <3>7, <4>2, <5>1, KeptGrows
      <4>3. CASE j # 1 /\ j # 2
        <5>1. PICK k : k = j - 2
          OBVIOUS
        <5>2. k \in 1..n - 2 /\ k + 2 = j
          BY <4>3, <5>1
        <5>3. sub[k] = ts[j] /\ k \in 1..Len(sub)
          BY <3>6, <5>2
        <5>4. Kept(sub[k], q)
          BY <3>7, <5>3
        <5> QED
          BY <5>3, <5>4
      <4> QED
        BY <4>1, <4>2, <4>3
    <3> QED
      BY <3>7, <3>9, <3>10
  <2> QED
    BY <2>2, <2>3
<1>11. ASSUME NEW w \in TokenSet(ts) PROVE Kept(w, q)
  <2>1. DOMAIN ts = 1..n
    BY <1>4, <1>6
  <2>2. PICK j \in 1..n : w = ts[j]
    BY <2>1 DEF TokenSet
  <2> QED
    BY <1>10, <2>2
<1> QED
  BY <1>1, <1>3, <1>7, <1>10, <1>11

\* The texts of a run are texts.
LEMMA TextsAreTexts ==
    ASSUME NEW t \in Texts
    PROVE  IsText(t)
<1> DEFINE R == [ws : Seq(STRING), mark : STRING, comma : BOOLEAN]
<1>1. t \in Seq(R)
  BY TextsAssumption
<1>2. STRING \subseteq Word
  BY DEF Word
<1>3. \A s \in Seq(STRING) : s \in Seq(Word)
  BY <1>2, SeqMonotonic
<1>4. R \subseteq Chunk
  BY <1>3 DEF Chunk
<1> HIDE DEF R
<1> QED
  BY <1>1, <1>4, SeqMonotonic DEF IsText, Chunk

\* A query is what it was typed as, or parsed from it.
TextInv ==
    /\ text \in Texts /\ country \in Filters
    /\ \/ phase = "typed" /\ parsed = NoQuery
       \/ phase = "parsed" /\ parsed = ParseFreeformQuery(text, country)

\* A query that was parsed has every word that was typed, none of them twice.
LEMMA TextInvImpliesParsedWhole == TextInv => ParsedWhole
<1> SUFFICES ASSUME TextInv PROVE ParsedWhole
  OBVIOUS
<1>1. IsText(text)
  BY TextsAreTexts DEF TextInv
<1>2. /\ parsed \in Parts /\ Total(parsed) + Len(parsed.postcode) <= Len(Words(text))
      /\ phase = "parsed" =>
           \A w \in TokenSet(TokenizeUserInput(ReadMarks(text).t)) : Kept(w, parsed)
  <2>1. CASE phase = "typed" /\ parsed = NoQuery
    <3>1. WordsOf(text) \in Seq(Seq(Word)) /\ Words(text) = FlattenSeq(WordsOf(text))
      BY <1>1, WordsOfShape
    <3>2. Len(Words(text)) \in Nat
      BY <3>1, LensAdd, LenProperties
    <3>3. parsed \in Parts /\ Total(parsed) = 0 /\ Len(parsed.postcode) = 0
      BY <2>1, NoQueryShape DEF OnlyMarks
    <3> QED
      BY <2>1, <3>2, <3>3
  <2>2. CASE phase = "parsed" /\ parsed = ParseFreeformQuery(text, country)
    BY <1>1, <2>2, ParseShape
  <2> QED
    BY <2>1, <2>2 DEF TextInv
<1>3. Len(parsed.house \o parsed.unit \o parsed.postcode \o parsed.rest) = Total(parsed) + Len(parsed.postcode)
  <2>1. PICK a, b, c, d : a = parsed.house /\ b = parsed.unit /\ c = parsed.postcode /\ d = parsed.rest
    OBVIOUS
  <2>2. a \in Seq(Word) /\ b \in Seq(Word) /\ c \in Seq(Word) /\ d \in Seq(Word)
    BY <1>2, <2>1 DEF Parts
  <2>3. a \o b \in Seq(Word) /\ Len(a \o b) = Len(a) + Len(b)
    BY <2>2, ConcatProperties
  <2>4. a \o b \o c \in Seq(Word) /\ Len(a \o b \o c) = Len(a \o b) + Len(c)
    BY <2>2, <2>3, ConcatProperties
  <2>5. Len(a \o b \o c \o d) = Len(a \o b \o c) + Len(d)
    BY <2>2, <2>4, ConcatProperties
  <2>6. PICK x \in Nat, y \in Nat, z \in Nat, u \in Nat : x = Len(a) /\ y = Len(b) /\ z = Len(c) /\ u = Len(d)
    BY <2>2, LenProperties
  <2>7. Len(a \o b \o c \o d) = x + y + z + u
    BY <2>3, <2>4, <2>5, <2>6, Zenon
  <2>8. Total(parsed) + Len(parsed.postcode) = x + y + u + z
    BY <2>1, <2>6, Zenon DEF Total
  <2>9. x + y + z + u = x + y + u + z
    OBVIOUS
  <2> QED
    BY <2>1, <2>7, <2>8, <2>9, Zenon
<1>4. TextTypeOK
  BY <1>2, <1>3 DEF TextInv, TextTypeOK
<1>5. NoWordLost
  BY <1>2, Zenon DEF NoWordLost, Kept
<1> QED
  BY <1>4, <1>5 DEF ParsedWhole

-----------------------------------------------------------------------------
(* ForwardText: a plain name, in the index and in a query. *)

\* The place a word is folded to.
Folded(w) == IF w \in DOMAIN PlaceFold THEN PlaceFold[w] ELSE w

\* Every word of a list folded, the last one too.
FoldedAll(s) == [i \in DOMAIN s |-> Folded(s[i])]

Places == DOMAIN PlaceFold \cup {PlaceFold[w] : w \in DOMAIN PlaceFold}

\* A word that is folded is a place before and after, and no other word is.
LEMMA FoldedIs ==
    ASSUME NEW w \in Word
    PROVE  Folded(w) \in Word /\ (Folded(w) = w \/ (w \in Places /\ Folded(w) \in Places))
<1>1. CASE w \in DOMAIN PlaceFold
  <2>1. Folded(w) = PlaceFold[w] /\ PlaceFold[w] \in STRING
    BY <1>1, WordsAssumption DEF Folded
  <2> QED
    BY <1>1, <2>1 DEF Places, Word
<1>2. CASE w \notin DOMAIN PlaceFold
  <2>1. Folded(w) = w
    BY <1>2, Zenon DEF Folded
  <2> QED
    BY <2>1
<1> QED
  BY <1>1, <1>2

\* The front and the last of a list that was just appended to.
LEMMA FrontOfAppend ==
    ASSUME NEW T, NEW s \in Seq(T), NEW w \in T
    PROVE  Front(Append(s, w)) = s /\ Last(Append(s, w)) = w /\ Append(s, w) # <<>>
<1>1. PICK a : a = Append(s, w)
  OBVIOUS
<1>2. PICK n \in Nat : n = Len(s)
  BY LenProperties
<1>3. /\ a \in Seq(T) /\ a # <<>> /\ Len(a) = n + 1 /\ a[n + 1] = w
      /\ \A i \in 1..n : a[i] = s[i]
  BY <1>1, <1>2, AppendProperties
<1>4. /\ Front(a) \in Seq(T) /\ Len(Front(a)) = n
      /\ \A i \in 1..n : Front(a)[i] = a[i]
  <2>1. Front(a) = SubSeq(a, 1, n)
    <3>1. n + 1 - 1 = n
      OBVIOUS
    <3> QED
      BY <1>3, <3>1 DEF Front
  <2>2. \A i \in 1..n : a[i] \in T
    BY <1>2, <1>3, ElementOfSeq
  <2>3. /\ SubSeq(a, 1, n) \in Seq(T) /\ Len(SubSeq(a, 1, n)) = IF 1 <= n THEN n - 1 + 1 ELSE 0
        /\ \A i \in 1..n - 1 + 1 : SubSeq(a, 1, n)[i] = a[1 + i - 1]
    BY <2>2, SubSeqProperties
  <2>4. n - 1 + 1 = n /\ (~(1 <= n) => n = 0) /\ \A i \in 1..n : 1 + i - 1 = i
    OBVIOUS
  <2> QED
    BY <2>1, <2>3, <2>4
<1>5. Front(a) = s
  BY <1>2, <1>3, <1>4, SeqEqual
<1>6. Last(a) = w
  BY <1>3 DEF Last
<1> QED
  BY <1>1, <1>3, <1>5, <1>6

\* Folding a list word by word.
LEMMA FoldedAllAppend ==
    ASSUME NEW s \in Seq(Word), NEW w \in Word
    PROVE  /\ FoldedAll(s) \in Seq(Word) /\ Len(FoldedAll(s)) = Len(s)
           /\ FoldedAll(Append(s, w)) = Append(FoldedAll(s), Folded(w))
           /\ ApplyPlaceAbbreviationFold(Append(s, w)) = Append(FoldedAll(s), w)
<1>1. PICK a : a = Append(s, w)
  OBVIOUS
<1>2. PICK n \in Nat : n = Len(s)
  BY LenProperties
<1>3. /\ a \in Seq(Word) /\ Len(a) = n + 1 /\ a[n + 1] = w /\ \A i \in 1..n : a[i] = s[i]
  BY <1>1, <1>2, AppendProperties
<1>4. ASSUME NEW u \in Seq(Word) PROVE /\ FoldedAll(u) \in Seq(Word) /\ Len(FoldedAll(u)) = Len(u)
                                       /\ \A i \in 1..Len(u) : FoldedAll(u)[i] = Folded(u[i])
  <2>1. \A i \in 1..Len(u) : Folded(u[i]) \in Word
    BY ElementOfSeq, FoldedIs
  <2>2. FoldedAll(u) \in [1..Len(u) -> Word]
    BY <2>1 DEF FoldedAll
  <2> QED
    BY <2>2 DEF FoldedAll
<1>5. PICK f : f = FoldedAll(s)
  OBVIOUS
<1>6. f \in Seq(Word) /\ Len(f) = n /\ \A i \in 1..n : f[i] = Folded(s[i])
  BY <1>2, <1>4, <1>5
<1>7. Folded(w) \in Word
  BY FoldedIs
<1>8. FoldedAll(a) = Append(f, Folded(w))
  <2>1. PICK b : b = Append(f, Folded(w))
    OBVIOUS
  <2>2. /\ b \in Seq(Word) /\ Len(b) = n + 1 /\ b[n + 1] = Folded(w)
        /\ \A i \in 1..n : b[i] = f[i]
    BY <1>6, <1>7, <2>1, AppendProperties
  <2>3. PICK c : c = FoldedAll(a)
    OBVIOUS
  <2>4. c \in Seq(Word) /\ Len(c) = n + 1 /\ \A i \in 1..n + 1 : c[i] = Folded(a[i])
    BY <1>3, <1>4, <2>3
  <2>5. ASSUME NEW i \in 1..n + 1 PROVE b[i] = c[i]
    <3>1. i \in 1..n \/ i = n + 1
      OBVIOUS
    <3> QED
      BY <1>3, <1>6, <2>2, <2>4, <3>1
  <2>6. b = c
    BY <2>2, <2>4, <2>5, SeqEqual
  <2> QED
    BY <2>1, <2>3, <2>6
<1>9. ApplyPlaceAbbreviationFold(a) = Append(f, w)
  <2>1. PICK b : b = Append(f, w)
    OBVIOUS
  <2>2. /\ b \in Seq(Word) /\ Len(b) = n + 1 /\ b[n + 1] = w /\ \A i \in 1..n : b[i] = f[i]
    BY <1>6, <2>1, AppendProperties
  <2>3. PICK c : c = ApplyPlaceAbbreviationFold(a)
    OBVIOUS
  <2>4. c \in Seq(Word) /\ Len(c) = n + 1
    BY <1>3, <2>3, PlaceFoldShape
  <2>5. DOMAIN a = 1..n + 1
    BY <1>3
  <2>6. ASSUME NEW i \in 1..n + 1 PROVE b[i] = c[i]
    <3>1. c[i] = IF i < n + 1 /\ a[i] \in DOMAIN PlaceFold THEN PlaceFold[a[i]] ELSE a[i]
      BY <1>3, <2>3, <2>5 DEF ApplyPlaceAbbreviationFold
    <3>2. CASE i = n + 1
      BY <1>3, <2>2, <3>1, <3>2
    <3>3. CASE i \in 1..n
      BY <1>3, <1>6, <2>2, <3>1, <3>3 DEF Folded
    <3> QED
      BY <3>2, <3>3
  <2>7. b = c
    BY <2>2, <2>4, <2>6, SeqEqual
  <2> QED
    BY <2>1, <2>3, <2>7
<1> QED
  BY <1>1, <1>2, <1>5, <1>6, <1>8, <1>9

\* Merging and folding commute: places are no part of an ordinal, and no
\* ordinal is a place.
LEMMA MergeFolded ==
    ASSUME NEW acc \in Seq(Word), NEW w \in Word
    PROVE  /\ MergeOrdinal(FoldedAll(acc), Folded(w)) = FoldedAll(MergeOrdinal(acc, w))
           /\ MergeOrdinal(FoldedAll(acc), w) = ApplyPlaceAbbreviationFold(MergeOrdinal(acc, w))
<1>1. \A p \in DOMAIN CompoundOf : p[1] \notin Places /\ p[2] \notin Places
                                   /\ CompoundOf[p] \notin DOMAIN PlaceFold
  BY TablesAgree DEF Places
<1>2. \A x, y : <<x, y>> \in DOMAIN CompoundOf => x \notin Places /\ y \notin Places
  <2> SUFFICES ASSUME NEW x, NEW y, <<x, y>> \in DOMAIN CompoundOf PROVE x \notin Places /\ y \notin Places
    OBVIOUS
  <2>1. PICK p : p = <<x, y>>
    OBVIOUS
  <2>2. p[1] = x /\ p[2] = y
    BY <2>1
  <2> QED
    BY <1>1, <2>1, <2>2
<1>3. FoldedAll(acc) \in Seq(Word) /\ Len(FoldedAll(acc)) = Len(acc)
  BY FoldedAllAppend
<1>4. Folded(w) \in Word /\ (Folded(w) = w \/ (w \in Places /\ Folded(w) \in Places))
  BY FoldedIs
<1>5. acc # <<>> <=> FoldedAll(acc) # <<>>
  <2>1. \A s \in Seq(Word) : s # <<>> <=> Len(s) # 0
    BY EmptySeq
  <2> QED
    BY <1>3, <2>1
<1>6. CASE acc # <<>> /\ <<Last(acc), w>> \in DOMAIN CompoundOf
  <2>1. PICK f, l : f = Front(acc) /\ l = Last(acc)
    OBVIOUS
  <2>2. f \in Seq(Word) /\ l \in Word /\ acc = Append(f, l)
    BY <1>6, <2>1, FrontAndLast
  <2>3. l \notin Places /\ w \notin Places
    BY <1>2, <1>6, <2>1
  <2>4. Folded(w) = w /\ Folded(l) = l
    BY <1>4, <2>2, <2>3, FoldedIs
  <2>5. FoldedAll(acc) = Append(FoldedAll(f), l) /\ FoldedAll(f) \in Seq(Word)
    BY <2>2, <2>4, FoldedAllAppend
  <2>6. Front(FoldedAll(acc)) = FoldedAll(f) /\ Last(FoldedAll(acc)) = l
    BY <2>2, <2>5, FrontOfAppend
  <2>7. PICK c : c = CompoundOf[<<l, w>>]
    OBVIOUS
  <2>8. c \in Word /\ c \notin DOMAIN PlaceFold
    <3>1. <<l, w>> \in DOMAIN CompoundOf
      BY <1>6, <2>1
    <3>2. c \in STRING
      BY <2>7, <3>1, WordsAssumption
    <3> QED
      BY <1>1, <2>7, <3>1, <3>2 DEF Word
  <2>9. Folded(c) = c
    BY <2>8 DEF Folded
  <2>10. MergeOrdinal(acc, w) = Append(f, c)
    BY <1>6, <2>1, <2>7 DEF MergeOrdinal
  <2>11. MergeOrdinal(FoldedAll(acc), w) = Append(FoldedAll(f), c)
    BY <1>5, <1>6, <2>1, <2>6, <2>7 DEF MergeOrdinal
  <2>12. FoldedAll(Append(f, c)) = Append(FoldedAll(f), c)
         /\ ApplyPlaceAbbreviationFold(Append(f, c)) = Append(FoldedAll(f), c)
    BY <2>2, <2>8, <2>9, FoldedAllAppend
  <2> QED
    BY <2>4, <2>10, <2>11, <2>12, Zenon
<1>7. CASE ~(acc # <<>> /\ <<Last(acc), w>> \in DOMAIN CompoundOf)
  <2>1. MergeOrdinal(acc, w) = Append(acc, w)
    BY <1>7 DEF MergeOrdinal
  <2>2. ASSUME acc # <<>> PROVE /\ <<Last(FoldedAll(acc)), w>> \notin DOMAIN CompoundOf
                                /\ <<Last(FoldedAll(acc)), Folded(w)>> \notin DOMAIN CompoundOf
    <3>1. PICK f, l : f = Front(acc) /\ l = Last(acc)
      OBVIOUS
    <3>2. f \in Seq(Word) /\ l \in Word /\ acc = Append(f, l)
      BY <2>2, <3>1, FrontAndLast
    <3>3. FoldedAll(acc) = Append(FoldedAll(f), Folded(l)) /\ FoldedAll(f) \in Seq(Word)
      BY <3>2, FoldedAllAppend
    <3>4. Folded(l) \in Word /\ (Folded(l) = l \/ Folded(l) \in Places)
      BY <3>2, FoldedIs
    <3>5. Last(FoldedAll(acc)) = Folded(l)
      BY <3>3, <3>4, FrontOfAppend
    <3>6. <<l, w>> \notin DOMAIN CompoundOf
      BY <1>7, <2>2, <3>1
    <3> QED
      BY <1>2, <1>4, <3>4, <3>5, <3>6
  <2>3. /\ MergeOrdinal(FoldedAll(acc), w) = Append(FoldedAll(acc), w)
        /\ MergeOrdinal(FoldedAll(acc), Folded(w)) = Append(FoldedAll(acc), Folded(w))
    BY <1>5, <2>2, Zenon DEF MergeOrdinal
  <2> QED
    BY <2>1, <2>3, FoldedAllAppend
<1> QED
  BY <1>6, <1>7

\* The last merge is the merged list.
LEMMA CompoundsAre ==
    ASSUME NEW ws, Len(ws) \in Nat
    PROVE  \E g : AreMerged(g, ws, Len(ws)) /\ CanonicaliseCompoundOrdinals(ws) = g[Len(ws)]
<1> DEFINE n == Len(ws)
           Is(f) == f = [i \in 0..n |-> IF i = 0 THEN <<>> ELSE MergeOrdinal(f[i - 1], ws[i])]
           F == CHOOSE f : Is(f)
<1>1. CanonicaliseCompoundOrdinals(ws) = F[n]
  BY DEF CanonicaliseCompoundOrdinals
<1>2. \E f : Is(f)
  BY MergedExist DEF AreMerged
<1>3. Is(F)
  BY <1>2, Zenon
<1>4. AreMerged(F, ws, n)
  BY <1>3, Zenon DEF AreMerged
<1> HIDE DEF F
<1> QED
  BY <1>1, <1>4

\* What a merge starts from and how it goes on.
LEMMA MergesAre ==
    ASSUME NEW ws \in Seq(Word), NEW g, AreMerged(g, ws, Len(ws))
    PROVE  /\ g[0] = <<>>
           /\ \A k \in 1..Len(ws) : g[k] = MergeOrdinal(g[k - 1], ws[k])
           /\ \A k \in 0..Len(ws) : g[k] \in Seq(Word)
<1> DEFINE n == Len(ws)
           Bad == {k \in 0..n : g[k] \notin Seq(Word)}
<1>1. n \in Nat /\ 0 \in Nat /\ 0 + 1 = 1
  BY LenProperties
<1>2. g[0] = <<>> /\ \A k \in 1..n : g[k] = MergeOrdinal(g[k - 1], ws[k])
  <2>1. \A i \in 0..n : g[i] = IF i = 0 THEN <<>> ELSE MergeOrdinal(g[i - 1], ws[i])
    BY Zenon DEF AreMerged
  <2>2. 0 \in 0..n /\ \A i \in 1..n : i \in 0..n /\ i # 0
    BY <1>1
  <2> QED
    BY <2>1, <2>2, Zenon
<1>3. ASSUME Bad # {} PROVE FALSE
  <2>1. 0 \notin Bad /\ Bad \in SUBSET (0..n)
    <3>1. <<>> \in Seq(Word)
      OBVIOUS
    <3> QED
      BY <1>2, <3>1
  <2>2. PICK k \in Bad : k \in 1..n /\ k - 1 \in 0..n /\ k - 1 \notin Bad
    <3> HIDE DEF Bad, n
    <3> QED
      BY <1>1, <1>3, <2>1, FirstFailure
  <2>3. g[k - 1] \in Seq(Word) /\ ws[k] \in Word
    BY <2>2, ElementOfSeq
  <2>4. MergeOrdinal(g[k - 1], ws[k]) \in Seq(Word)
    BY <2>3, MergeShape
  <2> QED
    BY <1>2, <2>2, <2>4
<1> QED
  BY <1>2, <1>3

\* Merging a folded list is folding the merged list.
LEMMA CompoundsFolded ==
    ASSUME NEW x \in Seq(Word), x # <<>>
    PROVE  CanonicaliseCompoundOrdinals(ApplyPlaceAbbreviationFold(x))
             = ApplyPlaceAbbreviationFold(CanonicaliseCompoundOrdinals(x))
<1>1. PICK y : y = ApplyPlaceAbbreviationFold(x)
  OBVIOUS
<1>2. PICK n \in Nat : n = Len(x)
  BY LenProperties
<1>3. n # 0 /\ n - 1 \in Nat /\ y \in Seq(Word) /\ Len(y) = n
  <2>1. n # 0
    BY <1>2, EmptySeq
  <2> QED
    BY <1>1, <1>2, <2>1, PlaceFoldShape
<1>4. (\A i \in 1..n - 1 : y[i] = Folded(x[i])) /\ y[n] = x[n]
  <2>1. \A i \in 1..n : y[i] = IF i < n /\ x[i] \in DOMAIN PlaceFold THEN PlaceFold[x[i]] ELSE x[i]
    BY <1>1, <1>2 DEF ApplyPlaceAbbreviationFold
  <2>2. n \in 1..n /\ ~(n < n) /\ \A i \in 1..n - 1 : i \in 1..n /\ i < n
    BY <1>3
  <2> QED
    BY <2>1, <2>2 DEF Folded
<1>5. PICK g : AreMerged(g, x, n) /\ CanonicaliseCompoundOrdinals(x) = g[n]
  BY <1>2, CompoundsAre
<1>6. PICK h : AreMerged(h, y, n) /\ CanonicaliseCompoundOrdinals(y) = h[n]
  BY <1>3, CompoundsAre
<1>7. /\ g[0] = <<>> /\ \A k \in 1..n : g[k] = MergeOrdinal(g[k - 1], x[k])
      /\ \A k \in 0..n : g[k] \in Seq(Word)
  BY <1>2, <1>5, MergesAre
<1>8. h[0] = <<>> /\ \A k \in 1..n : h[k] = MergeOrdinal(h[k - 1], y[k])
  BY <1>3, <1>6, MergesAre
<1> DEFINE Bad == {k \in 0..n - 1 : h[k] # FoldedAll(g[k])}
<1>9. ASSUME Bad # {} PROVE FALSE
  <2>1. 0 \notin Bad /\ Bad \in SUBSET (0..n - 1)
    <3>1. FoldedAll(<<>>) = <<>>
      BY DEF FoldedAll
    <3> QED
      BY <1>7, <1>8, <3>1
  <2>2. PICK k \in Bad : k \in 1..n - 1 /\ k - 1 \in 0..n - 1 /\ k - 1 \notin Bad
    <3>1. 0 \in Nat /\ 0 + 1 = 1
      OBVIOUS
    <3> HIDE DEF Bad
    <3> QED
      BY <1>3, <1>9, <2>1, <3>1, FirstFailure
  <2>3. PICK j : j = k - 1
    OBVIOUS
  <2>4. k \in 1..n /\ j \in 0..n
    BY <2>2, <2>3
  <2>5. h[j] = FoldedAll(g[j])
    BY <2>2, <2>3
  <2>6. g[j] \in Seq(Word) /\ x[k] \in Word
    BY <1>2, <1>7, <2>4, ElementOfSeq
  <2>7. h[k] = MergeOrdinal(FoldedAll(g[j]), Folded(x[k])) /\ g[k] = MergeOrdinal(g[j], x[k])
    BY <1>4, <1>7, <1>8, <2>2, <2>3, <2>4, <2>5
  <2>8. h[k] = FoldedAll(g[k])
    BY <2>6, <2>7, MergeFolded
  <2> QED
    BY <2>2, <2>8
<1>10. PICK m : m = n - 1
  OBVIOUS
<1>11. m \in 0..n - 1 /\ m \in 0..n /\ n \in 1..n
  BY <1>3, <1>10
<1>12. h[m] = FoldedAll(g[m]) /\ g[m] \in Seq(Word) /\ x[n] \in Word
  BY <1>2, <1>7, <1>9, <1>11, ElementOfSeq
<1>13. h[n] = MergeOrdinal(FoldedAll(g[m]), x[n]) /\ g[n] = MergeOrdinal(g[m], x[n])
  BY <1>4, <1>7, <1>8, <1>10, <1>11, <1>12
<1>14. h[n] = ApplyPlaceAbbreviationFold(g[n])
  BY <1>12, <1>13, MergeFolded
<1> QED
  BY <1>1, <1>5, <1>6, <1>14

\* The first word is no bare number after the merges, if it was none before.
LEMMA FirstIsNoNumber ==
    ASSUME NEW x \in Seq(Word), x # <<>>, x[1] \notin DOMAIN NumLen
    PROVE  /\ CanonicaliseCompoundOrdinals(x) # <<>>
           /\ CanonicaliseCompoundOrdinals(x)[1] \notin DOMAIN NumLen
<1> DEFINE Good(a) == a # <<>> /\ a[1] \notin DOMAIN NumLen
<1>1. PICK n \in Nat : n = Len(x)
  BY LenProperties
<1>2. n # 0 /\ n \in 1..n
  BY <1>1, EmptySeq
<1>3. PICK g : AreMerged(g, x, n) /\ CanonicaliseCompoundOrdinals(x) = g[n]
  BY <1>1, CompoundsAre
<1>4. /\ g[0] = <<>> /\ \A k \in 1..n : g[k] = MergeOrdinal(g[k - 1], x[k])
      /\ \A k \in 0..n : g[k] \in Seq(Word)
  BY <1>1, <1>3, MergesAre
<1>5. ASSUME NEW a \in Seq(Word), NEW w \in Word, Good(a) \/ (a = <<>> /\ w \notin DOMAIN NumLen)
      PROVE  Good(MergeOrdinal(a, w))
  <2>1. CASE a # <<>> /\ <<Last(a), w>> \in DOMAIN CompoundOf
    <3>1. PICK c : c = CompoundOf[<<Last(a), w>>]
      OBVIOUS
    <3>2. c \in Word /\ c \notin DOMAIN NumLen
      BY <2>1, <3>1, TablesAgree, WordsAssumption DEF Word
    <3>3. PICK f, l : f = Front(a) /\ l = Last(a)
      OBVIOUS
    <3>4. f \in Seq(Word) /\ l \in Word /\ a = Append(f, l)
      BY <2>1, <3>3, FrontAndLast
    <3>5. MergeOrdinal(a, w) = Append(f, c)
      BY <2>1, <3>1, <3>3 DEF MergeOrdinal
    <3>6. PICK b : b = Append(f, c)
      OBVIOUS
    <3>7. PICK k \in Nat : k = Len(f)
      BY <3>4, LenProperties
    <3>8. /\ b # <<>> /\ b[k + 1] = c /\ (\A i \in 1..k : b[i] = f[i])
          /\ \A i \in 1..k : a[i] = f[i]
      BY <3>2, <3>4, <3>6, <3>7, AppendProperties
    <3>9. b[1] = c \/ b[1] = a[1]
      <4>1. CASE k = 0
        BY <3>8, <4>1
      <4>2. CASE k # 0
        <5>1. 1 \in 1..k
          BY <4>2
        <5> QED
          BY <3>8, <5>1
      <4> QED
        BY <4>1, <4>2
    <3> QED
      BY <1>5, <2>1, <3>2, <3>5, <3>6, <3>8, <3>9
  <2>2. CASE ~(a # <<>> /\ <<Last(a), w>> \in DOMAIN CompoundOf)
    <3>1. PICK b : b = Append(a, w)
      OBVIOUS
    <3>2. MergeOrdinal(a, w) = b
      BY <2>2, <3>1 DEF MergeOrdinal
    <3>3. PICK k \in Nat : k = Len(a)
      BY LenProperties
    <3>4. b # <<>> /\ b[k + 1] = w /\ \A i \in 1..k : b[i] = a[i]
      BY <3>1, <3>3, AppendProperties
    <3>5. CASE a = <<>>
      <4>1. k = 0
        BY <3>3, <3>5
      <4>2. b[1] = w
        BY <3>4, <4>1
      <4> QED
        BY <1>5, <3>2, <3>4, <3>5, <4>2
    <3>6. CASE a # <<>>
      <4>1. 1 \in 1..k
        BY <3>3, <3>6, EmptySeq
      <4>2. b[1] = a[1]
        BY <3>4, <4>1
      <4> QED
        BY <1>5, <3>2, <3>4, <3>6, <4>2
    <3> QED
      BY <3>5, <3>6
  <2> QED
    BY <2>1, <2>2
<1> HIDE DEF Good
<1> DEFINE Bad == {k \in 1..n : ~Good(g[k])}
<1>6. ASSUME Bad # {} PROVE FALSE
  <2>1. 1 \notin Bad /\ Bad \in SUBSET (1..n)
    <3>1. PICK i : i = 1
      OBVIOUS
    <3>2. i \in 1..n /\ i - 1 = 0
      BY <1>2, <3>1
    <3>3. g[i] = MergeOrdinal(<<>>, x[i]) /\ x[i] \in Word /\ x[i] \notin DOMAIN NumLen
      BY <1>1, <1>4, <3>1, <3>2, ElementOfSeq
    <3>4. <<>> \in Seq(Word)
      OBVIOUS
    <3>5. Good(g[i])
      BY <1>5, <3>3, <3>4
    <3> QED
      BY <3>1, <3>5
  <2>2. PICK k \in Bad : k \in 1 + 1..n /\ k - 1 \in 1..n /\ k - 1 \notin Bad
    <3>1. 1 \in Nat
      OBVIOUS
    <3> HIDE DEF Bad
    <3> QED
      BY <1>6, <2>1, <3>1, FirstFailure
  <2>3. PICK j : j = k - 1
    OBVIOUS
  <2>4. k \in 1..n /\ j \in 0..n /\ Good(g[j])
    BY <2>2, <2>3
  <2>5. g[k] = MergeOrdinal(g[j], x[k]) /\ g[j] \in Seq(Word) /\ x[k] \in Word
    BY <1>1, <1>4, <2>3, <2>4, ElementOfSeq
  <2>6. Good(MergeOrdinal(g[j], x[k]))
    <3>1. PICK a, w : a = g[j] /\ w = x[k]
      OBVIOUS
    <3>2. a \in Seq(Word) /\ w \in Word /\ Good(a)
      BY <2>4, <2>5, <3>1, Zenon
    <3>3. Good(MergeOrdinal(a, w))
      BY <1>5, <3>2
    <3> QED
      BY <3>1, <3>3, Zenon
  <2>7. Good(g[k])
    BY <2>5, <2>6, Zenon
  <2> QED
    BY <2>2, <2>7
<1>7. Good(g[n])
  BY <1>2, <1>6
<1> QED
  BY <1>3, <1>7 DEF Good

\* Reading ordinals in a folded list is folding the list they were read in: a
\* first word that is no number is no house number.
LEMMA OrdinalsFolded ==
    ASSUME NEW x \in Seq(Word), x # <<>> => x[1] \notin DOMAIN NumLen
    PROVE  CanonicaliseOrdinals(ApplyPlaceAbbreviationFold(x), FALSE)
             = ApplyPlaceAbbreviationFold(CanonicaliseOrdinals(x, TRUE))
<1>1. PICK y : y = ApplyPlaceAbbreviationFold(x)
  OBVIOUS
<1>2. PICK z : z = CanonicaliseOrdinals(x, TRUE)
  OBVIOUS
<1>3. PICK n \in Nat : n = Len(x)
  BY LenProperties
<1>4. y \in Seq(Word) /\ Len(y) = n /\ z \in Seq(Word) /\ Len(z) = n
  BY <1>1, <1>2, <1>3, PlaceFoldShape, OrdinalsShape
<1>5. PICK a : a = CanonicaliseOrdinals(y, FALSE)
  OBVIOUS
<1>6. PICK b : b = ApplyPlaceAbbreviationFold(z)
  OBVIOUS
<1>7. a \in Seq(Word) /\ Len(a) = n /\ b \in Seq(Word) /\ Len(b) = n
  BY <1>4, <1>5, <1>6, PlaceFoldShape, OrdinalsShape
<1>8. ASSUME NEW i \in 1..n PROVE a[i] = b[i]
  <2>1. y[i] = IF i < n /\ x[i] \in DOMAIN PlaceFold THEN PlaceFold[x[i]] ELSE x[i]
    BY <1>1, <1>3 DEF ApplyPlaceAbbreviationFold
  <2>2. b[i] = IF i < n /\ z[i] \in DOMAIN PlaceFold THEN PlaceFold[z[i]] ELSE z[i]
    BY <1>4, <1>6 DEF ApplyPlaceAbbreviationFold
  <2>3. a[i] = IF y[i] \in DOMAIN OrdinalOf THEN OrdinalOf[y[i]]
               ELSE IF y[i] \in DOMAIN NumberOrdinal /\ i < n /\ IsStreetType(y[i + 1])
                    THEN NumberOrdinal[y[i]] ELSE y[i]
    BY <1>4, <1>5 DEF CanonicaliseOrdinals
  <2>4. z[i] = IF x[i] \in DOMAIN OrdinalOf THEN OrdinalOf[x[i]]
               ELSE IF x[i] \in DOMAIN NumberOrdinal /\ i > 1 /\ i < n /\ IsStreetType(x[i + 1])
                    THEN NumberOrdinal[x[i]] ELSE x[i]
    BY <1>2, <1>3 DEF CanonicaliseOrdinals
  <2>5. i < n => (IsStreetType(y[i + 1]) <=> IsStreetType(x[i + 1]))
    <3>1. PICK j : j = i + 1
      OBVIOUS
    <3>2. i < n => j \in 1..n
      BY <3>1
    <3>3. j \in 1..n => y[j] = IF j < n /\ x[j] \in DOMAIN PlaceFold THEN PlaceFold[x[j]] ELSE x[j]
      BY <1>1, <1>3 DEF ApplyPlaceAbbreviationFold
    <3>4. x[j] \in DOMAIN PlaceFold => x[j] \in Places /\ PlaceFold[x[j]] \in Places
      BY DEF Places
    <3>5. Places \cap StreetTypes = {}
      BY TablesAgree DEF Places
    <3> QED
      BY <3>1, <3>2, <3>3, <3>4, <3>5 DEF IsStreetType
  <2>6. /\ DOMAIN NumberOrdinal = DOMAIN NumLen
        /\ Places \cap (DOMAIN OrdinalOf \cup DOMAIN NumLen) = {}
        /\ \A w \in DOMAIN OrdinalOf : OrdinalOf[w] \notin DOMAIN PlaceFold
        /\ \A w \in DOMAIN NumberOrdinal : NumberOrdinal[w] \notin DOMAIN PlaceFold
    BY TablesAgree, TablesAssumption DEF Places
  <2>7. x[i] \in DOMAIN NumberOrdinal => i > 1
    <3>1. x # <<>>
      BY <1>3
    <3> QED
      BY <2>6, <3>1
  <2>8. CASE i < n /\ x[i] \in DOMAIN PlaceFold
    <3>1. x[i] \in Places /\ PlaceFold[x[i]] \in Places
      BY <2>8 DEF Places
    <3>2. y[i] = PlaceFold[x[i]] /\ z[i] = x[i]
      BY <2>1, <2>4, <2>6, <2>8, <3>1
    <3> QED
      BY <2>2, <2>3, <2>6, <2>8, <3>1, <3>2
  <2>9. CASE ~(i < n /\ x[i] \in DOMAIN PlaceFold)
    <3>1. y[i] = x[i]
      BY <2>1, <2>9
    <3>2. a[i] = z[i]
      BY <2>3, <2>4, <2>5, <2>7, <3>1
    <3>3. ~(i < n /\ z[i] \in DOMAIN PlaceFold)
      BY <2>4, <2>6, <2>9
    <3> QED
      BY <2>2, <3>2, <3>3
  <2> QED
    BY <2>8, <2>9
<1>9. a = b
  BY <1>7, <1>8, SeqEqual
<1> QED
  BY <1>1, <1>2, <1>5, <1>6, <1>9

\* Appending the list of one word is appending the word.
LEMMA ConcatOne ==
    ASSUME NEW T, NEW s \in Seq(T), NEW w \in T
    PROVE  /\ s \o <<w>> \in Seq(T) /\ Len(s \o <<w>>) = Len(s) + 1
           /\ \A i \in 1..Len(s) + 1 : (s \o <<w>>)[i] = IF i <= Len(s) THEN s[i] ELSE w
<1>1. PICK n \in Nat : n = Len(s)
  BY LenProperties
<1>2. PICK b : b = <<w>>
  OBVIOUS
<1>3. b \in Seq(T) /\ Len(b) = 1 /\ b[1] = w
  BY <1>2
<1>4. PICK c : c = s \o b
  OBVIOUS
<1>5. PICK m : m = Len(b)
  OBVIOUS
<1>6. c \in Seq(T) /\ Len(c) = n + m /\ \A i \in 1..n + m : c[i] = IF i <= n THEN s[i] ELSE b[i - n]
  BY <1>1, <1>3, <1>4, <1>5, ConcatProperties, Zenon
<1>7. m = 1
  BY <1>3, <1>5
<1>8. ASSUME NEW i \in 1..n + 1 PROVE c[i] = IF i <= n THEN s[i] ELSE w
  <2>1. i <= n \/ i - n = 1
    OBVIOUS
  <2> QED
    BY <1>3, <1>6, <1>7, <2>1
<1> QED
  BY <1>1, <1>2, <1>4, <1>6, <1>7, <1>8

\* A list of one sequence flattens to that sequence.
LEMMA FlattenOne ==
    ASSUME NEW T, NEW z \in Seq(T)
    PROVE  FlattenSeq([i \in 1..1 |-> z]) = z
<1> DEFINE s == <<z>>
<1>1. s \in Seq(Seq(T)) /\ Len(s) = 1 /\ s[1] = z
  OBVIOUS
<1> HIDE DEF s
<1>2. PICK g : ArePrefixes(g, s, T)
  BY <1>1, PrefixesExist
<1>3. FlattenSeq([i \in 1..1 |-> s[i]]) = g[1]
  <2>1. PICK k : k = 1
    OBVIOUS
  <2>2. k \in 0..Len(s)
    BY <1>1, <2>1
  <2>3. FlattenSeq([i \in 1..k |-> s[i]]) = g[k]
    BY <1>1, <1>2, <2>2, FlattenIs
  <2> QED
    BY <2>1, <2>3, Zenon
<1>4. g[1] = g[0] \o s[1] /\ g[0] = <<>>
  <2>1. \A i \in 1..Len(s) : g[i] = g[i - 1] \o s[i]
    BY <1>2 DEF ArePrefixes
  <2>2. 1 \in 1..Len(s) /\ 1 - 1 = 0
    BY <1>1
  <2> QED
    BY <1>2, <2>1, <2>2 DEF ArePrefixes
<1>5. g[1] = z
  BY <1>1, <1>4, ConcatEmptySeq
<1>6. [i \in 1..1 |-> s[i]] = [i \in 1..1 |-> z]
  BY <1>1
<1> QED
  BY <1>3, <1>5, <1>6

\* A list of lists of one element flattens to the list of the elements.
LEMMA FlattenSingles ==
    ASSUME NEW T, NEW s \in Seq(T)
    PROVE  FlattenSeq([i \in 1..Len(s) |-> <<s[i]>>]) = s
<1> DEFINE u == [i \in 1..Len(s) |-> <<s[i]>>]
<1>1. PICK n \in Nat : n = Len(s)
  BY LenProperties
<1>2. u \in Seq(Seq(T)) /\ Len(u) = n /\ \A i \in 1..n : u[i] = <<s[i]>> /\ s[i] \in T
  <2>1. \A i \in 1..n : <<s[i]>> \in Seq(T) /\ s[i] \in T
    BY <1>1, ElementOfSeq
  <2>2. u \in [1..n -> Seq(T)]
    BY <1>1, <2>1
  <2> QED
    BY <1>1, <2>1, <2>2
<1> HIDE DEF u
<1>3. PICK g : ArePrefixes(g, u, T)
  BY <1>2, PrefixesExist
<1>4. /\ g[0] = <<>> /\ (\A i \in 1..n : g[i] = g[i - 1] \o u[i])
      /\ \A i \in 0..n : g[i] \in Seq(T)
  BY <1>2, <1>3 DEF ArePrefixes
<1> DEFINE Good(a, k) == Len(a) = k /\ \A i \in 1..k : a[i] = s[i]
           Bad == {k \in 0..n : ~Good(g[k], k)}
<1>5. ASSUME Bad # {} PROVE FALSE
  <2>1. 0 \notin Bad /\ Bad \in SUBSET (0..n)
    <3>1. Good(<<>>, 0)
      OBVIOUS
    <3> HIDE DEF Good
    <3> QED
      BY <1>4, <3>1
  <2>2. PICK k \in Bad : k \in 1..n /\ k - 1 \in 0..n /\ k - 1 \notin Bad
    <3>1. 0 \in Nat /\ 0 + 1 = 1
      OBVIOUS
    <3> HIDE DEF Bad
    <3> QED
      BY <1>1, <1>5, <2>1, <3>1, FirstFailure
  <2>3. PICK j : j = k - 1
    OBVIOUS
  <2>4. j \in 0..n /\ j + 1 = k /\ k \in 1..n /\ j \in Nat
    BY <2>2, <2>3
  <2>5. PICK a : a = g[j]
    OBVIOUS
  <2>6. Good(a, j) /\ a \in Seq(T)
    <3>1. Good(g[j], j)
      <4> HIDE DEF Good
      <4> QED
        BY <2>2, <2>3
    <3> QED
      BY <1>4, <2>4, <2>5, <3>1
  <2>7. PICK w \in T : w = s[k]
    BY <1>2, <2>4
  <2>9. PICK c : c = a \o <<w>>
    OBVIOUS
  <2>10. Len(c) = j + 1 /\ \A i \in 1..j + 1 : c[i] = IF i <= j THEN a[i] ELSE w
    BY <2>6, <2>9, ConcatOne
  <2>11. ASSUME NEW i \in 1..k PROVE c[i] = s[i]
    <3>1. CASE i <= j
      BY <2>4, <2>6, <2>10, <3>1
    <3>2. CASE ~(i <= j)
      <4>1. i = k
        BY <2>4, <3>2
      <4> QED
        BY <2>4, <2>7, <2>10, <3>2, <4>1
    <3> QED
      BY <3>1, <3>2
  <2>12. Good(c, k)
    BY <2>4, <2>10, <2>11
  <2>13. g[k] = c
    BY <1>2, <1>4, <2>3, <2>4, <2>5, <2>7, <2>9, Zenon
  <2> HIDE DEF Good
  <2> QED
    BY <2>2, <2>12, <2>13
<1>6. n \in 0..n
  OBVIOUS
<1>7. Good(g[n], n) /\ g[n] \in Seq(T)
  <2>1. Good(g[n], n)
    <3> HIDE DEF Good
    <3> QED
      BY <1>5, <1>6
  <2> QED
    BY <1>4, <1>6, <2>1
<1>8. g[n] = s
  BY <1>1, <1>7, SeqEqual
<1>9. FlattenSeq([i \in 1..n |-> u[i]]) = g[n]
  BY <1>2, <1>3, <1>6, FlattenIs
<1>10. [i \in 1..n |-> u[i]] = u
  BY <1>2
<1> QED
  BY <1>8, <1>9, <1>10 DEF u

\* The words of a plain text.
Singles(t) == [i \in 1..Len(t) |-> t[i].ws[1]]

\* They are words, one for each chunk, and each chunk is its word.
LEMMA PlainShape ==
    ASSUME NEW t, IsText(t), Plain(t)
    PROVE  /\ Singles(t) \in Seq(Word) /\ Len(Singles(t)) = Len(t) /\ Len(t) \in Nat
           /\ DOMAIN t = 1..Len(t)
           /\ \A i \in 1..Len(t) : /\ t[i].ws = <<Singles(t)[i]>> /\ ~t[i].comma
                                   /\ Singles(t)[i] \in Word /\ Bare(t[i]) /\ Key(t[i]) = Singles(t)[i]
<1>1. PICK n \in Nat : n = Len(t)
  BY WordsOfShape
<1>2. DOMAIN t = 1..n
  BY <1>1 DEF IsText
<1>3. ASSUME NEW i \in 1..n
      PROVE  /\ t[i].ws = <<t[i].ws[1]>> /\ ~t[i].comma /\ t[i].ws[1] \in Word
             /\ Bare(t[i]) /\ Key(t[i]) = t[i].ws[1]
  <2>1. Bare(t[i])
    BY <1>2 DEF Plain
  <2>2. t[i].ws \in Seq(Word) /\ Len(t[i].ws) = 1 /\ ~t[i].comma
    BY <1>1, <2>1, WordsOfShape DEF Bare, OneWord
  <2>3. PICK a : a = t[i].ws
    OBVIOUS
  <2>4. a[1] \in Word /\ a = <<a[1]>>
    BY <2>2, <2>3
  <2>5. Key(t[i]) = t[i].ws[1]
    BY <2>1 DEF Key
  <2> QED
    BY <2>1, <2>2, <2>3, <2>4, <2>5
<1>4. Singles(t) \in [1..n -> Word] /\ \A i \in 1..n : Singles(t)[i] = t[i].ws[1]
  BY <1>1, <1>3 DEF Singles
<1>5. Singles(t) \in Seq(Word) /\ Len(Singles(t)) = n
  BY <1>4
<1> QED
  BY <1>1, <1>2, <1>3, <1>4, <1>5

\* A plain text is one component.
LEMMA PlainComponents ==
    ASSUME NEW t, IsText(t), Plain(t)
    PROVE  Components(t) = <<Singles(t)>>
<1> DEFINE Up(k) == [i \in 1..k |-> Singles(t)[i]]
<1>1. PICK n \in Nat : n = Len(t)
  BY PlainShape
<1>2. PICK ws : ws = Singles(t)
  OBVIOUS
<1>3. /\ ws \in Seq(Word) /\ Len(ws) = n
      /\ \A i \in 1..n : t[i].ws = <<ws[i]>> /\ ~t[i].comma /\ ws[i] \in Word
  BY <1>1, <1>2, PlainShape
<1>4. PICK g : AreGrown(g, t, n) /\ Components(t) = g[n]
  BY <1>1, ComponentsAre
<1>5. g[0] = << <<>> >> /\ \A k \in 1..n : g[k] = Grown(g[k - 1], t[k])
  <2>1. \A k \in 0..n : g[k] = IF k = 0 THEN << <<>> >> ELSE Grown(g[k - 1], t[k])
    BY <1>4, Zenon DEF AreGrown
  <2>2. 0 \in 0..n /\ \A k \in 1..n : k \in 0..n /\ k # 0
    OBVIOUS
  <2> QED
    BY <2>1, <2>2, Zenon
<1> DEFINE Good(a, k) == \E z \in Seq(Word) : a = <<z>> /\ Len(z) = k /\ \A i \in 1..k : z[i] = ws[i]
           Bad == {k \in 0..n : ~Good(g[k], k)}
<1>6. ASSUME Bad # {} PROVE FALSE
  <2>1. 0 \notin Bad /\ Bad \in SUBSET (0..n)
    <3>1. <<>> \in Seq(Word) /\ Len(<<>>) = 0 /\ \A i \in 1..0 : <<>>[i] = ws[i]
      OBVIOUS
    <3>2. Good(<< <<>> >>, 0)
      BY <3>1
    <3> HIDE DEF Good
    <3> QED
      BY <1>5, <3>2
  <2>2. PICK k \in Bad : k \in 1..n /\ k - 1 \in 0..n /\ k - 1 \notin Bad
    <3>1. 0 \in Nat /\ 0 + 1 = 1
      OBVIOUS
    <3> HIDE DEF Bad
    <3> QED
      BY <1>1, <1>6, <2>1, <3>1, FirstFailure
  <2>3. PICK j : j = k - 1
    OBVIOUS
  <2>4. j \in 0..n /\ j + 1 = k /\ k \in 1..n /\ j \in Nat
    BY <2>2, <2>3
  <2>5. Good(g[j], j)
    <3> HIDE DEF Good
    <3> QED
      BY <2>2, <2>3
  <2>6. PICK z \in Seq(Word) : g[j] = <<z>> /\ Len(z) = j /\ \A i \in 1..j : z[i] = ws[i]
    BY <2>5
  <2>7. PICK w \in Word : w = ws[k]
    BY <1>3, <2>4
  <2>8. t[k].ws = <<w>>
    BY <1>3, <2>4, <2>7
  <2>9. PICK c : c = z \o <<w>>
    OBVIOUS
  <2>10. /\ c \in Seq(Word) /\ Len(c) = j + 1
         /\ \A i \in 1..j + 1 : c[i] = IF i <= j THEN z[i] ELSE w
    BY <2>6, <2>9, ConcatOne
  <2>11. ASSUME NEW i \in 1..k PROVE c[i] = ws[i]
    <3>1. CASE i <= j
      BY <2>4, <2>6, <2>10, <3>1
    <3>2. CASE ~(i <= j)
      <4>1. i = k
        BY <2>4, <3>2
      <4> QED
        BY <2>4, <2>7, <2>10, <3>2, <4>1
    <3> QED
      BY <3>1, <3>2
  <2>12. g[k] = <<c>>
    <3>1. g[k] = Grown(<<z>>, t[k])
      BY <1>5, <2>3, <2>4, <2>6, Zenon
    <3>2. ~t[k].comma
      BY <1>3, <2>4
    <3>3. \A x : Append(<<>>, x) = <<x>>
      OBVIOUS
    <3>4. Front(<<z>>) = <<>> /\ Last(<<z>>) = z
      <4>1. PICK e : e = <<>>
        OBVIOUS
      <4>2. e \in Seq(Seq(Word))
        BY <4>1
      <4>3. Front(Append(e, z)) = e /\ Last(Append(e, z)) = z
        BY <4>2, FrontOfAppend
      <4>4. Append(e, z) = <<z>>
        BY <3>3, <4>1, Zenon
      <4> QED
        BY <4>1, <4>3, <4>4, Zenon
    <3>5. g[k] = Append(<<>>, z \o <<w>>)
      BY <2>8, <3>1, <3>2, <3>4, Zenon DEF Grown
    <3> QED
      BY <2>9, <3>3, <3>5, Zenon
  <2>13. Good(g[k], k)
    BY <2>4, <2>10, <2>11, <2>12
  <2> HIDE DEF Good
  <2> QED
    BY <2>2, <2>13
<1>7. Good(g[n], n)
  <2>1. n \in 0..n
    OBVIOUS
  <2> HIDE DEF Good
  <2> QED
    BY <1>6, <2>1
<1>8. PICK z \in Seq(Word) : g[n] = <<z>> /\ Len(z) = n /\ \A i \in 1..n : z[i] = ws[i]
  BY <1>7
<1>9. z = ws
  BY <1>3, <1>8, SeqEqual
<1> QED
  BY <1>2, <1>4, <1>8, <1>9

\* The words of a component before the ordinals are read: "dr", abbreviations
\* and the last "st" are written out.
Full(ws) == [i \in DOMAIN ws |-> IF i = 1 /\ ws[1] = "dr" /\ Len(ws) > 2
                                 THEN "doctor" ELSE CanonicaliseToken(ws[i])]

Road(ws) == [i \in DOMAIN Full(ws) |-> IF i = StreetStPosition(Full(ws)) /\ Full(ws)[i] = "st"
                                       THEN "street" ELSE Full(ws)[i]]

\* What the index writes for word i of a plain name.
Chunk1(ws, i) ==
    IF i = StreetStPosition(ws) /\ ws[i] = "st" THEN "street"
    ELSE IF i = 1 /\ ws[i] = "dr" /\ Len(ws) > 2 THEN "doctor"
    ELSE IF ws[i] \in DOMAIN Abbrev THEN Abbrev[ws[i]]
    ELSE IF i < Len(ws) /\ ws[i] \in DOMAIN PlaceFold THEN PlaceFold[ws[i]] ELSE ws[i]

\* Writing a word out makes it neither a compass word nor a "st", nor takes
\* one away.
LEMMA FullIs ==
    ASSUME NEW ws \in Seq(Word)
    PROVE  /\ Full(ws) \in Seq(Word) /\ Len(Full(ws)) = Len(ws)
           /\ \A i \in 1..Len(ws) :
                /\ Full(ws)[i] = IF i = 1 /\ ws[i] = "dr" /\ Len(ws) > 2 THEN "doctor"
                                 ELSE IF ws[i] \in DOMAIN Abbrev THEN Abbrev[ws[i]] ELSE ws[i]
                /\ Full(ws)[i] \in Directional <=> ws[i] \in Directional
                /\ Full(ws)[i] = "st" <=> ws[i] = "st"
<1>1. PICK n \in Nat : n = Len(ws)
  BY LenProperties
<1>2. DOMAIN ws = 1..n
  BY <1>1
<1>3. PICK f : f = Full(ws)
  OBVIOUS
<1>4. /\ DOMAIN f = 1..n /\ f = [i \in 1..n |-> f[i]]
      /\ \A i \in 1..n : f[i] = IF i = 1 /\ ws[i] = "dr" /\ n > 2 THEN "doctor"
                                ELSE IF ws[i] \in DOMAIN Abbrev THEN Abbrev[ws[i]] ELSE ws[i]
  BY <1>1, <1>2, <1>3 DEF Full, CanonicaliseToken
<1>5. /\ \A w \in DOMAIN Abbrev : /\ w # "st" /\ w \notin Directional
                                  /\ Abbrev[w] # "st" /\ Abbrev[w] \notin Directional
      /\ "dr" \notin Directional /\ "doctor" \notin Directional
  BY TablesAgree
<1>6. (\A w \in DOMAIN Abbrev : Abbrev[w] \in Word) /\ "doctor" \in Word /\ "doctor" # "st" /\ "dr" # "st"
  BY WordsAssumption DEF Word
<1>7. ASSUME NEW i \in 1..n PROVE /\ f[i] \in Word
                                  /\ f[i] \in Directional <=> ws[i] \in Directional
                                  /\ f[i] = "st" <=> ws[i] = "st"
  <2>1. ws[i] \in Word
    BY <1>1, ElementOfSeq
  <2>2. CASE i = 1 /\ ws[i] = "dr" /\ n > 2
    <3>1. f[i] = "doctor"
      BY <1>4, <2>2
    <3> QED
      BY <1>5, <1>6, <2>2, <3>1
  <2>3. CASE ~(i = 1 /\ ws[i] = "dr" /\ n > 2) /\ ws[i] \in DOMAIN Abbrev
    <3>1. f[i] = Abbrev[ws[i]]
      BY <1>4, <2>3
    <3> QED
      BY <1>5, <1>6, <2>3, <3>1
  <2>4. CASE ~(i = 1 /\ ws[i] = "dr" /\ n > 2) /\ ws[i] \notin DOMAIN Abbrev
    <3>1. f[i] = ws[i]
      BY <1>4, <2>4
    <3> QED
      BY <2>1, <3>1
  <2> QED
    BY <2>2, <2>3, <2>4
<1>8. f \in [1..n -> Word]
  BY <1>4, <1>7
<1>9. f \in Seq(Word) /\ Len(f) = n
  BY <1>8
<1> QED
  BY <1>1, <1>3, <1>4, <1>7, <1>9

\* Both sides write the same words, but for the places, which a query folds
\* after it has read the ordinals.
LEMMA RoadIs ==
    ASSUME NEW ws \in Seq(Word)
    PROVE  /\ Road(ws) \in Seq(Word) /\ Len(Road(ws)) = Len(ws)
           /\ \A i \in 1..Len(ws) : ApplyPlaceAbbreviationFold(Road(ws))[i] = Chunk1(ws, i)
           /\ ws # <<>> /\ ws[1] \notin DOMAIN NumLen => Road(ws)[1] \notin DOMAIN NumLen
<1>1. PICK n \in Nat : n = Len(ws)
  BY LenProperties
<1>2. PICK f : f = Full(ws)
  OBVIOUS
<1>3. /\ f \in Seq(Word) /\ Len(f) = n
      /\ \A i \in 1..n :
           /\ f[i] = IF i = 1 /\ ws[i] = "dr" /\ n > 2 THEN "doctor"
                     ELSE IF ws[i] \in DOMAIN Abbrev THEN Abbrev[ws[i]] ELSE ws[i]
           /\ f[i] \in Directional <=> ws[i] \in Directional
           /\ f[i] = "st" <=> ws[i] = "st"
  BY <1>1, <1>2, FullIs
<1>4. DOMAIN f = 1..n /\ DOMAIN ws = 1..n
  BY <1>1, <1>3
<1>5. PICK st : st = StreetStPosition(f)
  OBVIOUS
<1>6. StreetStPosition(ws) = st
  <2>1. {i \in DOMAIN f : f[i] \notin Directional} = {i \in DOMAIN ws : ws[i] \notin Directional}
    BY <1>3, <1>4
  <2> QED
    BY <1>5, <2>1, Zenon DEF StreetStPosition
<1>7. PICK r : r = Road(ws)
  OBVIOUS
<1>8. /\ r = [i \in 1..n |-> r[i]]
      /\ \A i \in 1..n : r[i] = IF i = st /\ f[i] = "st" THEN "street" ELSE f[i]
  BY <1>2, <1>4, <1>5, <1>7 DEF Road
<1>9. r \in Seq(Word) /\ Len(r) = n
  <2>1. "street" \in Word
    BY DEF Word
  <2>2. \A i \in 1..n : r[i] \in Word
    BY <1>3, <1>8, <2>1, ElementOfSeq
  <2>3. r \in [1..n -> Word]
    BY <1>8, <2>2
  <2> QED
    BY <2>3
<1>10. /\ \A w \in DOMAIN Abbrev : Abbrev[w] \notin DOMAIN PlaceFold \cup DOMAIN NumLen
       /\ {"doctor", "street"} \cap (DOMAIN PlaceFold \cup DOMAIN NumLen) = {}
  BY TablesAgree
<1>11. ASSUME NEW i \in 1..n PROVE ApplyPlaceAbbreviationFold(r)[i] = Chunk1(ws, i)
  <2>1. ApplyPlaceAbbreviationFold(r)[i] = IF i < n /\ r[i] \in DOMAIN PlaceFold THEN PlaceFold[r[i]] ELSE r[i]
    BY <1>9 DEF ApplyPlaceAbbreviationFold
  <2>2. Chunk1(ws, i) = IF i = st /\ ws[i] = "st" THEN "street"
                        ELSE IF i = 1 /\ ws[i] = "dr" /\ n > 2 THEN "doctor"
                        ELSE IF ws[i] \in DOMAIN Abbrev THEN Abbrev[ws[i]]
                        ELSE IF i < n /\ ws[i] \in DOMAIN PlaceFold THEN PlaceFold[ws[i]] ELSE ws[i]
    BY <1>1, <1>6, Zenon DEF Chunk1
  <2>3. CASE i = st /\ ws[i] = "st"
    <3>1. r[i] = "street"
      BY <1>3, <1>8, <2>3
    <3> QED
      BY <1>10, <2>1, <2>2, <2>3, <3>1
  <2>4. CASE ~(i = st /\ ws[i] = "st")
    <3>1. r[i] = f[i]
      BY <1>3, <1>8, <2>4
    <3> QED
      BY <1>3, <1>10, <2>1, <2>2, <2>4, <3>1
  <2> QED
    BY <2>3, <2>4
<1>12. ASSUME ws # <<>>, ws[1] \notin DOMAIN NumLen PROVE r[1] \notin DOMAIN NumLen
  <2>1. 1 \in 1..n
    BY <1>1, <1>12, EmptySeq
  <2>2. r[1] = "street" \/ r[1] = f[1]
    BY <1>8, <2>1
  <2>3. f[1] = "doctor" \/ (ws[1] \in DOMAIN Abbrev /\ f[1] = Abbrev[ws[1]]) \/ f[1] = ws[1]
    BY <1>3, <2>1
  <2> QED
    BY <1>10, <1>12, <2>2, <2>3
<1> QED
  BY <1>1, <1>7, <1>9, <1>11, <1>12

\* A query for a plain name: one component, folded at the end.
LEMMA PlainQuery ==
    ASSUME NEW t, IsText(t), Plain(t)
    PROVE  TokenizeUserInput(t)
             = ApplyPlaceAbbreviationFold(CanonicaliseOrdinals(
                 CanonicaliseCompoundOrdinals(Road(Singles(t))), TRUE))
<1>1. PICK ws : ws = Singles(t)
  OBVIOUS
<1>2. ws \in Seq(Word)
  BY <1>1, PlainShape
<1>3. PICK parts : parts = Components(t)
  OBVIOUS
<1>4. parts = <<ws>>
  BY <1>1, <1>3, PlainComponents
<1>5. PICK z : z = TokenizeComponent(ws)
  OBVIOUS
<1>6. z \in Seq(Word)
  BY <1>2, <1>5, TokensOfComponent
<1>7. [i \in DOMAIN parts |-> TokenizeComponent(parts[i])] = [i \in 1..1 |-> z]
  BY <1>4, <1>5
<1>8. TokenizeUserInput(t) = ApplyPlaceAbbreviationFold(FlattenSeq([i \in 1..1 |-> z]))
  BY <1>3, <1>7, Zenon DEF TokenizeUserInput
<1>9. TokenizeUserInput(t) = ApplyPlaceAbbreviationFold(z)
  BY <1>6, <1>8, FlattenOne, Zenon
<1>10. z = CanonicaliseOrdinals(CanonicaliseCompoundOrdinals(Road(ws)), TRUE)
  BY <1>5, Zenon DEF TokenizeComponent, Road, Full
<1> QED
  BY <1>1, <1>9, <1>10, Zenon

\* A chunk of one bare word, and a list of them.
Whole(w) == [ws |-> <<w>>, mark |-> "none", comma |-> FALSE]
Wholes(s) == [k \in 1..Len(s) |-> Whole(s[k])]

\* Such a chunk is bare, and its word is its own.
LEMMA WholeIs ==
    ASSUME NEW w, NEW v
    PROVE  /\ Bare(Whole(w)) /\ OneWord(Whole(w)) /\ Whole(w).ws[1] = w /\ Whole(w).ws = <<w>>
           /\ [Whole(w) EXCEPT !.ws = <<v>>] = Whole(v)
<1>1. Whole(w).ws = <<w>> /\ Whole(w).mark = "none" /\ Whole(w).comma = FALSE
  BY DEF Whole
<1>2. <<w>>[1] = w /\ Len(<<w>>) = 1 /\ "none" # "hash"
  OBVIOUS
<1>3. [Whole(w) EXCEPT !.ws = <<v>>] = Whole(v)
  <2>1. PICK r, x : r = Whole(w) /\ x = <<v>>
    OBVIOUS
  <2>2. r \in [ws : {<<w>>}, mark : {"none"}, comma : {FALSE}]
    BY <2>1 DEF Whole
  <2>3. r.mark = "none" /\ r.comma = FALSE
    BY <2>1 DEF Whole
  <2>4. [r EXCEPT !.ws = x] = [ws |-> x, mark |-> r.mark, comma |-> r.comma]
    BY <2>2
  <2>5. [r EXCEPT !.ws = x] = Whole(v)
    BY <2>1, <2>3, <2>4, Zenon DEF Whole
  <2> QED
    BY <2>1, <2>5
<1> QED
  BY <1>1, <1>2, <1>3 DEF Bare, OneWord

\* A list of them grows as the list of words does.
LEMMA WholesGrow ==
    ASSUME NEW s \in Seq(Word), NEW w
    PROVE  Append(Wholes(s), Whole(w)) = Wholes(Append(s, w))
<1>1. PICK n \in Nat : n = Len(s)
  BY LenProperties
<1>2. PICK a : a = Append(s, w)
  OBVIOUS
<1>3. Len(a) = n + 1 /\ a[n + 1] = w /\ \A k \in 1..n : a[k] = s[k]
  <2>1. s \in Seq(Word \cup {w}) /\ w \in Word \cup {w}
    OBVIOUS
  <2> HIDE DEF Word
  <2> QED
    BY <1>1, <1>2, <2>1, AppendProperties
<1> DEFINE v == Wholes(s)
           V == {Whole(s[k]) : k \in 1..n} \cup {Whole(w)}
<1>4. v \in Seq(V) /\ Len(v) = n /\ Whole(w) \in V /\ \A k \in 1..n : v[k] = Whole(s[k])
  <2>1. v = [k \in 1..n |-> Whole(s[k])]
    BY <1>1 DEF Wholes
  <2>2. \A k \in 1..n : Whole(s[k]) \in V
    OBVIOUS
  <2>3. Whole(w) \in V
    OBVIOUS
  <2> HIDE DEF v, V
  <2> QED
    BY <2>1, <2>2, <2>3
<1> HIDE DEF v, V
<1>5. PICK b : b = Append(v, Whole(w))
  OBVIOUS
<1>6. b \in Seq(V) /\ Len(b) = n + 1 /\ b[n + 1] = Whole(w) /\ \A k \in 1..n : b[k] = v[k]
  BY <1>4, <1>5, AppendProperties
<1>7. b = [k \in 1..n + 1 |-> b[k]]
  BY <1>1, <1>6
<1>8. \A k \in 1..n + 1 : b[k] = Whole(a[k])
  <2> TAKE k \in 1..n + 1
  <2>1. k = n + 1 \/ k \in 1..n
    BY <1>1
  <2> QED
    BY <1>3, <1>4, <1>6, <2>1
<1>9. Wholes(a) = [k \in 1..n + 1 |-> Whole(a[k])]
  BY <1>3, Zenon DEF Wholes
<1>10. b = Wholes(a)
  BY <1>7, <1>8, <1>9
<1> QED
  BY <1>2, <1>5, <1>10 DEF v

\* The last of them, and those in front.
LEMMA WholesEnd ==
    ASSUME NEW s \in Seq(Word), s # <<>>
    PROVE  /\ Wholes(s) # <<>> /\ Last(Wholes(s)) = Whole(Last(s))
           /\ Front(Wholes(s)) = Wholes(Front(s))
<1>1. PICK n \in Nat : n = Len(s) /\ n # 0
  BY EmptySeq, LenProperties
<1>2. PICK v : v = Wholes(s)
  OBVIOUS
<1>3. v = [k \in 1..n |-> Whole(s[k])]
  BY <1>1, <1>2 DEF Wholes
<1>4. Len(v) = n /\ DOMAIN v = 1..n
  BY <1>1, <1>3
<1>5. v # <<>>
  BY <1>1, <1>4
<1>6. Last(v) = v[n] /\ Last(s) = s[n] /\ v[n] = Whole(s[n])
  BY <1>1, <1>3, <1>4 DEF Last
<1>7. Front(v) = [k \in 1..n - 1 |-> v[k]] /\ Front(s) = [k \in 1..n - 1 |-> s[k]]
  BY <1>1, <1>4 DEF Front
<1>8. Front(s) \in Seq(Word) /\ Len(Front(s)) = n - 1
  BY <1>1, FrontAndLast
<1>9. Wholes(Front(s)) = [k \in 1..n - 1 |-> Whole(Front(s)[k])]
  BY <1>8, Zenon DEF Wholes
<1>10. \A k \in 1..n - 1 : v[k] = Whole(s[k]) /\ Front(s)[k] = s[k]
  BY <1>1, <1>3, <1>7
<1> QED
  BY <1>2, <1>5, <1>6, <1>7, <1>9, <1>10

\* Bare words join as chunks as they merge as words.
LEMMA JoinIsMerge ==
    ASSUME NEW s \in Seq(Word), NEW w
    PROVE  JoinChunk(Wholes(s), Whole(w)) = Wholes(MergeOrdinal(s, w))
<1>1. Bare(Whole(w)) /\ Whole(w).ws[1] = w
  BY WholeIs
<1>2. CASE s = <<>>
  <2>1. Wholes(s) = <<>>
    BY <1>2 DEF Wholes
  <2>2. JoinChunk(Wholes(s), Whole(w)) = Append(Wholes(s), Whole(w))
    BY <2>1, Zenon DEF JoinChunk
  <2>3. MergeOrdinal(s, w) = Append(s, w)
    BY <1>2, Zenon DEF MergeOrdinal
  <2> QED
    BY <2>2, <2>3, WholesGrow
<1>3. CASE s # <<>>
  <2>1. /\ Wholes(s) # <<>> /\ Last(Wholes(s)) = Whole(Last(s))
        /\ Front(Wholes(s)) = Wholes(Front(s))
    BY <1>3, WholesEnd
  <2>2. Bare(Last(Wholes(s))) /\ Last(Wholes(s)).ws[1] = Last(s)
    BY <2>1, WholeIs, Zenon
  <2>3. CASE <<Last(s), w>> \in DOMAIN CompoundOf
    <3> DEFINE x == CompoundOf[<<Last(s), w>>]
    <3>1. JoinChunk(Wholes(s), Whole(w)) = Append(Front(Wholes(s)), [Whole(w) EXCEPT !.ws = <<x>>])
      BY <1>1, <2>1, <2>2, <2>3, Zenon DEF JoinChunk
    <3>2. [Whole(w) EXCEPT !.ws = <<x>>] = Whole(x)
      BY WholeIs, Zenon
    <3>3. MergeOrdinal(s, w) = Append(Front(s), x)
      BY <1>3, <2>3, Zenon DEF MergeOrdinal
    <3>4. Front(s) \in Seq(Word)
      BY <1>3, FrontAndLast
    <3> HIDE DEF x
    <3>5. Append(Wholes(Front(s)), Whole(x)) = Wholes(Append(Front(s), x))
      BY <3>4, WholesGrow
    <3> QED
      BY <2>1, <3>1, <3>2, <3>3, <3>5, Zenon
  <2>4. CASE <<Last(s), w>> \notin DOMAIN CompoundOf
    <3>1. JoinChunk(Wholes(s), Whole(w)) = Append(Wholes(s), Whole(w))
      BY <1>1, <2>1, <2>2, <2>4, Zenon DEF JoinChunk
    <3>2. MergeOrdinal(s, w) = Append(s, w)
      BY <2>4, Zenon DEF MergeOrdinal
    <3> QED
      BY <3>1, <3>2, WholesGrow
  <2> QED
    BY <2>3, <2>4
<1> QED
  BY <1>2, <1>3

\* The chunks joined so far, after each chunk.
AreJoined(f, v, n) == f = [i \in 0..n |-> IF i = 0 THEN <<>> ELSE JoinChunk(f[i - 1], v[i])]

\* The chunks of a plain text join to the chunks of the merged words.
LEMMA JoinedAre ==
    ASSUME NEW y \in Seq(Word), NEW v, \A i \in 1..Len(y) : v[i] = Whole(y[i])
    PROVE  /\ \E f : AreJoined(f, v, Len(y))
           /\ \A f : AreJoined(f, v, Len(y))
                => f[Len(y)] = Wholes(CanonicaliseCompoundOrdinals(y))
<1> DEFINE n == Len(y)
<1>1. n \in Nat /\ 0 \in Nat /\ 0 + 1 = 1 /\ n \in 0..n
  OBVIOUS
<1>2. PICK g : CanonicaliseCompoundOrdinals(y) = g[n] /\ AreMerged(g, y, n)
  BY <1>1, CompoundsAre
<1>3. /\ g[0] = <<>> /\ Wholes(<<>>) = <<>>
      /\ \A i \in 1..n : g[i] = MergeOrdinal(g[i - 1], y[i])
      /\ \A i \in 0..n : g[i] \in Seq(Word)
  <2>1. Wholes(<<>>) = <<>>
    BY DEF Wholes
  <2> QED
    BY <1>2, <2>1, MergesAre
<1>4. \A i \in 1..n : JoinChunk(Wholes(g[i - 1]), v[i]) = Wholes(g[i])
  <2> TAKE i \in 1..n
  <2>1. PICK j : j = i - 1
    OBVIOUS
  <2>2. j \in 0..n
    BY <1>1, <2>1
  <2>3. g[j] \in Seq(Word) /\ v[i] = Whole(y[i]) /\ g[i] = MergeOrdinal(g[j], y[i])
    BY <1>2, <1>3, <2>1, <2>2
  <2> QED
    BY <2>1, <2>3, JoinIsMerge, Zenon
<1> HIDE DEF n
<1>5. \E f : AreJoined(f, v, n)
  <2> DEFINE f == [i \in 0..n |-> Wholes(g[i])]
             e == [i \in 0..n |-> IF i = 0 THEN <<>> ELSE JoinChunk(f[i - 1], v[i])]
  <2>1. ASSUME NEW i \in 0..n PROVE f[i] = IF i = 0 THEN <<>> ELSE JoinChunk(f[i - 1], v[i])
    <3>1. CASE i = 0
      BY <1>3, <3>1
    <3>2. CASE i # 0
      <4>1. i \in 1..n /\ i - 1 \in 0..n
        BY <1>1, <3>2
      <4>2. f[i - 1] = Wholes(g[i - 1]) /\ f[i] = Wholes(g[i])
        BY <4>1
      <4> HIDE DEF f
      <4> QED
        BY <1>4, <3>2, <4>1, <4>2
    <3> QED
      BY <3>1, <3>2
  <2>2. f = [i \in 0..n |-> f[i]]
    OBVIOUS
  <2> HIDE DEF f
  <2>3. f = e
    BY <2>1, <2>2
  <2>4. AreJoined(f, v, n)
    BY <2>3, Zenon DEF AreJoined
  <2> QED
    BY <2>4
<1>6. ASSUME NEW f, AreJoined(f, v, n) PROVE f[n] = Wholes(g[n])
  <2> DEFINE Bad == {i \in 0..n : f[i] # Wholes(g[i])}
  <2>1. /\ f[0] = <<>>
        /\ \A i \in 1..n : f[i] = JoinChunk(f[i - 1], v[i])
    BY <1>1, <1>6 DEF AreJoined
  <2>2. ASSUME Bad # {} PROVE FALSE
    <3>1. 0 \notin Bad /\ Bad \in SUBSET (0..n)
      BY <1>3, <2>1
    <3>2. PICK k \in Bad : k \in 1..n /\ k - 1 \in 0..n /\ k - 1 \notin Bad
      <4> HIDE DEF Bad
      <4> QED
        BY <1>1, <2>2, <3>1, FirstFailure
    <3>3. f[k - 1] = Wholes(g[k - 1])
      BY <3>2
    <3>4. f[k] = Wholes(g[k])
      BY <1>4, <2>1, <3>2, <3>3
    <3> QED
      BY <3>2, <3>4
  <2> QED
    BY <1>1, <2>2
<1> QED
  BY <1>2, <1>5, <1>6 DEF n

\* The index for a plain name: the places first, then the ordinals.
LEMMA PlainPhrase ==
    ASSUME NEW t, IsText(t), Plain(t)
    PROVE  CanonicalisePhrase(t)
             = CanonicaliseOrdinals(CanonicaliseCompoundOrdinals(
                 ApplyPlaceAbbreviationFold(Road(Singles(t)))), FALSE)
<1>1. PICK ws : ws = Singles(t)
  OBVIOUS
<1>2. PICK n \in Nat : n = Len(t)
  BY PlainShape
<1>3. /\ ws \in Seq(Word) /\ Len(ws) = n /\ DOMAIN t = 1..n /\ DOMAIN ws = 1..n
      /\ \A i \in 1..n : Bare(t[i]) /\ Key(t[i]) = ws[i] /\ ws[i] \in Word
  BY <1>1, <1>2, PlainShape
<1>4. PICK y : y = ApplyPlaceAbbreviationFold(Road(ws))
  OBVIOUS
<1>5. y \in Seq(Word) /\ Len(y) = n /\ \A i \in 1..n : y[i] = Chunk1(ws, i)
  <2>1. Road(ws) \in Seq(Word) /\ Len(Road(ws)) = n
    BY <1>3, RoadIs
  <2> QED
    BY <1>3, <1>4, <2>1, RoadIs, PlaceFoldShape
<1>6. [j \in DOMAIN t |-> Key(t[j])] = ws
  <2>1. ws = [j \in 1..n |-> ws[j]]
    BY <1>3
  <2> QED
    BY <1>3, <2>1
<1>7. PICK v : v = [i \in 1..n |-> [t[i] EXCEPT !.ws = CanonicaliseChunk(t, i)]]
  OBVIOUS
<1>8. \A i \in 1..n : v[i] = Whole(y[i]) /\ v[i] = [t[i] EXCEPT !.ws = CanonicaliseChunk(t, i)]
  <2> SUFFICES ASSUME NEW i \in 1..n
               PROVE  v[i] = Whole(y[i]) /\ v[i] = [t[i] EXCEPT !.ws = CanonicaliseChunk(t, i)]
    OBVIOUS
  <2>1. v[i] = [t[i] EXCEPT !.ws = CanonicaliseChunk(t, i)]
    BY <1>7
  <2>2. CanonicaliseChunk(t, i) = <<Chunk1(ws, i)>>
    <3>1. Bare(t[i]) /\ Key(t[i]) = ws[i] /\ Len(t) = Len(ws)
      BY <1>2, <1>3
    <3> QED
      BY <1>6, <3>1, Zenon DEF CanonicaliseChunk, Chunk1
  <2>3. t[i] \in [ws : Seq(Word), mark : STRING, comma : BOOLEAN]
    BY <1>2, <1>3, ElementOfSeq DEF IsText
  <2>4. t[i].mark = "none" /\ t[i].comma = FALSE
    BY <1>3, <2>3 DEF Plain, Bare
  <2>5. CanonicaliseChunk(t, i) = <<y[i]>>
    BY <1>5, <2>2
  <2>6. PICK r, x : r = t[i] /\ x = CanonicaliseChunk(t, i)
    OBVIOUS
  <2>7. [r EXCEPT !.ws = x] = Whole(y[i])
    <3>1. x = <<y[i]>> /\ r.mark = "none" /\ r.comma = FALSE
      BY <2>4, <2>5, <2>6
    <3>2. [r EXCEPT !.ws = x] = [ws |-> x, mark |-> r.mark, comma |-> r.comma]
      <4>1. r \in [ws : Seq(Word), mark : STRING, comma : BOOLEAN]
        BY <2>3, <2>6
      <4> QED
        BY <4>1
    <3> QED
      BY <3>1, <3>2, Zenon DEF Whole
  <2> QED
    BY <2>1, <2>6, <2>7
<1> DEFINE Is(f) == f = [i \in 0..Len(t) |-> IF i = 0 THEN <<>>
                         ELSE JoinChunk(f[i - 1], [t[i] EXCEPT !.ws = CanonicaliseChunk(t, i)])]
           F == CHOOSE f : Is(f)
           joined == F[Len(t)]
           one == [i \in DOMAIN joined |-> IF OneWord(joined[i]) THEN joined[i].ws[1] ELSE "punctuated"]
           o1 == CanonicaliseOrdinals(one, FALSE)
<1>9. CanonicalisePhrase(t)
        = FlattenSeq([i \in DOMAIN joined |-> IF OneWord(joined[i]) THEN <<o1[i]>> ELSE joined[i].ws])
  BY DEF CanonicalisePhrase
<1>10. \A f : Is(f) <=> AreJoined(f, v, n)
  <2> TAKE f
  <2>1. \A i \in 0..n : i # 0 => i \in 1..n
    OBVIOUS
  <2>2. [i \in 0..n |-> IF i = 0 THEN <<>> ELSE JoinChunk(f[i - 1], v[i])]
          = [i \in 0..n |-> IF i = 0 THEN <<>>
                            ELSE JoinChunk(f[i - 1], [t[i] EXCEPT !.ws = CanonicaliseChunk(t, i)])]
    BY <1>8, <2>1, Zenon
  <2> QED
    BY <1>2, <2>2, Zenon DEF AreJoined
<1> HIDE DEF Is
<1>11. PICK m : m = CanonicaliseCompoundOrdinals(y)
  OBVIOUS
<1>12. m \in Seq(Word)
  BY <1>5, <1>11, CompoundsShorter
<1>13. joined = Wholes(m)
  <2>1. /\ \E f : AreJoined(f, v, n)
        /\ \A f : AreJoined(f, v, n) => f[n] = Wholes(m)
    BY <1>5, <1>8, <1>11, JoinedAre
  <2>2. Is(F)
    BY <1>10, <2>1, Zenon
  <2> HIDE DEF F
  <2> QED
    BY <1>2, <1>10, <2>1, <2>2
<1> HIDE DEF F, joined
<1>14. PICK k \in Nat : k = Len(m)
  BY <1>12, LenProperties
<1>15. joined = [i \in 1..k |-> Whole(m[i])]
  BY <1>13, <1>14, Zenon DEF Wholes
<1>16. DOMAIN joined = 1..k /\ \A i \in 1..k : OneWord(joined[i]) /\ joined[i].ws[1] = m[i]
  BY <1>15, WholeIs
<1>17. one = m
  <2>1. m = [i \in 1..k |-> m[i]]
    BY <1>12, <1>14
  <2> QED
    BY <1>16, <2>1
<1>18. PICK o : o = CanonicaliseOrdinals(m, FALSE)
  OBVIOUS
<1>19. o \in Seq(Word) /\ Len(o) = k
  BY <1>12, <1>14, <1>18, OrdinalsShape
<1>20. [i \in DOMAIN joined |-> IF OneWord(joined[i]) THEN <<o[i]>> ELSE joined[i].ws]
         = [i \in 1..Len(o) |-> <<o[i]>>]
  BY <1>16, <1>19, Zenon
<1>21. FlattenSeq([i \in 1..Len(o) |-> <<o[i]>>]) = o
  BY <1>19, FlattenSingles
<1> HIDE DEF one
<1>22. CanonicalisePhrase(t) = o
  BY <1>9, <1>17, <1>18, <1>20, <1>21, Zenon
<1> QED
  BY <1>1, <1>4, <1>11, <1>18, <1>22, Zenon

\* canonicalise_phrase and tokenize_user_input read a plain name alike.
LEMMA PlainAlike ==
    ASSUME NEW t, IsText(t), Plain(t), t # <<>>, t[1].ws[1] \notin DOMAIN NumLen
    PROVE  CanonicalisePhrase(t) = TokenizeUserInput(t)
<1>1. PICK ws : ws = Singles(t)
  OBVIOUS
<1>2. ws \in Seq(Word) /\ ws # <<>> /\ ws[1] \notin DOMAIN NumLen
  <2>1. ws \in Seq(Word) /\ Len(ws) = Len(t)
    BY <1>1, PlainShape
  <2>2. Len(t) # 0 /\ Len(t) \in Nat
    BY EmptySeq DEF IsText
  <2>3. ws[1] = t[1].ws[1]
    BY <1>1, <2>2 DEF Singles
  <2> QED
    BY <2>1, <2>2, <2>3
<1>3. PICK x : x = Road(ws)
  OBVIOUS
<1>4. x \in Seq(Word) /\ Len(x) = Len(ws) /\ x[1] \notin DOMAIN NumLen
  BY <1>2, <1>3, RoadIs
<1>5. x # <<>>
  <2>1. Len(ws) # 0
    BY <1>2, EmptySeq
  <2> QED
    BY <1>4, <2>1
<1>6. PICK c : c = CanonicaliseCompoundOrdinals(x)
  OBVIOUS
<1>7. c \in Seq(Word) /\ c # <<>> /\ c[1] \notin DOMAIN NumLen
  BY <1>4, <1>5, <1>6, CompoundsShorter, FirstIsNoNumber
<1>8. CanonicaliseCompoundOrdinals(ApplyPlaceAbbreviationFold(x)) = ApplyPlaceAbbreviationFold(c)
  BY <1>4, <1>5, <1>6, CompoundsFolded
<1>9. CanonicaliseOrdinals(ApplyPlaceAbbreviationFold(c), FALSE)
        = ApplyPlaceAbbreviationFold(CanonicaliseOrdinals(c, TRUE))
  BY <1>7, OrdinalsFolded
<1>10. CanonicalisePhrase(t)
         = CanonicaliseOrdinals(CanonicaliseCompoundOrdinals(ApplyPlaceAbbreviationFold(x)), FALSE)
  BY <1>1, <1>3, PlainPhrase
<1>11. TokenizeUserInput(t) = ApplyPlaceAbbreviationFold(CanonicaliseOrdinals(c, TRUE))
  BY <1>1, <1>3, <1>6, PlainQuery
<1> QED
  BY <1>8, <1>9, <1>10, <1>11, Zenon

\* Before the parse nothing is parsed, and after it what the text was parsed into.
LEMMA TextInvIsInductive == TextSpec => []TextInv
<1>1. TextInit => TextInv
  BY DEF TextInit, TextInv
<1>2. TextInv /\ [TextNext]_textVars => TextInv'
  <2> SUFFICES ASSUME TextInv, [TextNext]_textVars PROVE TextInv'
    OBVIOUS
  <2>1. CASE Parse
    BY <2>1 DEF TextInv, Parse
  <2>2. CASE UNCHANGED textVars
    BY <2>2 DEF TextInv, textVars
  <2> QED
    BY <2>1, <2>2 DEF TextNext
<1> QED
  BY <1>1, <1>2, PTL DEF TextSpec

\* parse_freeform_query, for every text, country and table: no word that was
\* typed is lost, and none is put into two parts.
THEOREM ParsedWholeHolds == TextSpec => []ParsedWhole
  BY TextInvIsInductive, TextInvImpliesParsedWhole, PTL

\* tokenize_user_input and canonicalise_phrase, for every name of bare words and
\* every table: the index and a query read the name as the same tokens, unless
\* its first word is a bare number.
THEOREM IndexMatchesQueryHolds == TextSpec => []IndexMatchesQuery
<1>1. TextInv => IndexMatchesQuery
  <2> SUFFICES ASSUME TextInv PROVE IndexMatchesQuery
    OBVIOUS
  <2>1. IsText(text)
    BY TextsAreTexts DEF TextInv
  <2> QED
    BY <2>1, PlainAlike DEF IndexMatchesQuery
<1> QED
  BY <1>1, TextInvIsInductive, PTL

=============================================================================
